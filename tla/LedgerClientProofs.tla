------------------------- MODULE LedgerClientProofs -------------------------
(***************************************************************************)
(* Proofs about LedgerClient, for any number of calls and whatever they    *)
(* are.                                                                    *)
(*                                                                         *)
(* However the calls of the SDK interleave and whoever gives up on them,   *)
(* the ledger only takes steps of CredentialLedger; so what is proved of   *)
(* that module holds of a ledger under concurrent clients.  The steps that *)
(* reach the ledger are the commits, and a command commits as a            *)
(* transaction of CredentialLedger because it was built from an input      *)
(* whose parties, values and contract ids exist.  ClientInv keeps that of  *)
(* every call's input and command, although the contracts there are grow   *)
(* in number between the call and the commit.                              *)
(***************************************************************************)
EXTENDS LedgerClient, CredentialLedgerProofs

\* The commands that can be built from the inputs there are.
Commands ==
  {NoCommand}
    \cup {firstCommand(in) :
            in \in {i \in Inputs : i.op \notin Finders}}
    \cup {buildCredentialFactoryUpdateExerciseCommand(in, f) :
            in \in {i \in Inputs : i.op = "updateCredentials"}, f \in Nat}

Steps == {"idle", "ledgerEnd", "acs", "submitted", "returned", "failed"}

Codes == {"none", "ledger_error", "package_id_unresolved", "submit_failed",
          "command_already_submitted", "outcome_unknown"}

States == {"none", "sent", "committed", "rejected", "duplicate"}

\* The records of calls whose inputs are of In, and the ones of submissions
\* whose commands are of Cmd.
TaskOf(In) ==
  [step : Steps, input : In, snapshot : SUBSET Nat,
   factory : Nat, result : Nat, error : Codes, past : SUBSET Nat]

SubmittedOf(Cmd) == [cmd : Cmd, state : States, created : Nat]

Task == TaskOf(Inputs \cup {NoInput})
Submitted == SubmittedOf(Commands)

ClientInv ==
  /\ TypeOK
  /\ task \in [Call -> Task]
  /\ sub \in [Call -> Submitted]

\* What the transaction of a command needs of its arguments.
WellFormed(cmd) ==
  /\ cmd.choice # "none" => cmd.actAs \subseteq Party
  /\ cmd.choice = "CreateCredential" =>
       cmd.scope \in Scope /\ cmd.claims \in ClaimMap /\ cmd.expiresAt \in Expiry
  /\ cmd.choice = "RevokeCredential" => cmd.reason \in Text
  /\ cmd.choice = "CreateFactory" => cmd.scope \in Scope
  /\ cmd.choice = "CredentialFactory_UpdateCredentials" =>
       /\ cmd.update = [credentialId |-> cmd.update.credentialId,
                        newClaims |-> cmd.update.newClaims,
                        newExpiresAt |-> cmd.update.newExpiresAt]
       /\ cmd.update.newClaims \in ClaimMap
       /\ cmd.update.newExpiresAt \in Expiry
  /\ cmd.choice = "CreateKycNft" =>
       cmd.issuer \in Party /\ cmd.boundCredentialId \in Created("Credential")

-----------------------------------------------------------------------------
(* Inputs and commands.                                                    *)

LEMMA InputFields ==
  ASSUME NEW in \in Inputs
  PROVE  /\ in.op = "createCredential" =>
              in.scope \in Scope /\ in.claims \in ClaimMap /\ in.expiresAt \in Expiry
         /\ in.op = "verifyCredential" => in.actor \in Party
         /\ in.op = "revokeCredential" => in.issuer \in Party /\ in.reason \in Text
         /\ in.op = "updateCredentials" =>
              /\ in.scope \in Scope /\ in.newClaims \in ClaimMap
              /\ in.newExpiresAt \in Expiry \cup {Omitted}
         /\ in.op = "archiveAsHolder" => in.holder \in Party
         /\ in.op = "createKycNft" =>
              in.issuer \in Party /\ in.boundCredentialId \in Created("Credential")
         /\ in.op = "burnNft" => in.issuer \in Party
         /\ in.op \in {"createCredential", "verifyCredential", "revokeCredential",
                       "updateCredentials", "archiveAsHolder", "createKycNft",
                       "burnNft"} \cup Finders
  BY DEF Inputs, Finders

LEMMA InputIds ==
  ASSUME TypeOK, NEW in \in Inputs
  PROVE  /\ in.op = "burnNft" => in.nftContractId \in Nat
         /\ in.op \in {"verifyCredential", "revokeCredential",
                       "archiveAsHolder"} => in.contractId \in Nat
  <1>1. /\ in.op = "burnNft" => in.nftContractId \in Created("KycNFT")
        /\ in.op \in {"verifyCredential", "revokeCredential",
                      "archiveAsHolder"} => in.contractId \in Created("Credential")
    BY DEF Inputs
  <1>2. Created("KycNFT") \subseteq Nat /\ Created("Credential") \subseteq Nat
    BY DEF TypeOK, Created
  <1> QED
    BY <1>1, <1>2

LEMMA ScopeParties ==
  ASSUME NEW s \in Scope
  PROVE  {s.issuer, s.holder} \subseteq Party
  BY ScopeAssumption

LEMMA FirstCommandIsWellFormed ==
  ASSUME NEW in \in Inputs, in.op \notin Finders
  PROVE  WellFormed(firstCommand(in))
  <1>1. CASE in.op = "createCredential"
    <2>1. firstCommand(in) = buildCreateCredentialCommand(in)
      BY <1>1 DEF firstCommand
    <2> QED
      BY <2>1, <1>1, InputFields, ScopeParties
         DEF WellFormed, buildCreateCredentialCommand
  <1>2. CASE in.op = "verifyCredential"
    <2>1. firstCommand(in) = buildVerifyCredentialCommand(in)
      BY <1>2 DEF firstCommand
    <2> QED
      BY <2>1, <1>2, InputFields DEF WellFormed, buildVerifyCredentialCommand
  <1>3. CASE in.op = "revokeCredential"
    <2>1. firstCommand(in) = buildRevokeCredentialCommand(in)
      BY <1>3 DEF firstCommand
    <2> QED
      BY <2>1, <1>3, InputFields DEF WellFormed, buildRevokeCredentialCommand
  <1>4. CASE in.op = "updateCredentials"
    <2>1. firstCommand(in) = buildUpdateCredentialsCommand(in)
      BY <1>4 DEF firstCommand
    <2> QED
      BY <2>1, <1>4, InputFields, ScopeParties
         DEF WellFormed, buildUpdateCredentialsCommand
  <1>5. CASE in.op = "archiveAsHolder"
    <2>1. firstCommand(in) = buildArchiveAsHolderCommand(in)
      BY <1>5 DEF firstCommand
    <2> QED
      BY <2>1, <1>5, InputFields DEF WellFormed, buildArchiveAsHolderCommand
  <1>6. CASE in.op = "createKycNft"
    <2>1. firstCommand(in) = buildCreateKycNftCommand(in)
      BY <1>6 DEF firstCommand
    <2> QED
      BY <2>1, <1>6, InputFields DEF WellFormed, buildCreateKycNftCommand
  <1>7. CASE in.op = "burnNft"
    <2>1. firstCommand(in) = buildBurnNftCommand(in)
      BY <1>7 DEF firstCommand
    <2> QED
      BY <2>1, <1>7, InputFields DEF WellFormed, buildBurnNftCommand
  <1> QED
    BY <1>1, <1>2, <1>3, <1>4, <1>5, <1>6, <1>7, InputFields

LEMMA SecondCommandIsWellFormed ==
  ASSUME NEW in \in Inputs, in.op = "updateCredentials", NEW f
  PROVE  WellFormed(buildCredentialFactoryUpdateExerciseCommand(in, f))
  BY InputFields, ScopeParties, ExpiryAssumption
     DEF WellFormed, buildCredentialFactoryUpdateExerciseCommand

LEMMA CommandsAreWellFormed ==
  ASSUME NEW cmd \in Commands
  PROVE  WellFormed(cmd)
  <1>1. WellFormed(NoCommand)
    BY DEF WellFormed, NoCommand
  <1> QED
    BY <1>1, FirstCommandIsWellFormed, SecondCommandIsWellFormed DEF Commands

\* Contracts stay on the ledger once they are created, so inputs and
\* commands stay what they are.
LEMMA InputsGrow ==
  ASSUME \A t : Created(t) \subseteq Created(t)'
  PROVE  Inputs \subseteq Inputs' /\ Commands \subseteq Commands'
  <1>1. Inputs \subseteq Inputs'
    BY DEF Inputs
  <1> QED
    BY <1>1 DEF Commands

-----------------------------------------------------------------------------
(* Commits.                                                                *)

\* The transaction of a well-formed command is one of CredentialLedger, or a
\* fetch.
LEMMA CommandIsTransaction ==
  ASSUME TypeOK, NEW cmd, WellFormed(cmd), Transacts(cmd)
  PROVE  Next \/ UNCHANGED vars
  <1>1. CASE cmd.choice = "Credential_PublicFetch"
    BY <1>1 DEF Transacts
  <1>2. ASSUME cmd.choice # "Credential_PublicFetch"
        PROVE  cmd.actAs \in SUBSET Party
    BY <1>2 DEF WellFormed, Transacts
  <1>3. CASE cmd.choice = "CreateCredential"
    <2>1. CreateCredential(cmd.actAs, cmd.scope, cmd.claims, cmd.expiresAt)
      BY <1>3 DEF Transacts
    <2> QED
      BY <2>1, <1>2, <1>3 DEF WellFormed, Next, CredentialNext
  <1>4. CASE cmd.choice = "RevokeCredential"
    <2>1. RevokeCredential(cmd.actAs, cmd.contractId, cmd.nftCid, cmd.reason)
      BY <1>4 DEF Transacts
    <2>2. /\ cmd.contractId \in Active("Credential")
          /\ cmd.nftCid \in Created("KycNFT") \cup {NoContract}
      BY <2>1 DEF RevokeCredential, Cascades, Active
    <2> QED
      BY <2>1, <2>2, <1>2, <1>4 DEF WellFormed, Next, CredentialNext
  <1>5. CASE cmd.choice = "CreateFactory"
    <2>1. CreateFactory(cmd.actAs, cmd.scope)
      BY <1>5 DEF Transacts
    <2> QED
      BY <2>1, <1>2, <1>5 DEF WellFormed, Next, FactoryNext
  <1>6. CASE cmd.choice = "CredentialFactory_UpdateCredentials"
    <2> DEFINE updates == << cmd.update >>
    <2>1. FactoryUpdateCredentials(cmd.actAs, cmd.factory, updates)
      BY <1>6 DEF Transacts
    <2>2. cmd.factory \in Active("CredentialFactory")
      BY <2>1 DEF FactoryUpdateCredentials
    <2>3. Accepts(cmd.factory, updates, 1)
      BY <2>1 DEF FactoryUpdateCredentials
    <2>4. cmd.update.credentialId \in Created("Credential")
      BY <2>3 DEF Accepts, Active
    <2>5. cmd.update \in Update
      BY <2>4, <1>6 DEF WellFormed, Update
    <2>6. updates \in [1..1 -> Update] /\ 1 \in 1..MaxUpdates
      BY <2>5, BulkAssumption, BoundAssumption
    <2>7. updates \in BulkUpdates
      BY <2>6 DEF BulkUpdates
    <2> HIDE DEF updates
    <2> QED
      BY <2>1, <2>2, <2>7, <1>2, <1>6 DEF Next, FactoryNext
  <1>7. CASE cmd.choice = "Credential_ArchiveAsHolder"
    <2>1. ArchiveAsHolder(cmd.actAs, cmd.contractId)
      BY <1>7 DEF Transacts
    <2>2. cmd.contractId \in Active("Credential")
      BY <2>1 DEF ArchiveAsHolder
    <2> QED
      BY <2>1, <2>2, <1>2, <1>7 DEF Next, CredentialNext
  <1>8. CASE cmd.choice = "CreateKycNft"
    <2>1. CreateKycNft(cmd.actAs, cmd.issuer, cmd.boundCredentialId)
      BY <1>8 DEF Transacts
    <2> QED
      BY <2>1, <1>2, <1>8 DEF WellFormed, Next, NftNext
  <1>9. CASE cmd.choice = "BurnNft"
    <2>1. BurnNft(cmd.actAs, cmd.contractId)
      BY <1>9 DEF Transacts
    <2>2. cmd.contractId \in Active("KycNFT")
      BY <2>1 DEF BurnNft
    <2> QED
      BY <2>1, <2>2, <1>2, <1>9 DEF Next, NftNext
  <1> QED
    BY <1>1, <1>3, <1>4, <1>5, <1>6, <1>7, <1>8, <1>9 DEF Transacts

LEMMA LedgerGrows ==
  ASSUME TypeOK, Next \/ UNCHANGED vars
  PROVE  /\ TypeOK'
         /\ \A t : Created(t) \subseteq Created(t)'
  <1>1. CASE Next
    <2>1. PICK act, consumed, produced, origins :
            Transaction(act, consumed, produced, origins)
      BY <1>1, StepIsTransaction
    <2>2. /\ TypeOK' /\ Len(ledger) \in Nat /\ Len(produced) \in Nat
          /\ Len(ledger') = Len(ledger) + Len(produced)
          /\ \A c \in 1..Len(ledger) : ledger'[c] = ledger[c]
      BY <2>1, LedgerAfter
    <2>3. ASSUME NEW t, NEW c \in Created(t)
          PROVE  c \in Created(t)'
      BY <2>2, <2>3 DEF Created
    <2> QED
      BY <2>2, <2>3
  <1>2. CASE UNCHANGED vars
    BY <1>2 DEF vars, TypeOK, Created
  <1> QED
    BY <1>1, <1>2

-----------------------------------------------------------------------------
(* Steps of a call.                                                        *)

\* Steps that leave the ledger alone leave the inputs and commands there are.
LEMMA LedgerAlone ==
  ASSUME ClientInv, UNCHANGED vars
  PROVE  /\ TypeOK'
         /\ Inputs \subseteq Inputs' /\ Commands \subseteq Commands'
  <1>1. TypeOK' /\ \A t : Created(t) \subseteq Created(t)'
    BY LedgerGrows DEF ClientInv
  <1> QED
    BY <1>1, InputsGrow

\* A call's record stays one when fields of it are replaced.
LEMMA TaskStep ==
  ASSUME NEW In, task \in [Call -> TaskOf(In)], NEW c \in Call,
         NEW step \in Steps, task' = [task EXCEPT ![c].step = step]
  PROVE  task' \in [Call -> TaskOf(In)]
  BY DEF TaskOf

LEMMA TaskFactory ==
  ASSUME NEW In, task \in [Call -> TaskOf(In)], NEW c \in Call,
         NEW id \in Nat, task' = [task EXCEPT ![c].factory = id]
  PROVE  task' \in [Call -> TaskOf(In)]
  BY DEF TaskOf

LEMMA TaskResult ==
  ASSUME NEW In, task \in [Call -> TaskOf(In)], NEW c \in Call,
         NEW step \in Steps, NEW id \in Nat,
         task' = [task EXCEPT ![c].step = step, ![c].result = id]
  PROVE  task' \in [Call -> TaskOf(In)]
  BY DEF TaskOf

LEMMA TaskError ==
  ASSUME NEW In, task \in [Call -> TaskOf(In)], NEW c \in Call,
         NEW step \in Steps, NEW code \in Codes,
         task' = [task EXCEPT ![c].step = step, ![c].error = code]
  PROVE  task' \in [Call -> TaskOf(In)]
  BY DEF TaskOf

LEMMA TaskSnapshot ==
  ASSUME NEW In, task \in [Call -> TaskOf(In)], NEW c \in Call,
         NEW step \in Steps, NEW S \in SUBSET Nat,
         task' = [task EXCEPT ![c].step = step, ![c].snapshot = S]
  PROVE  task' \in [Call -> TaskOf(In)]
  BY DEF TaskOf

LEMMA TaskInput ==
  ASSUME NEW In, task \in [Call -> TaskOf(In)], NEW c \in Call,
         NEW step \in Steps, NEW in \in In, NEW S \in SUBSET Nat,
         task' = [task EXCEPT ![c].step = step, ![c].input = in,
                              ![c].past = S]
  PROVE  task' \in [Call -> TaskOf(In)]
  BY DEF TaskOf

LEMMA SubmittedState ==
  ASSUME NEW Cmd, sub \in [Call -> SubmittedOf(Cmd)], NEW c \in Call,
         NEW state \in States, sub' = [sub EXCEPT ![c].state = state]
  PROVE  sub' \in [Call -> SubmittedOf(Cmd)]
  BY DEF SubmittedOf

LEMMA SubmittedCreated ==
  ASSUME NEW Cmd, sub \in [Call -> SubmittedOf(Cmd)], NEW c \in Call,
         NEW state \in States, NEW id \in Nat,
         sub' = [sub EXCEPT ![c].state = state, ![c].created = id]
  PROVE  sub' \in [Call -> SubmittedOf(Cmd)]
  BY DEF SubmittedOf

LEMMA SubmittedAnew ==
  ASSUME NEW Cmd, sub \in [Call -> SubmittedOf(Cmd)], NEW c \in Call,
         NEW state \in States, NEW id \in Nat, NEW cmd \in Cmd,
         sub' = [sub EXCEPT ![c] = [cmd |-> cmd, state |-> state,
                                    created |-> id]]
  PROVE  sub' \in [Call -> SubmittedOf(Cmd)]
  BY DEF SubmittedOf

\* An invariant of the types: the sets only grow.
LEMMA ClientTypesKept ==
  ASSUME ClientInv, TypeOK',
         Inputs \subseteq Inputs', Commands \subseteq Commands',
         task' \in [Call -> Task], sub' \in [Call -> Submitted]
  PROVE  ClientInv'
  <1>1. Task \subseteq Task' /\ Submitted \subseteq Submitted'
    BY DEF Task, Submitted, TaskOf, SubmittedOf, NoInput
  <1>2. task' \in [Call -> Task'] /\ sub' \in [Call -> Submitted']
    BY <1>1
  <1> QED
    BY <1>2 DEF ClientInv

LEMMA TaskFields ==
  ASSUME ClientInv, NEW c \in Call
  PROVE  /\ task[c].input \in Inputs \cup {NoInput}
         /\ task[c].snapshot \subseteq Nat
         /\ sub[c].cmd \in Commands
         /\ sub[c].created \in Nat
  <1>1. task[c] \in Task /\ sub[c] \in Submitted
    BY DEF ClientInv
  <1> QED
    BY <1>1 DEF Task, Submitted, TaskOf, SubmittedOf

LEMMA SubmitKeepsTypes ==
  ASSUME ClientInv, NEW c \in Call, NEW cmd \in Commands, Submit(c, cmd)
  PROVE  sub' \in [Call -> Submitted]
  <1> DEFINE state == "sent"
  <1>1. sub' = [sub EXCEPT ![c] = [cmd |-> cmd, state |-> state,
                                   created |-> NoContract]]
    BY DEF Submit
  <1>2. sub \in [Call -> SubmittedOf(Commands)] /\ NoContract \in Nat
    BY DEF ClientInv, Submitted, NoContract
  <1>3. state \in States
    BY DEF States
  <1> HIDE DEF state
  <1>4. sub' \in [Call -> SubmittedOf(Commands)]
    BY <1>1, <1>2, <1>3, SubmittedAnew
  <1> QED
    BY <1>4 DEF Submitted

LEMMA ReturnKeepsTypes ==
  ASSUME ClientInv, NEW c \in Call, NEW id \in Nat, Return(c, id)
  PROVE  task' \in [Call -> Task]
  <1> DEFINE In == Inputs \cup {NoInput}
             step == "returned"
  <1>0. step \in Steps
    BY DEF Steps
  <1>1. task \in [Call -> TaskOf(In)]
    BY DEF ClientInv, Task
  <1>2. task' = [task EXCEPT ![c].step = step, ![c].result = id]
    BY DEF Return
  <1> HIDE DEF In, step
  <1>3. task' \in [Call -> TaskOf(In)]
    BY <1>1, <1>2, <1>0, TaskResult
  <1> QED
    BY <1>3 DEF Task, In

LEMMA FailKeepsTypes ==
  ASSUME ClientInv, NEW c \in Call, NEW code \in Codes, Fail(c, code)
  PROVE  task' \in [Call -> Task]
  <1> DEFINE In == Inputs \cup {NoInput}
             step == "failed"
  <1>0. step \in Steps
    BY DEF Steps
  <1>1. task \in [Call -> TaskOf(In)]
    BY DEF ClientInv, Task
  <1>2. task' = [task EXCEPT ![c].step = step, ![c].error = code]
    BY DEF Fail
  <1> HIDE DEF In, step
  <1>3. task' \in [Call -> TaskOf(In)]
    BY <1>1, <1>2, <1>0, TaskError
  <1> QED
    BY <1>3 DEF Task, In

LEMMA FinishKeepsTypes ==
  ASSUME ClientInv, NEW c \in Call, NEW op, NEW id \in Nat, Finish(c, op, id)
  PROVE  /\ task' \in [Call -> Task] /\ sub' \in [Call -> Submitted]
         /\ UNCHANGED vars
  BY ReturnKeepsTypes DEF Finish, ClientInv

\* The only step of a call that reaches the ledger.
LEMMA CommitStep ==
  ASSUME ClientInv, NEW c \in Call, CommandCommits(c)
  PROVE  (Next \/ UNCHANGED vars) /\ ClientInv'
  <1>1. Next \/ UNCHANGED vars
    BY TaskFields, CommandsAreWellFormed, CommandIsTransaction
       DEF CommandCommits, ClientInv
  <1>2. TypeOK' /\ \A t : Created(t) \subseteq Created(t)'
    BY <1>1, LedgerGrows DEF ClientInv
  <1>3. Inputs \subseteq Inputs' /\ Commands \subseteq Commands'
    BY <1>2, InputsGrow
  <1>4. Len(ledger) \in Nat
    BY DEF ClientInv, TypeOK
  <1>5. sub' \in [Call -> Submitted]
    <2> DEFINE id == IF Len(ledger') > Len(ledger) THEN Len(ledger) + 1
                     ELSE NoContract
               state == "committed"
    <2>0. state \in States
      BY DEF States
    <2>1. id \in Nat
      BY <1>4 DEF NoContract
    <2>2. sub' = [sub EXCEPT ![c].state = state, ![c].created = id]
      BY DEF CommandCommits
    <2>3. sub \in [Call -> SubmittedOf(Commands)]
      BY DEF ClientInv, Submitted
    <2> HIDE DEF id, state
    <2>4. sub' \in [Call -> SubmittedOf(Commands)]
      BY <2>0, <2>1, <2>2, <2>3, SubmittedCreated
    <2> QED
      BY <2>4 DEF Submitted
  <1>6. task' \in [Call -> Task]
    BY DEF CommandCommits, ClientInv
  <1> QED
    BY <1>1, <1>2, <1>3, <1>5, <1>6, ClientTypesKept

LEMMA StartStep ==
  ASSUME ClientInv, NEW c \in Call, NEW in \in Inputs, Start(c, in)
  PROVE  /\ task' \in [Call -> Task] /\ sub' \in [Call -> Submitted]
         /\ UNCHANGED vars
  <1>1. task' \in [Call -> Task]
    <2> DEFINE step == IF Lists(in) THEN "ledgerEnd" ELSE "submitted"
               history == IF Reads(in) THEN Past ELSE {}
               In == Inputs \cup {NoInput}
    <2>1. Past \subseteq Nat
      BY DEF Past, Created, ClientInv, TypeOK
    <2>2. history \in SUBSET Nat
      BY <2>1
    <2>0. step \in Steps
      BY DEF Steps
    <2>3. task' = [task EXCEPT ![c].step = step, ![c].input = in,
                               ![c].past = history]
      BY DEF Start
    <2>4. task \in [Call -> TaskOf(In)] /\ in \in In
      BY DEF ClientInv, Task
    <2> HIDE DEF step, history, In
    <2>5. task' \in [Call -> TaskOf(In)]
      BY <2>0, <2>2, <2>3, <2>4, TaskInput
    <2> QED
      BY <2>5 DEF Task, In
  <1>2. sub' \in [Call -> Submitted]
    <2>1. CASE Lists(in)
      BY <2>1 DEF Start, ClientInv
    <2>2. CASE ~Lists(in)
      <3>1. in.op \notin Finders
        BY <2>2 DEF Lists
      <3>2. firstCommand(in) \in Commands
        BY <3>1 DEF Commands
      <3> QED
        BY <2>2, <3>2, SubmitKeepsTypes DEF Start
    <2> QED
      BY <2>1, <2>2
  <1> QED
    BY <1>1, <1>2 DEF Start

LEMMA ReadStep ==
  ASSUME ClientInv, NEW c \in Call,
         \/ LedgerEnd(c)
         \/ findActiveCredentialByHolder(c)
         \/ findActiveCredentialByContractId(c)
         \/ findActiveKycNftByCredentialId(c)
         \/ resolveDisclosedTemplateId(c)
  PROVE  /\ task' \in [Call -> Task] /\ sub' \in [Call -> Submitted]
         /\ UNCHANGED vars
  <1>1. CASE LedgerEnd(c)
    <2> DEFINE listed == AcsAt(task[c].input.at, Wanted(task[c].input))
               step == "acs"
               In == Inputs \cup {NoInput}
    <2>0. step \in Steps
      BY DEF Steps
    <2>1. listed \in SUBSET Nat
      <3>1. active \subseteq Nat
        BY DEF ClientInv, TypeOK
      <3>2. listed \subseteq active
        BY DEF AcsAt, Active
      <3> QED
        BY <3>1, <3>2
    <2>2. task' = [task EXCEPT ![c].step = step, ![c].snapshot = listed]
      BY <1>1 DEF LedgerEnd
    <2>3. task \in [Call -> TaskOf(In)]
      BY DEF ClientInv, Task
    <2> HIDE DEF listed, step, In
    <2>4. task' \in [Call -> TaskOf(In)]
      BY <2>0, <2>1, <2>2, <2>3, TaskSnapshot
    <2> QED
      BY <1>1, <2>4 DEF LedgerEnd, ClientInv, Task, In
  <1>2. CASE findActiveCredentialByHolder(c)
    <2>1. Matches(c) \subseteq Nat /\ NoContract \in Nat
      BY TaskFields DEF Matches, NoContract
    <2> QED
      BY <1>2, <2>1, ReturnKeepsTypes, FailKeepsTypes
         DEF findActiveCredentialByHolder, ClientInv, Codes
  <1>4. CASE \/ findActiveCredentialByContractId(c)
             \/ findActiveKycNftByCredentialId(c)
    <2>1. Matches(c) \subseteq Nat /\ NoContract \in Nat
      BY TaskFields DEF Matches, NoContract
    <2> QED
      BY <1>4, <2>1, ReturnKeepsTypes
         DEF findActiveCredentialByContractId, findActiveKycNftByCredentialId,
             FindsFirst, ClientInv
  <1>3. CASE resolveDisclosedTemplateId(c)
    <2> DEFINE in == task[c].input
    <2>1. in \in Inputs /\ in.op = "verifyCredential"
      BY <1>3, TaskFields DEF resolveDisclosedTemplateId, NoInput
    <2>2. firstCommand(in) \in Commands
      BY <2>1 DEF Commands, Finders
    <2>3. CASE in.contractId \in task[c].snapshot
      <3>1. sub' \in [Call -> Submitted]
        BY <1>3, <2>2, <2>3, SubmitKeepsTypes DEF resolveDisclosedTemplateId
      <3>2. task' \in [Call -> Task]
        <4> DEFINE step == "submitted"
                   In == Inputs \cup {NoInput}
        <4>0. step \in Steps
          BY DEF Steps
        <4>1. task' = [task EXCEPT ![c].step = step]
          BY <1>3, <2>3 DEF resolveDisclosedTemplateId
        <4>2. task \in [Call -> TaskOf(In)]
          BY DEF ClientInv, Task
        <4> HIDE DEF step, In
        <4>3. task' \in [Call -> TaskOf(In)]
          BY <4>0, <4>1, <4>2, TaskStep
        <4> QED
          BY <4>3 DEF Task, In
      <3> QED
        BY <1>3, <3>1, <3>2 DEF resolveDisclosedTemplateId
    <2>4. CASE in.contractId \notin task[c].snapshot
      BY <1>3, <2>4, FailKeepsTypes
           DEF resolveDisclosedTemplateId, ClientInv, Codes
    <2> QED
      BY <2>3, <2>4
  <1> QED
    BY <1>1, <1>2, <1>3, <1>4

\* What the operations that create nothing return are the ids of inputs.
LEMMA FinishedFor ==
  ASSUME ClientInv, NEW c \in Call,
         \/ verifyCredential(c) \/ revokeCredential(c)
         \/ archiveAsHolder(c) \/ burnNft(c)
  PROVE  \E op, id : id \in Nat /\ Finish(c, op, id)
  <1> DEFINE in == task[c].input
  <1>1. in.op \in {"verifyCredential", "revokeCredential", "archiveAsHolder",
                   "burnNft"}
    BY DEF verifyCredential, revokeCredential, archiveAsHolder, burnNft, Finish
  <1>2. in \in Inputs
    BY <1>1, TaskFields DEF NoInput
  <1>3. /\ in.op = "burnNft" => in.nftContractId \in Nat
        /\ in.op \in {"verifyCredential", "revokeCredential",
                      "archiveAsHolder"} => in.contractId \in Nat
    BY <1>2, InputIds DEF ClientInv
  <1> QED
    BY <1>3 DEF verifyCredential, revokeCredential, archiveAsHolder, burnNft,
                Finish

LEMMA AnswerStep ==
  ASSUME ClientInv, NEW c \in Call,
         \/ CommandRejected(c)
         \/ TransactionArrives(c)
         \/ RejectionArrives(c)
         \/ OutcomeLost(c)
  PROVE  /\ task' \in [Call -> Task] /\ sub' \in [Call -> Submitted]
         /\ UNCHANGED vars
  <1>1. CASE CommandRejected(c)
    <2> DEFINE state == IF Duplicate(c) THEN "duplicate" ELSE "rejected"
    <2>1. state \in States
      BY DEF States
    <2>2. sub' = [sub EXCEPT ![c].state = state]
      BY <1>1 DEF CommandRejected
    <2>3. sub \in [Call -> SubmittedOf(Commands)]
      BY DEF ClientInv, Submitted
    <2> HIDE DEF state
    <2>4. sub' \in [Call -> SubmittedOf(Commands)]
      BY <2>1, <2>2, <2>3, SubmittedState
    <2> QED
      BY <1>1, <2>4 DEF CommandRejected, ClientInv, Submitted
  <1>2. CASE TransactionArrives(c)
    <2>1. CASE \/ createCredential(c) \/ createKycNft(c)
               \/ sub[c].cmd.choice = "CredentialFactory_UpdateCredentials"
                    /\ Finish(c, "updateCredentials", sub[c].created)
      <3>1. PICK op : Finish(c, op, sub[c].created)
        BY <2>1 DEF createCredential, createKycNft
      <3> QED
        BY <3>1, TaskFields, FinishKeepsTypes
    <2>2. CASE \/ verifyCredential(c) \/ revokeCredential(c)
               \/ archiveAsHolder(c) \/ burnNft(c)
      <3>1. PICK op, id : /\ id \in Nat
                          /\ Finish(c, op, id)
        BY <2>2, FinishedFor
      <3> QED
        BY <3>1, FinishKeepsTypes
    <2>3. CASE /\ sub[c].cmd.choice = "CreateFactory"
               /\ updateCredentials(c)
      <3> DEFINE In == Inputs \cup {NoInput}
                 in == task[c].input
                 cmd == buildCredentialFactoryUpdateExerciseCommand(
                          in, sub[c].created)
      <3>1. /\ in.op = "updateCredentials"
            /\ task' = [task EXCEPT ![c].factory = sub[c].created]
            /\ Submit(c, cmd)
            /\ UNCHANGED vars
        BY <2>3 DEF updateCredentials
      <3>2. in \in Inputs /\ sub[c].created \in Nat
        BY <3>1, TaskFields DEF NoInput
      <3>3. cmd \in Commands
        BY <3>1, <3>2 DEF Commands
      <3>4. task \in [Call -> TaskOf(In)]
        BY DEF ClientInv, Task
      <3>5. sub' \in [Call -> Submitted]
        BY <3>1, <3>3, SubmitKeepsTypes
      <3> HIDE DEF In
      <3>6. task' \in [Call -> TaskOf(In)]
        BY <3>1, <3>2, <3>4, TaskFactory
      <3> QED
        BY <3>1, <3>5, <3>6 DEF Task, In
    <2> QED
      BY <1>2, <2>1, <2>2, <2>3 DEF TransactionArrives, updateCredentials
  <1>3. CASE RejectionArrives(c)
    BY <1>3, FailKeepsTypes DEF RejectionArrives, ClientInv, Codes
  <1>4. CASE OutcomeLost(c)
    BY <1>4, FailKeepsTypes DEF OutcomeLost, ClientInv, Codes
  <1> QED
    BY <1>1, <1>2, <1>3, <1>4

LEMMA ClientStep ==
  ASSUME ClientInv, [ClientNext]_allVars
  PROVE  [Next]_vars /\ ClientInv'
  <1>1. ASSUME task' \in [Call -> Task], sub' \in [Call -> Submitted],
               UNCHANGED vars
        PROVE  ClientInv'
    BY <1>1, LedgerAlone, ClientTypesKept
  <1>2. ASSUME NEW c \in Call, Step(c)
        PROVE  [Next]_vars /\ ClientInv'
    <2>1. CASE \E in \in Inputs : Start(c, in)
      BY <2>1, <1>1, StartStep
    <2>2. CASE \/ LedgerEnd(c) \/ findActiveCredentialByHolder(c)
               \/ findActiveCredentialByContractId(c)
               \/ findActiveKycNftByCredentialId(c)
               \/ resolveDisclosedTemplateId(c)
      BY <2>2, <1>1, ReadStep
    <2>3. CASE CommandCommits(c)
      BY <2>3, CommitStep
    <2>4. CASE \/ CommandRejected(c) \/ TransactionArrives(c)
               \/ RejectionArrives(c) \/ OutcomeLost(c)
      BY <2>4, <1>1, AnswerStep
    <2> QED
      BY <1>2, <2>1, <2>2, <2>3, <2>4 DEF Step
  <1>3. CASE UNCHANGED allVars
    BY <1>3, <1>1 DEF allVars, clientVars, ClientInv
  <1> QED
    BY <1>2, <1>3 DEF ClientNext

LEMMA ClientInitially ==
  ASSUME ClientInit
  PROVE  Init /\ ClientInv
  <1>1. TypeOK
    BY DEF ClientInit, Init, TypeOK
  <1>2. task \in [Call -> Task]
    BY DEF ClientInit, Idle, Task, TaskOf, Steps, Codes, NoContract
  <1>3. sub \in [Call -> Submitted]
    <2>1. NoCommand \in Commands
      BY DEF Commands
    <2> QED
      BY <2>1 DEF ClientInit, NoSubmission, Submitted, SubmittedOf, States,
                  NoContract
  <1> QED
    BY <1>1, <1>2, <1>3 DEF ClientInit, ClientInv

-----------------------------------------------------------------------------
(* Theorems.                                                               *)

\* A ledger that the SDK's calls are made against is one of CredentialLedger:
\* every step of ledger.ts and query.ts is a transaction of the templates or
\* leaves the ledger alone.
THEOREM ClientsRefineLedger == ClientSpec => Spec
  <1>1. ClientInit => Init /\ ClientInv
    BY ClientInitially
  <1>2. ClientInv /\ [ClientNext]_allVars => [Next]_vars /\ ClientInv'
    BY ClientStep
  <1> QED
    BY <1>1, <1>2, PTL DEF ClientSpec, Spec

\* Concurrent calls, late commits of calls that were given up, and retries
\* never leave a credential with two active siblings.
THEOREM ClientsNeverFork == ClientSpec => []OneLivePerLineage
  BY ClientsRefineLedger, NoFork, PTL

\* ... nor one whose revoke stamp an update took off again.
THEOREM ClientsNeverWashOff == ClientSpec => []RevocationIsPermanent
  BY ClientsRefineLedger, RevocationNeverWashesOff, PTL

\* What a verifier can see of any credential changes, whatever the SDK's
\* clients do at once, only by the steps the standard allows, submitted by the
\* parties it requires.
THEOREM ClientsImplementStandard == ClientSpec => ImplementsStandard
  BY ClientsRefineLedger, LedgerImplementsStandard, PTL

-----------------------------------------------------------------------------
(***************************************************************************)
(* What the calls return, and what they leave behind, under any            *)
(* interleaving.                                                           *)
(*                                                                         *)
(* ResultInv follows a call along its stages: which command it has sent    *)
(* (Stage), what that command did to the ledger when it committed          *)
(* (Effect), what is known of the contracts it was listed (Known); and     *)
(* across calls, that no two created the same contract (Apart), that one   *)
(* deterministic NFT command commits (Once), and that every active factory *)
(* has a call that still needs it (Needed).  What is known of contracts    *)
(* stays true because the ledger only grows (Grows).                       *)
(***************************************************************************)

Makers == {"createCredential", "updateCredentials", "createKycNft"}

\* The command is one that a call with record k sends.
Sends(k, cmd) ==
  \/ cmd = firstCommand(k.input)
  \/ /\ k.input.op = "updateCredentials"
     /\ cmd = buildCredentialFactoryUpdateExerciseCommand(k.input, k.factory)

Stage(k, s) ==
  /\ k.step = "idle" <=> k.input.op = "none"
  /\ k.step \in {"idle", "ledgerEnd", "acs"} => s.state = "none"
  /\ k.step = "submitted" => s.state # "none"
  /\ s.state # "none" =>
       /\ k.input \in Inputs /\ k.input.op \notin Finders
       /\ Sends(k, s.cmd)
  /\ k.step = "returned" =>
       /\ k.input.op \notin Finders => s.state = "committed"
       /\ k.input.op = "updateCredentials" =>
            s.cmd.choice = "CredentialFactory_UpdateCredentials"
       /\ k.input.op \in Makers => k.result = s.created
       /\ k.input.op = "verifyCredential" => k.result = k.input.contractId
  /\ k.error = "command_already_submitted" => s.state = "duplicate"

\* If credential d is of a lineage in the past of k, it shows the revocation.
Shows(k, d) == origin[d] \in k.past => Revoked(d)

\* What a committed command of a call has done, if it created contract id.
Effect(k, cmd, id) ==
  /\ cmd.choice = "CreateCredential" =>
       /\ id \in Created("Credential") /\ origin[id] = id
       /\ InScope(ledger[id], k.input.scope)
       /\ ledger[id].claims = k.input.claims
  /\ cmd.choice = "Credential_PublicFetch" =>
       /\ k.input.contractId \in Created("Credential")
       /\ ledger[k.input.contractId].admin = k.input.expectedAdmin
       /\ Shows(k, k.input.contractId)
  /\ cmd.choice = "CredentialFactory_UpdateCredentials" =>
       /\ id \in Lineage(k.input.contractId) /\ id > k.input.contractId
       /\ k.input.contractId \in Created("Credential")
       /\ ledger[id].claims = k.input.newClaims
       /\ Revoked(k.input.contractId) => Revoked(id)
  /\ cmd.choice = "CreateKycNft" =>
       /\ id \in Created("KycNFT")
       /\ ledger[id].boundCredentialId = k.input.boundCredentialId

\* What is known of the contracts that call record k mentions.
Known(k) ==
  /\ {k.result, k.factory} \subseteq 0 .. Len(ledger)
  /\ k.past \subseteq 1 .. Len(ledger)
  /\ \A n \in k.past \cap Created("KycNFT") : n \notin active
  /\ \A o \in k.past \cap Created("Credential") :
       \E d \in Created("Credential") : origin[d] = o /\ Revoked(d)
  /\ k.snapshot \subseteq Created(Wanted(k.input))
  /\ k.input.op = "none" => k.snapshot = {}
  /\ \A d \in k.snapshot :
       IF Wanted(k.input) = "KycNFT" THEN d \notin k.past ELSE Shows(k, d)
  /\ /\ k.step = "returned" /\ k.input.op \in Finders
     /\ k.result # NoContract
     => /\ k.result \in k.snapshot
        /\ k.input.op = "findActiveKycNftByCredentialId" =>
             ledger[k.result].boundCredentialId = k.input.contractId

\* The calls created different contracts.
Apart ==
  /\ \A c \in Call : sub[c].created \in 0 .. Len(ledger)
  /\ \A c, d \in Call :
       c # d /\ sub[c].created # NoContract => sub[c].created # sub[d].created

\* Submission s is a deterministic mint that committed.
IsMint(s) ==
  s.state = "committed" /\ s.cmd.choice = "CreateKycNft"
  /\ s.cmd.seed # NoContract

SameMint(s, t) ==
  s.cmd.choice = t.cmd.choice /\ s.cmd.seed = t.cmd.seed
  /\ s.cmd.actAs = t.cmd.actAs

Once ==
  /\ \A c, d \in Call :
       IsMint(sub[c]) /\ IsMint(sub[d]) /\ SameMint(sub[c], sub[d]) => c = d
  /\ \A c \in Call : sub[c].state = "duplicate" =>
       \E d \in Call : IsMint(sub[d]) /\ SameMint(sub[c], sub[d])

\* The call is between the two submissions of an update, or is in the second.
Needs(k, s, f) ==
  /\ k.input.op = "updateCredentials"
  /\ \/ s.cmd.choice = "CreateFactory" /\ s.state = "committed" /\ s.created = f
     \/ /\ s.cmd.choice = "CredentialFactory_UpdateCredentials"
        /\ s.state # "committed" /\ k.factory = f

Needed ==
  \A f \in Active("CredentialFactory") :
    \E c \in Call : Needs(task[c], sub[c], f)

ResultInv ==
  /\ \A c \in Call :
       /\ Stage(task[c], sub[c])
       /\ sub[c].state = "committed" =>
            Effect(task[c], sub[c].cmd, sub[c].created)
       /\ Known(task[c])
  /\ resolved \in [Participant -> SUBSET Created("Credential")]
  /\ Apart
  /\ Once
  /\ Needed

-----------------------------------------------------------------------------
(* The ledger grows.                                                       *)

Grows ==
  /\ Len(ledger) <= Len(ledger')
  /\ \A i \in 1 .. Len(ledger) : ledger'[i] = ledger[i] /\ origin'[i] = origin[i]
  /\ \A i \in active' : i \in active \/ i > Len(ledger)

LEMMA StepsGrow ==
  ASSUME TypeOK, Next \/ UNCHANGED vars
  PROVE  Grows /\ Len(ledger) \in Nat /\ Len(ledger') \in Nat
  <1>1. CASE Next
    <2>1. PICK act, consumed, produced, origins :
            Transaction(act, consumed, produced, origins)
      BY <1>1, StepIsTransaction
    <2>2. /\ TypeOK' /\ Len(ledger) \in Nat /\ Len(produced) \in Nat
          /\ Len(ledger') = Len(ledger) + Len(produced)
          /\ \A c \in 1..Len(ledger) : ledger'[c] = ledger[c]
      BY <2>1, LedgerAfter
    <2>3. \A i \in 1 .. Len(ledger) : origin'[i] = origin[i]
      BY <2>1, LedgerAfter
    <2>4. \A i \in active' : i \in active \/ i > Len(ledger)
      BY <2>1, <2>2 DEF Transaction, Commit
    <2> QED
      BY <2>2, <2>3, <2>4 DEF Grows
  <1>2. CASE UNCHANGED vars
    BY <1>2 DEF vars, TypeOK, Grows
  <1> QED
    BY <1>1, <1>2

LEMMA CreatedGrows ==
  ASSUME Grows, Len(ledger) \in Nat, Len(ledger') \in Nat, NEW t
  PROVE  /\ Created(t) \subseteq Created(t)'
         /\ \A i \in 1 .. Len(ledger) : i \in Created(t)' => i \in Created(t)
  BY DEF Grows, Created

LEMMA EffectsStay ==
  ASSUME Grows, Len(ledger) \in Nat, Len(ledger') \in Nat,
         NEW k, NEW cmd, NEW id, Effect(k, cmd, id)
  PROVE  Effect(k, cmd, id)'
  <1>1. \A t : Created(t) \subseteq Created(t)'
    BY CreatedGrows
  <1>2. \A t : \A i \in Created(t) :
          ledger'[i] = ledger[i] /\ origin'[i] = origin[i]
    BY DEF Grows, Created
  <1>3. Lineage(k.input.contractId) \subseteq Created("Credential")
    BY DEF Lineage
  <1> QED
    BY <1>1, <1>2, <1>3 DEF Effect, Shows, Revoked, Lineage, InScope

LEMMA KnowledgeStays ==
  ASSUME Grows, Len(ledger) \in Nat, Len(ledger') \in Nat, NEW k, Known(k)
  PROVE  Known(k)'
  <1>1. \A t : Created(t) \subseteq Created(t)'
    BY CreatedGrows
  <1>2. \A t : \A i \in Created(t) :
          i \in 1 .. Len(ledger)
          /\ ledger'[i] = ledger[i] /\ origin'[i] = origin[i]
    BY DEF Grows, Created
  <1>3. \A t : \A i \in k.past \cap Created(t)' : i \in Created(t)
    BY CreatedGrows DEF Known
  <1>4. {k.result, k.factory} \subseteq 0 .. Len(ledger')
        /\ k.past \subseteq 1 .. Len(ledger')
    BY DEF Known, Grows
  <1>5. \A n \in k.past \cap Created("KycNFT")' : n \notin active'
    BY <1>2, <1>3 DEF Known, Grows
  <1>6. \A o \in k.past \cap Created("Credential")' :
          \E d \in Created("Credential")' : origin'[d] = o /\ Revoked(d)'
    BY <1>1, <1>2, <1>3 DEF Known, Revoked
  <1>7. Wanted(k.input) \in {"KycNFT", "Credential"}
    BY DEF Wanted
  <1>8. \A d \in k.snapshot :
          /\ d \in Created(Wanted(k.input))'
          /\ IF Wanted(k.input) = "KycNFT" THEN d \notin k.past
             ELSE Shows(k, d)'
          /\ ledger'[d] = ledger[d]
    BY <1>1, <1>2 DEF Known, Shows, Revoked
  <1> QED
    BY <1>4, <1>5, <1>6, <1>8 DEF Known

\* The step appends one contract, k, with origin o.
Appends(k, o) ==
  /\ Len(ledger') = Len(ledger) + 1
  /\ ledger'[Len(ledger) + 1] = k
  /\ origin'[Len(ledger) + 1] = o

LEMMA CommitAppends ==
  ASSUME TypeOK, NEW act, NEW consumed, NEW k, NEW o,
         Commit(act, consumed, << k >>, << o >>)
  PROVE  Appends(k, o)
  <1> DEFINE K == Contract \cup {k}
             O == Nat \cup {o}
  <1>0. /\ << k >> \in Seq(K) /\ Len(<< k >>) = 1 /\ << k >>[1] = k
        /\ << o >> \in Seq(O) /\ Len(<< o >>) = 1 /\ << o >>[1] = o
    OBVIOUS
  <1>1. /\ ledger \in Seq(K) /\ origin \in Seq(O)
        /\ Len(origin) = Len(ledger) /\ Len(ledger) \in Nat
        /\ ledger' = ledger \o << k >> /\ origin' = origin \o << o >>
    <2>1. ledger \in Seq(Contract) /\ Contract \subseteq K
      BY DEF TypeOK
    <2>2. origin \in Seq(Nat) /\ Nat \subseteq O
      BY DEF TypeOK
    <2>3. ledger \in Seq(K)
      BY <2>1
    <2>4. origin \in Seq(O)
      BY <2>2
    <2> QED
      BY <2>1, <2>2, <2>3, <2>4 DEF TypeOK, Commit
  <1> HIDE DEF K, O
  <1> DEFINE n == Len(ledger) + 1
  <1>2. n \in 1 .. Len(ledger) + 1 /\ ~(n <= Len(ledger)) /\ n - Len(ledger) = 1
    BY <1>1
  <1>3. /\ Len(ledger') = Len(ledger) + 1
        /\ ledger'[n] = IF n <= Len(ledger) THEN ledger[n]
                        ELSE << k >>[n - Len(ledger)]
    BY <1>0, <1>1, <1>2, ConcatProperties
  <1>4. origin'[n] = IF n <= Len(origin) THEN origin[n]
                     ELSE << o >>[n - Len(origin)]
    BY <1>0, <1>1, <1>2, ConcatProperties
  <1> QED
    BY <1>0, <1>1, <1>2, <1>3, <1>4 DEF Appends

\* What the transaction of each command appends.
LEMMA CommandAppends ==
  ASSUME TypeOK, NEW cmd, Transacts(cmd)
  PROVE  /\ cmd.choice = "CreateCredential" =>
              \E k : /\ Appends(k, Len(ledger) + 1)
                     /\ k.template = "Credential"
                     /\ InScope(k, cmd.scope) /\ k.claims = cmd.claims
         /\ cmd.choice = "RevokeCredential" =>
              \E k, o : Appends(k, o) /\ k.template = "Credential"
         /\ cmd.choice = "CreateFactory" =>
              \E k, o : Appends(k, o) /\ k.template = "CredentialFactory"
         /\ cmd.choice = "CredentialFactory_UpdateCredentials" =>
              /\ cmd.factory \notin active' \/ cmd.factory > Len(ledger)
              /\ cmd.update.credentialId \in Active("Credential")
              /\ Appends(Rewritten(cmd.update),
                         origin[cmd.update.credentialId])
         /\ cmd.choice = "CreateKycNft" =>
              \E k, o : /\ Appends(k, o)
                        /\ k.template = "KycNFT"
                        /\ k.boundCredentialId = cmd.boundCredentialId
         /\ cmd.choice \in {"Credential_PublicFetch", "BurnNft",
                            "Credential_ArchiveAsHolder"} =>
              Len(ledger') = Len(ledger)
  <1>1. CASE cmd.choice = "CreateCredential"
    <2>1. CreateCredential(cmd.actAs, cmd.scope, cmd.claims, cmd.expiresAt)
      BY <1>1 DEF Transacts
    <2>2. PICK k : /\ k = [template |-> "Credential", admin |-> cmd.scope.admin,
                      issuer |-> cmd.scope.issuer, holder |-> cmd.scope.holder,
                      claims |-> cmd.claims, expiresAt |-> cmd.expiresAt,
                      revokeReason |-> Absent, updateReason |-> Absent]
      OBVIOUS
    <2>3. Appends(k, Len(ledger) + 1)
      BY <2>1, <2>2, CommitAppends DEF CreateCredential
    <2> QED
      BY <1>1, <2>2, <2>3 DEF InScope
  <1>2. CASE cmd.choice = "RevokeCredential"
    <2>1. RevokeCredential(cmd.actAs, cmd.contractId, cmd.nftCid, cmd.reason)
      BY <1>2 DEF Transacts
    <2>2. PICK k : k = [ledger[cmd.contractId] EXCEPT !.revokeReason = cmd.reason]
      OBVIOUS
    <2>3. Appends(k, origin[cmd.contractId])
      BY <2>1, <2>2, CommitAppends DEF RevokeCredential
    <2>4. k.template = "Credential"
      BY <2>1, <2>2, ActiveCredential DEF RevokeCredential, Credential
    <2> QED
      BY <1>2, <2>3, <2>4
  <1>3. CASE cmd.choice = "CreateFactory"
    <2>1. CreateFactory(cmd.actAs, cmd.scope)
      BY <1>3 DEF Transacts
    <2>2. PICK k : k = [template |-> "CredentialFactory",
                        admin |-> cmd.scope.admin,
                        issuer |-> cmd.scope.issuer, holder |-> cmd.scope.holder]
      OBVIOUS
    <2>3. Appends(k, 0)
      BY <2>1, <2>2, CommitAppends DEF CreateFactory
    <2> QED
      BY <1>3, <2>2, <2>3
  <1>4. CASE cmd.choice = "CredentialFactory_UpdateCredentials"
    <2> DEFINE updates == << cmd.update >>
               u == cmd.update
    <2>1. FactoryUpdateCredentials(cmd.actAs, cmd.factory, updates)
      BY <1>4 DEF Transacts
    <2>2. Len(updates) = 1 /\ updates[1] = u
      OBVIOUS
    <2>3. u.credentialId \in Active("Credential")
      BY <2>1, <2>2 DEF FactoryUpdateCredentials, Accepts
    <2>4. PICK k : k = Rewritten(u)
      OBVIOUS
    <2>5. PICK o : o = origin[u.credentialId]
      OBVIOUS
    <2>6. /\ [i \in 1..Len(updates) |-> Rewritten(updates[i])] = << k >>
          /\ [i \in 1..Len(updates) |-> origin[updates[i].credentialId]] = << o >>
      BY <2>2, <2>4, <2>5
    <2>7. PICK consumed :
            /\ cmd.factory \in consumed
            /\ Commit(cmd.actAs, consumed, << k >>, << o >>)
      BY <2>1, <2>6 DEF FactoryUpdateCredentials
    <2>8. Appends(k, o)
      BY <2>7, CommitAppends
    <2>9. cmd.factory \notin active' \/ cmd.factory > Len(ledger)
      BY <2>7 DEF Commit, TypeOK
    <2> QED
      BY <1>4, <2>3, <2>4, <2>5, <2>8, <2>9
  <1>5. CASE cmd.choice = "CreateKycNft"
    <2>1. CreateKycNft(cmd.actAs, cmd.issuer, cmd.boundCredentialId)
      BY <1>5 DEF Transacts
    <2>2. PICK k : k = [template |-> "KycNFT", issuer |-> cmd.issuer,
                        boundCredentialId |-> cmd.boundCredentialId]
      OBVIOUS
    <2>3. Appends(k, 0)
      BY <2>1, <2>2, CommitAppends DEF CreateKycNft
    <2> QED
      BY <1>5, <2>2, <2>3
  <1>6. CASE cmd.choice \in {"Credential_PublicFetch", "BurnNft",
                             "Credential_ArchiveAsHolder"}
    BY <1>6 DEF Transacts, BurnNft, ArchiveAsHolder, Commit, TypeOK, vars
  <1> QED
    BY <1>1, <1>2, <1>3, <1>4, <1>5, <1>6

-----------------------------------------------------------------------------
(* Commands and their inputs.                                              *)

LEMMA SendsWhat ==
  ASSUME NEW k, NEW cmd, k.input \in Inputs, k.input.op \notin Finders,
         Sends(k, cmd)
  PROVE  /\ cmd.choice = "CreateCredential" =>
              /\ k.input.op = "createCredential"
              /\ cmd.scope = k.input.scope /\ cmd.claims = k.input.claims
         /\ cmd.choice = "Credential_PublicFetch" =>
              /\ k.input.op = "verifyCredential"
              /\ cmd.contractId = k.input.contractId
              /\ cmd.expectedAdmin = k.input.expectedAdmin
         /\ cmd.choice = "CredentialFactory_UpdateCredentials" =>
              /\ k.input.op = "updateCredentials"
              /\ cmd.factory = k.factory
              /\ cmd.update.credentialId = k.input.contractId
              /\ cmd.update.newClaims = k.input.newClaims
              /\ cmd.update = [credentialId |-> cmd.update.credentialId,
                               newClaims |-> cmd.update.newClaims,
                               newExpiresAt |-> cmd.update.newExpiresAt]
         /\ cmd.choice = "CreateFactory" => k.input.op = "updateCredentials"
         /\ cmd.choice = "CreateKycNft" =>
              /\ k.input.op = "createKycNft"
              /\ cmd.boundCredentialId = k.input.boundCredentialId
              /\ cmd.actAs = {k.input.issuer}
              /\ cmd.seed = IF k.input.deterministic
                            THEN k.input.boundCredentialId ELSE NoContract
         /\ k.input.op = "createCredential" => cmd.choice = "CreateCredential"
         /\ k.input.op = "verifyCredential" =>
              cmd.choice = "Credential_PublicFetch"
         /\ k.input.op = "createKycNft" => cmd.choice = "CreateKycNft"
         /\ k.input.op = "updateCredentials" =>
              cmd.choice \in {"CreateFactory",
                              "CredentialFactory_UpdateCredentials"}
         /\ cmd.choice \in {"CreateCredential", "Credential_PublicFetch",
                            "RevokeCredential", "CreateFactory",
                            "CredentialFactory_UpdateCredentials",
                            "Credential_ArchiveAsHolder", "CreateKycNft",
                            "BurnNft"}
  <1> DEFINE in == k.input
  <1>1. CASE cmd = firstCommand(in) /\ in.op = "createCredential"
    <2>1. cmd = buildCreateCredentialCommand(in)
      BY <1>1 DEF firstCommand
    <2> QED
      BY <1>1, <2>1 DEF buildCreateCredentialCommand
  <1>2. CASE cmd = firstCommand(in) /\ in.op = "verifyCredential"
    <2>1. cmd = buildVerifyCredentialCommand(in)
      BY <1>2 DEF firstCommand
    <2> QED
      BY <1>2, <2>1 DEF buildVerifyCredentialCommand
  <1>3. CASE cmd = firstCommand(in) /\ in.op = "revokeCredential"
    <2>1. cmd = buildRevokeCredentialCommand(in)
      BY <1>3 DEF firstCommand
    <2> QED
      BY <1>3, <2>1 DEF buildRevokeCredentialCommand
  <1>4. CASE cmd = firstCommand(in) /\ in.op = "updateCredentials"
    <2>1. cmd = buildUpdateCredentialsCommand(in)
      BY <1>4 DEF firstCommand
    <2> QED
      BY <1>4, <2>1 DEF buildUpdateCredentialsCommand
  <1>5. CASE cmd = firstCommand(in) /\ in.op = "archiveAsHolder"
    <2>1. cmd = buildArchiveAsHolderCommand(in)
      BY <1>5 DEF firstCommand
    <2> QED
      BY <1>5, <2>1 DEF buildArchiveAsHolderCommand
  <1>6. CASE cmd = firstCommand(in) /\ in.op = "createKycNft"
    <2>1. cmd = buildCreateKycNftCommand(in)
      BY <1>6 DEF firstCommand
    <2> QED
      BY <1>6, <2>1 DEF buildCreateKycNftCommand
  <1>7. CASE cmd = firstCommand(in) /\ in.op = "burnNft"
    <2>1. cmd = buildBurnNftCommand(in)
      BY <1>7 DEF firstCommand
    <2> QED
      BY <1>7, <2>1 DEF buildBurnNftCommand
  <1>8. CASE /\ in.op = "updateCredentials"
             /\ cmd = buildCredentialFactoryUpdateExerciseCommand(in, k.factory)
    BY <1>8 DEF buildCredentialFactoryUpdateExerciseCommand
  <1> QED
    BY <1>1, <1>2, <1>3, <1>4, <1>5, <1>6, <1>7, <1>8, InputFields
       DEF Sends, Finders

\* The active credential of a lineage shows that the lineage was revoked.
LEMMA ActiveShows ==
  ASSUME IInv, NEW k, Known(k), NEW d \in Active("Credential")
  PROVE  Shows(k, d)
  <1> SUFFICES ASSUME origin[d] \in k.past
               PROVE  Revoked(d)
    BY DEF Shows
  <1>1. d \in Created("Credential") /\ origin[d] \in Created("Credential")
    BY DEF Active, IInv, OriginIsEarlier
  <1>2. PICK e \in Created("Credential") : origin[e] = origin[d] /\ Revoked(e)
    BY <1>1 DEF Known
  <1>3. e \in Lineage(d) /\ d \in Lineage(e)
    BY <1>1, <1>2 DEF Lineage
  <1>4. e <= d
    BY <1>3 DEF IInv, ActiveIsLatest
  <1>5. e \in Nat /\ d \in Nat
    BY <1>1 DEF Created, IInv, TypeOK
  <1> QED
    BY <1>2, <1>3, <1>4, <1>5 DEF IInv, RevocationIsPermanent

-----------------------------------------------------------------------------
(* Steps that leave the ledger alone.                                      *)

\* One call goes on to record k and submission s.
LEMMA LocalStep ==
  ASSUME ClientInv, ResultInv, NEW c \in Call, NEW k, NEW s, UNCHANGED vars,
         task' = [task EXCEPT ![c] = k], sub' = [sub EXCEPT ![c] = s],
         resolved' \in [Participant -> SUBSET Created("Credential")],
         Stage(k, s), Known(k),
         s.state = "committed" => Effect(k, s.cmd, s.created),
         s.created \in {NoContract, sub[c].created},
         IsMint(s) <=> IsMint(sub[c]),
         IsMint(s) => s.cmd = sub[c].cmd,
         s.state = "duplicate" =>
           \E d \in Call : IsMint(sub[d]) /\ SameMint(s, sub[d]),
         \A f : Needs(task[c], sub[c], f) => Needs(k, s, f)
  PROVE  ResultInv'
  <1>1. /\ \A d \in Call : task'[d] = IF d = c THEN k ELSE task[d]
        /\ \A d \in Call : sub'[d] = IF d = c THEN s ELSE sub[d]
    BY DEF ClientInv
  <1>2. UNCHANGED <<ledger, active, origin>>
    BY DEF vars
  <1>3. ASSUME NEW d \in Call
        PROVE  /\ Stage(task[d], sub[d])'
               /\ sub'[d].state = "committed" =>
                    Effect(task[d], sub[d].cmd, sub[d].created)'
               /\ Known(task[d])'
    <2>1. PICK m : m = task'[d]
      OBVIOUS
    <2>2. PICK u : u = sub'[d]
      OBVIOUS
    <2>3. /\ Stage(m, u) /\ Known(m)
          /\ u.state = "committed" => Effect(m, u.cmd, u.created)
      BY <1>1, <2>1, <2>2 DEF ResultInv
    <2>4. Inputs' = Inputs /\ \A t : Created(t)' = Created(t)
      BY <1>2 DEF Inputs, Created
    <2>5. Stage(m, u)'
      BY <2>3, <2>4 DEF Stage, Sends
    <2>6. Known(m)'
      BY <1>2, <2>3, <2>4 DEF Known, Shows, Revoked
    <2>7. u.state = "committed" => Effect(m, u.cmd, u.created)'
      BY <1>2, <2>3, <2>4 DEF Effect, Shows, Revoked, Lineage, InScope
    <2>8. Stage(task[d], sub[d])'
      BY <2>1, <2>2, <2>5 DEF Stage, Sends
    <2>9. Known(task[d])'
      BY <2>1, <2>6 DEF Known, Shows
    <2>10. sub'[d].state = "committed" =>
             Effect(task[d], sub[d].cmd, sub[d].created)'
      BY <2>1, <2>2, <2>7 DEF Effect, Shows
    <2> QED
      BY <2>8, <2>9, <2>10
  <1>4. (resolved \in [Participant -> SUBSET Created("Credential")])'
    BY <1>2 DEF Created
  <1>5. Apart'
    BY <1>1, <1>2 DEF ResultInv, Apart, NoContract
  <1>6. Once'
    <2>1. \A d \in Call : /\ IsMint(sub'[d]) <=> IsMint(sub[d])
                          /\ IsMint(sub'[d]) => sub'[d].cmd = sub[d].cmd
      BY <1>1
    <2>2. Once
      BY DEF ResultInv
    <2>3. \A d, e \in Call :
            IsMint(sub'[d]) /\ IsMint(sub'[e]) /\ SameMint(sub'[d], sub'[e])
              => d = e
      BY <2>1, <2>2 DEF Once, SameMint
    <2>4. ASSUME NEW d \in Call, sub'[d].state = "duplicate"
          PROVE  \E e \in Call : IsMint(sub'[e]) /\ SameMint(sub'[d], sub'[e])
      <3>1. PICK e \in Call : IsMint(sub[e]) /\ SameMint(sub'[d], sub[e])
        BY <1>1, <2>2, <2>4 DEF Once
      <3>2. IsMint(sub'[e]) /\ sub'[e].cmd = sub[e].cmd
        BY <2>1, <3>1
      <3> QED
        BY <3>1, <3>2 DEF SameMint
    <2> QED
      BY <2>3, <2>4 DEF Once, IsMint, SameMint
  <1>7. Needed'
    <2>1. \A f : \A d \in Call :
            Needs(task[d], sub[d], f) => Needs(task'[d], sub'[d], f)
      BY <1>1
    <2> SUFFICES ASSUME NEW f \in Active("CredentialFactory")'
                 PROVE  \E d \in Call : Needs(task'[d], sub'[d], f)
      BY DEF Needed, Needs
    <2>2. f \in Active("CredentialFactory")
      BY <1>2 DEF Active, Created
    <2>3. PICK d \in Call : Needs(task[d], sub[d], f)
      BY <2>2 DEF ResultInv, Needed
    <2> QED
      BY <2>1, <2>3
  <1> QED
    BY <1>3, <1>4, <1>5, <1>6, <1>7 DEF ResultInv

\* ... with the submission it had.
LEMMA TaskStepKeeps ==
  ASSUME ClientInv, ResultInv, NEW c \in Call, NEW k, UNCHANGED <<vars, sub>>,
         task' = [task EXCEPT ![c] = k], resolved' = resolved,
         Stage(k, sub[c]), Known(k),
         k.input = task[c].input, k.factory = task[c].factory,
         k.past = task[c].past
  PROVE  ResultInv'
  <1>1. PICK s : s = sub[c]
    OBVIOUS
  <1>2. sub' = [sub EXCEPT ![c] = s]
    BY <1>1 DEF ClientInv
  <1>3. s.state = "committed" => Effect(k, s.cmd, s.created)
    BY <1>1 DEF ResultInv, Effect, Shows
  <1>4. s.state = "duplicate" =>
          \E d \in Call : IsMint(sub[d]) /\ SameMint(s, sub[d])
    BY <1>1 DEF ResultInv, Once
  <1>5. \A f : Needs(task[c], sub[c], f) => Needs(k, s, f)
    BY <1>1 DEF Needs
  <1>6. /\ UNCHANGED vars
        /\ resolved' \in [Participant -> SUBSET Created("Credential")]
    BY DEF ResultInv
  <1> QED
    BY <1>1, <1>2, <1>3, <1>4, <1>5, <1>6, LocalStep

\* The call sends a command.
LEMMA SubmitStepKeeps ==
  ASSUME ClientInv, ResultInv, NEW c \in Call, NEW k, NEW cmd, UNCHANGED vars,
         task' = [task EXCEPT ![c] = k], Submit(c, cmd),
         resolved' \in [Participant -> SUBSET Created("Credential")],
         Known(k), k.step = "submitted",
         k.input \in Inputs, k.input.op \notin Finders, Sends(k, cmd),
         k.error # "command_already_submitted",
         ~IsMint(sub[c]),
         \A f : Needs(task[c], sub[c], f) =>
                  /\ k.input.op = "updateCredentials" /\ k.factory = f
                  /\ cmd.choice = "CredentialFactory_UpdateCredentials"
  PROVE  ResultInv'
  <1>1. PICK s : s = [cmd |-> cmd, state |-> "sent", created |-> NoContract]
    OBVIOUS
  <1>2. sub' = [sub EXCEPT ![c] = s]
    BY <1>1 DEF Submit
  <1>3. s.state = "sent" /\ s.cmd = cmd /\ s.created = NoContract
    BY <1>1
  <1>4. k.input.op # "none"
    BY InputFields DEF Finders
  <1>5. Stage(k, s)
    BY <1>3, <1>4 DEF Stage
  <1>6. ~IsMint(s)
    BY <1>3 DEF IsMint
  <1>7. \A f : Needs(task[c], sub[c], f) => Needs(k, s, f)
    BY <1>3 DEF Needs
  <1> QED
    BY <1>2, <1>3, <1>5, <1>6, <1>7, LocalStep

LEMMA TaskIs ==
  ASSUME ClientInv, ResultInv, NEW c \in Call
  PROVE  /\ task[c] \in Task /\ sub[c] \in Submitted
         /\ Stage(task[c], sub[c]) /\ Known(task[c])
         /\ task[c].input.op # "none" => task[c].input \in Inputs
         /\ Len(ledger) \in Nat
  <1>1. task[c] \in Task /\ sub[c] \in Submitted
    BY DEF ClientInv
  <1>2. task[c].input.op # "none" => task[c].input \in Inputs
    BY <1>1 DEF Task, TaskOf, NoInput
  <1> QED
    BY <1>1, <1>2 DEF ResultInv, ClientInv, TypeOK

LEMMA FailKeeps ==
  ASSUME ClientInv, ResultInv, NEW c \in Call, NEW code, Fail(c, code),
         UNCHANGED <<vars, sub, resolved>>, task[c].step # "idle",
         code = "command_already_submitted" => sub[c].state = "duplicate"
  PROVE  ResultInv'
  <1>1. PICK k : k = [task[c] EXCEPT !.step = "failed", !.error = code]
    OBVIOUS
  <1>2. /\ task[c] \in Task /\ Stage(task[c], sub[c]) /\ Known(task[c])
    BY TaskIs
  <1>3. /\ k.step = "failed" /\ k.error = code
        /\ k.input = task[c].input /\ k.factory = task[c].factory
        /\ k.past = task[c].past /\ k.snapshot = task[c].snapshot
        /\ k.result = task[c].result
    BY <1>1, <1>2 DEF Task, TaskOf
  <1>4. task' = [task EXCEPT ![c] = k]
    BY <1>1 DEF Fail, ClientInv
  <1>5. Stage(k, sub[c])
    BY <1>2, <1>3 DEF Stage, Sends
  <1>6. Known(k)
    BY <1>2, <1>3 DEF Known, Shows
  <1> QED
    BY <1>3, <1>4, <1>5, <1>6, TaskStepKeeps

LEMMA ReturnKeeps ==
  ASSUME ClientInv, ResultInv, NEW c \in Call, NEW id, Return(c, id),
         UNCHANGED <<vars, sub, resolved>>, task[c].step # "idle",
         task[c].error # "command_already_submitted",
         id \in 0 .. Len(ledger),
         task[c].input.op \notin Finders => sub[c].state = "committed",
         task[c].input.op = "updateCredentials" =>
           sub[c].cmd.choice = "CredentialFactory_UpdateCredentials",
         task[c].input.op \in Makers => id = sub[c].created,
         task[c].input.op = "verifyCredential" =>
           id = task[c].input.contractId,
         task[c].input.op \in Finders /\ id # NoContract =>
           /\ id \in task[c].snapshot
           /\ task[c].input.op = "findActiveKycNftByCredentialId" =>
                ledger[id].boundCredentialId = task[c].input.contractId
  PROVE  ResultInv'
  <1>1. PICK k : k = [task[c] EXCEPT !.step = "returned", !.result = id]
    OBVIOUS
  <1>2. /\ task[c] \in Task /\ Stage(task[c], sub[c]) /\ Known(task[c])
    BY TaskIs
  <1>3. /\ k.step = "returned" /\ k.error = task[c].error
        /\ k.input = task[c].input /\ k.factory = task[c].factory
        /\ k.past = task[c].past /\ k.snapshot = task[c].snapshot
        /\ k.result = id
    BY <1>1, <1>2 DEF Task, TaskOf
  <1>4. task' = [task EXCEPT ![c] = k]
    BY <1>1 DEF Return, ClientInv
  <1>5. Stage(k, sub[c])
    BY <1>2, <1>3 DEF Stage, Sends
  <1>6. Known(k)
    BY <1>2, <1>3 DEF Known, Shows
  <1> QED
    BY <1>3, <1>4, <1>5, <1>6, TaskStepKeeps

\* The history a call starts with: its credentials are those whose lineage
\* was revoked, its NFTs those that were burnt.
LEMMA PastIsKnown ==
  ASSUME IInv
  PROVE  /\ Past \subseteq 1 .. Len(ledger)
         /\ \A n \in Past \cap Created("KycNFT") : n \notin active
         /\ \A o \in Past \cap Created("Credential") :
              \E d \in Created("Credential") : origin[d] = o /\ Revoked(d)
  <1>1. \A t : Created(t) \subseteq 1 .. Len(ledger)
    BY DEF Created
  <1>2. \A d \in Created("Credential") : origin[d] \in Created("Credential")
    BY DEF IInv, OriginIsEarlier
  <1>3. Created("Credential") \cap Created("KycNFT") = {}
    BY DEF Created
  <1> QED
    BY <1>1, <1>2, <1>3 DEF Past

LEMMA StartKeeps ==
  ASSUME ClientInv, IInv, ResultInv, NEW c \in Call, NEW in \in Inputs,
         Start(c, in)
  PROVE  ResultInv'
  <1>1. PICK k : k = [task[c] EXCEPT
                        !.step = IF Lists(in) THEN "ledgerEnd" ELSE "submitted",
                        !.input = in,
                        !.past = IF Reads(in) THEN Past ELSE {}]
    OBVIOUS
  <1>2. /\ task[c] \in Task /\ Stage(task[c], sub[c]) /\ Known(task[c])
        /\ task[c].step = "idle" /\ sub[c].state = "none"
        /\ task[c].input.op = "none" /\ task[c].snapshot = {}
        /\ task[c].error # "command_already_submitted"
        /\ UNCHANGED <<vars, resolved>>
    BY TaskIs DEF Start, Stage, Known
  <1>3. /\ k.step = IF Lists(in) THEN "ledgerEnd" ELSE "submitted"
        /\ k.input = in /\ k.past = IF Reads(in) THEN Past ELSE {}
        /\ k.snapshot = {} /\ k.error = task[c].error
        /\ k.result = task[c].result /\ k.factory = task[c].factory
    BY <1>1, <1>2 DEF Task, TaskOf
  <1>4. task' = [task EXCEPT ![c] = k]
    BY <1>1 DEF Start, ClientInv
  <1>5. in.op # "none"
    BY InputFields DEF Finders
  <1>6. Known(k)
    BY <1>2, <1>3, <1>5, PastIsKnown DEF Known
  <1>7. ~IsMint(sub[c]) /\ \A f : ~Needs(task[c], sub[c], f)
    BY <1>2 DEF IsMint, Needs
  <1>8. resolved' \in [Participant -> SUBSET Created("Credential")]
    BY <1>2 DEF ResultInv
  <1>9. CASE Lists(in)
    <2>1. PICK s : s = sub[c]
      OBVIOUS
    <2>2. sub' = [sub EXCEPT ![c] = s]
      BY <1>9, <2>1 DEF Start, ClientInv
    <2>3. Stage(k, s)
      BY <1>2, <1>3, <1>5, <1>9, <2>1 DEF Stage
    <2> QED
      BY <1>2, <1>4, <1>6, <1>7, <1>8, <2>1, <2>2, <2>3, LocalStep
  <1>10. CASE ~Lists(in)
    <2>1. Submit(c, firstCommand(in)) /\ in.op \notin Finders
      BY <1>10 DEF Start, Lists
    <2>2. Sends(k, firstCommand(in))
      BY <1>3 DEF Sends
    <2> QED
      BY <1>2, <1>3, <1>4, <1>6, <1>7, <1>8, <1>10, <2>1, <2>2, SubmitStepKeeps
  <1> QED
    BY <1>9, <1>10

LEMMA LedgerEndKeeps ==
  ASSUME ClientInv, IInv, ResultInv, NEW c \in Call, LedgerEnd(c)
  PROVE  ResultInv'
  <1>1. PICK k : k = [task[c] EXCEPT !.step = "acs",
                        !.snapshot = AcsAt(task[c].input.at,
                                           Wanted(task[c].input))]
    OBVIOUS
  <1>2. /\ task[c] \in Task /\ Stage(task[c], sub[c]) /\ Known(task[c])
        /\ task[c].step = "ledgerEnd"
        /\ UNCHANGED <<vars, sub, resolved>>
    BY TaskIs DEF LedgerEnd
  <1>3. /\ k.step = "acs" /\ k.snapshot \subseteq Active(Wanted(k.input))
        /\ k.input = task[c].input /\ k.past = task[c].past
        /\ k.error = task[c].error
        /\ k.result = task[c].result /\ k.factory = task[c].factory
    BY <1>1, <1>2 DEF Task, TaskOf, AcsAt
  <1>4. task' = [task EXCEPT ![c] = k]
    BY <1>1 DEF LedgerEnd, ClientInv
  <1>5. Stage(k, sub[c])
    BY <1>2, <1>3 DEF Stage
  <1>6. Wanted(k.input) \in {"KycNFT", "Credential"}
    BY DEF Wanted
  <1>7. ASSUME NEW d \in k.snapshot
        PROVE  IF Wanted(k.input) = "KycNFT" THEN d \notin k.past ELSE Shows(k, d)
    <2>1. CASE Wanted(k.input) = "KycNFT"
      BY <1>2, <1>3, <2>1 DEF Known, Active
    <2>2. CASE Wanted(k.input) = "Credential"
      BY <1>2, <1>3, <2>2, ActiveShows DEF Shows
    <2> QED
      BY <1>6, <2>1, <2>2
  <1>8. k.snapshot \subseteq Created(Wanted(k.input)) /\ k.input.op # "none"
    BY <1>2, <1>3 DEF Active, Stage
  <1>9. Known(k)
    BY <1>2, <1>3, <1>7, <1>8 DEF Known
  <1> QED
    BY <1>2, <1>3, <1>4, <1>5, <1>9, TaskStepKeeps

LEMMA FindersKeep ==
  ASSUME ClientInv, ResultInv, NEW c \in Call,
         \/ findActiveCredentialByHolder(c)
         \/ findActiveCredentialByContractId(c)
         \/ findActiveKycNftByCredentialId(c)
  PROVE  ResultInv'
  <1>1. /\ Stage(task[c], sub[c]) /\ Known(task[c]) /\ task[c].step = "acs"
        /\ task[c].input.op \in Finders
        /\ UNCHANGED <<vars, sub, resolved>>
    BY TaskIs DEF findActiveCredentialByHolder, FindsFirst, Finders,
         findActiveCredentialByContractId, findActiveKycNftByCredentialId
  <1>2. \/ Return(c, NoContract)
        \/ \E d \in Matches(c) : Return(c, d)
        \/ Fail(c, "ledger_error")
    BY DEF findActiveCredentialByHolder, FindsFirst,
         findActiveCredentialByContractId, findActiveKycNftByCredentialId
  <1>3. /\ task[c].error # "command_already_submitted"
        /\ task[c].input.op \notin Makers \cup {"verifyCredential"}
        /\ task[c].input.op # "updateCredentials"
    BY <1>1 DEF Stage, Finders, Makers
  <1>4. ASSUME NEW d \in Matches(c)
        PROVE  /\ d \in task[c].snapshot /\ d \in 0 .. Len(ledger)
               /\ task[c].input.op = "findActiveKycNftByCredentialId" =>
                    ledger[d].boundCredentialId = task[c].input.contractId
    <2>1. d \in task[c].snapshot
      BY DEF Matches
    <2>2. d \in 0 .. Len(ledger)
      BY <1>1, <2>1 DEF Known, Created
    <2>3. task[c].input.op = "findActiveKycNftByCredentialId" =>
            ledger[d].boundCredentialId = task[c].input.contractId
      BY DEF Matches
    <2> QED
      BY <2>1, <2>2, <2>3
  <1>5. NoContract \in 0 .. Len(ledger)
    BY TaskIs DEF NoContract
  <1>6. CASE Return(c, NoContract)
    BY <1>1, <1>3, <1>5, <1>6, ReturnKeeps
  <1>7. ASSUME NEW d \in Matches(c), Return(c, d)
        PROVE  ResultInv'
    BY <1>1, <1>3, <1>4, <1>7, ReturnKeeps
  <1>8. CASE Fail(c, "ledger_error")
    BY <1>1, <1>8, FailKeeps
  <1> QED
    BY <1>2, <1>6, <1>7, <1>8

LEMMA ResolveKeeps ==
  ASSUME ClientInv, ResultInv, NEW c \in Call, resolveDisclosedTemplateId(c)
  PROVE  ResultInv'
  <1> DEFINE in == task[c].input
  <1>1. /\ task[c] \in Task /\ Stage(task[c], sub[c]) /\ Known(task[c])
        /\ task[c].step = "acs" /\ in.op = "verifyCredential"
        /\ in \in Inputs /\ in.op \notin Finders /\ sub[c].state = "none"
        /\ UNCHANGED vars
    BY TaskIs DEF resolveDisclosedTemplateId, Finders, Stage
  <1>2. CASE in.contractId \in task[c].snapshot
    <2>1. PICK k : k = [task[c] EXCEPT !.step = "submitted"]
      OBVIOUS
    <2>2. /\ k.step = "submitted" /\ k.input = in
          /\ k.past = task[c].past /\ k.snapshot = task[c].snapshot
          /\ k.error = task[c].error
          /\ k.result = task[c].result /\ k.factory = task[c].factory
      BY <1>1, <2>1 DEF Task, TaskOf
    <2>3. task' = [task EXCEPT ![c] = k] /\ Submit(c, firstCommand(in))
      BY <1>2, <2>1 DEF resolveDisclosedTemplateId, ClientInv
    <2>4. Known(k)
      BY <1>1, <2>2 DEF Known, Shows
    <2>5. in.contractId \in Created("Credential")
      BY <1>1, <1>2 DEF Known, Wanted
    <2>6. resolved' \in [Participant -> SUBSET Created("Credential")]
      BY <1>2, <2>5 DEF resolveDisclosedTemplateId, ResultInv
    <2>7. Sends(k, firstCommand(in)) /\ k.error # "command_already_submitted"
      BY <1>1, <2>2 DEF Sends, Stage
    <2>8. ~IsMint(sub[c]) /\ \A f : ~Needs(task[c], sub[c], f)
      BY <1>1 DEF IsMint, Needs
    <2> QED
      BY <1>1, <2>2, <2>3, <2>4, <2>6, <2>7, <2>8, SubmitStepKeeps
  <1>3. CASE in.contractId \notin task[c].snapshot
    <2>1. Fail(c, "package_id_unresolved") /\ UNCHANGED <<sub, resolved>>
      BY <1>3 DEF resolveDisclosedTemplateId
    <2> QED
      BY <1>1, <2>1, FailKeeps
  <1> QED
    BY <1>2, <1>3

LEMMA RejectedKeeps ==
  ASSUME ClientInv, ResultInv, NEW c \in Call, CommandRejected(c)
  PROVE  ResultInv'
  <1>1. PICK k : k = task[c]
    OBVIOUS
  <1>2. PICK s : s = [sub[c] EXCEPT !.state = IF Duplicate(c) THEN "duplicate"
                                              ELSE "rejected"]
    OBVIOUS
  <1>3. /\ Stage(k, sub[c]) /\ Known(k) /\ sub[c] \in Submitted
        /\ sub[c].state = "sent"
        /\ UNCHANGED <<vars, task, resolved>>
    BY <1>1, TaskIs DEF CommandRejected
  <1>4. /\ s.state = IF Duplicate(c) THEN "duplicate" ELSE "rejected"
        /\ s.cmd = sub[c].cmd /\ s.created = sub[c].created
    BY <1>2, <1>3 DEF Submitted, SubmittedOf
  <1>5. task' = [task EXCEPT ![c] = k] /\ sub' = [sub EXCEPT ![c] = s]
    BY <1>1, <1>2, <1>3 DEF CommandRejected, ClientInv
  <1>6. Stage(k, s)
    BY <1>3, <1>4 DEF Stage, Sends
  <1>7. ~IsMint(s) /\ ~IsMint(sub[c])
    BY <1>3, <1>4 DEF IsMint
  <1>8. s.state = "duplicate" =>
          \E d \in Call : IsMint(sub[d]) /\ SameMint(s, sub[d])
    BY <1>4 DEF Duplicate, IsMint, SameMint
  <1>9. \A f : Needs(task[c], sub[c], f) => Needs(k, s, f)
    BY <1>1, <1>3, <1>4 DEF Needs
  <1>10. /\ UNCHANGED vars
         /\ resolved' \in [Participant -> SUBSET Created("Credential")]
    BY <1>3 DEF ResultInv
  <1> QED
    BY <1>3, <1>4, <1>5, <1>6, <1>7, <1>8, <1>9, <1>10, LocalStep

LEMMA InputContracts ==
  ASSUME NEW in \in Inputs
  PROVE  /\ in.op = "burnNft" => in.nftContractId \in Created("KycNFT")
         /\ in.op \in {"verifyCredential", "revokeCredential",
                       "archiveAsHolder", "updateCredentials"} =>
              in.contractId \in Created("Credential")
         /\ in.op = "createKycNft" =>
              /\ in.boundCredentialId \in Created("Credential")
              /\ in.deterministic \in BOOLEAN
  BY DEF Inputs

LEMMA FinishKeeps ==
  ASSUME ClientInv, ResultInv, NEW c \in Call, NEW op, NEW id,
         Finish(c, op, id), op \notin Finders, id \in 0 .. Len(ledger),
         op = "updateCredentials" =>
           sub[c].cmd.choice = "CredentialFactory_UpdateCredentials",
         op \in Makers => id = sub[c].created,
         op = "verifyCredential" => id = task[c].input.contractId
  PROVE  ResultInv'
  <1>1. /\ Stage(task[c], sub[c]) /\ task[c].step = "submitted"
        /\ task[c].input.op = op /\ sub[c].state = "committed"
        /\ Return(c, id) /\ UNCHANGED <<vars, sub, resolved>>
    BY TaskIs DEF Finish
  <1>2. task[c].error # "command_already_submitted"
    BY <1>1 DEF Stage
  <1> QED
    BY <1>1, <1>2, ReturnKeeps

\* The factory is there: its choice is what the call sends next.
LEMMA SecondLegKeeps ==
  ASSUME ClientInv, ResultInv, NEW c \in Call, updateCredentials(c),
         sub[c].cmd.choice = "CreateFactory"
  PROVE  ResultInv'
  <1> DEFINE in == task[c].input
  <1>1. /\ task[c] \in Task /\ Stage(task[c], sub[c]) /\ Known(task[c])
        /\ task[c].step = "submitted" /\ in.op = "updateCredentials"
        /\ in \in Inputs /\ in.op \notin Finders /\ sub[c].state = "committed"
        /\ UNCHANGED <<vars, resolved>>
    BY TaskIs DEF updateCredentials, Finders, Stage
  <1>2. PICK id : id = sub[c].created
    OBVIOUS
  <1>3. id \in 0 .. Len(ledger)
    BY <1>2 DEF ResultInv, Apart
  <1>4. PICK k : k = [task[c] EXCEPT !.factory = id]
    OBVIOUS
  <1>5. /\ k.step = "submitted" /\ k.input = in
        /\ k.past = task[c].past /\ k.snapshot = task[c].snapshot
        /\ k.error = task[c].error /\ k.result = task[c].result
        /\ k.factory = id
    BY <1>1, <1>4 DEF Task, TaskOf
  <1>6. PICK cmd : cmd = buildCredentialFactoryUpdateExerciseCommand(in, id)
    OBVIOUS
  <1>7. task' = [task EXCEPT ![c] = k] /\ Submit(c, cmd)
    BY <1>2, <1>4, <1>6 DEF updateCredentials, ClientInv
  <1>8. Known(k)
    BY <1>1, <1>3, <1>5 DEF Known, Shows
  <1>9. Sends(k, cmd)
    BY <1>1, <1>5, <1>6 DEF Sends
  <1>10. cmd.choice = "CredentialFactory_UpdateCredentials"
    BY <1>6 DEF buildCredentialFactoryUpdateExerciseCommand
  <1>11. ~IsMint(sub[c]) /\ k.error # "command_already_submitted"
    BY <1>1, <1>5 DEF IsMint, Stage
  <1>12. \A f : Needs(task[c], sub[c], f) => k.factory = f
    BY <1>1, <1>2, <1>5 DEF Needs
  <1>13. resolved' \in [Participant -> SUBSET Created("Credential")]
    BY <1>1 DEF ResultInv
  <1> QED
    BY <1>1, <1>5, <1>7, <1>8, <1>9, <1>10, <1>11, <1>12, <1>13,
       SubmitStepKeeps

LEMMA ArrivalKeeps ==
  ASSUME ClientInv, ResultInv, NEW c \in Call, TransactionArrives(c)
  PROVE  ResultInv'
  <1> DEFINE in == task[c].input
  <1>1. sub[c].created \in 0 .. Len(ledger)
    BY DEF ResultInv, Apart
  <1>2. in.op \in {"verifyCredential", "revokeCredential", "archiveAsHolder"}
          => in.contractId \in 0 .. Len(ledger)
    BY TaskIs, InputContracts DEF Created
  <1>3. in.op = "burnNft" => in.nftContractId \in 0 .. Len(ledger)
    BY TaskIs, InputContracts DEF Created
  <1>4. CASE createCredential(c) \/ createKycNft(c)
    BY <1>1, <1>4, FinishKeeps
       DEF createCredential, createKycNft, Finders, Makers
  <1>5. CASE \/ verifyCredential(c) \/ revokeCredential(c)
             \/ archiveAsHolder(c) \/ burnNft(c)
    <2>1. PICK op \in {"verifyCredential", "revokeCredential",
                       "archiveAsHolder", "burnNft"},
                  id \in 0 .. Len(ledger) :
            /\ Finish(c, op, id)
            /\ op = "verifyCredential" => id = in.contractId
      BY <1>2, <1>3, <1>5 DEF verifyCredential, revokeCredential,
           archiveAsHolder, burnNft, Finish
    <2>2. op \notin Finders \cup Makers /\ op # "updateCredentials"
      BY DEF Finders, Makers
    <2> QED
      BY <2>1, <2>2, FinishKeeps
  <1>6. CASE updateCredentials(c)
    <2>1. CASE sub[c].cmd.choice = "CreateFactory"
      BY <1>6, <2>1, SecondLegKeeps
    <2>2. CASE sub[c].cmd.choice # "CreateFactory"
      BY <1>1, <1>6, <2>2, FinishKeeps DEF updateCredentials, Finders, Makers
    <2> QED
      BY <2>1, <2>2
  <1> QED
    BY <1>4, <1>5, <1>6 DEF TransactionArrives

LEMMA FailuresKeep ==
  ASSUME ClientInv, ResultInv, NEW c \in Call,
         RejectionArrives(c) \/ OutcomeLost(c)
  PROVE  ResultInv'
  <1>1. CASE OutcomeLost(c)
    BY <1>1, FailKeeps DEF OutcomeLost
  <1>2. CASE RejectionArrives(c)
    BY <1>2, FailKeeps DEF RejectionArrives
  <1> QED
    BY <1>1, <1>2

-----------------------------------------------------------------------------
(* A command commits.                                                      *)

\* What is appended is there afterwards.
LEMMA AppendedIsThere ==
  ASSUME Len(ledger) \in Nat, NEW k, NEW o, Appends(k, o),
         NEW n, n = Len(ledger) + 1
  PROVE  /\ ledger'[n] = k /\ origin'[n] = o
         /\ \A t : n \in Created(t)' <=> k.template = t
  BY DEF Appends, Created

LEMMA CommitHasEffect ==
  ASSUME IInv, Grows, Len(ledger) \in Nat, Len(ledger') \in Nat,
         NEW k, NEW cmd, k.input \in Inputs, k.input.op \notin Finders,
         Known(k), Sends(k, cmd), Transacts(cmd),
         NEW id, id = IF Len(ledger') > Len(ledger) THEN Len(ledger) + 1
                      ELSE NoContract
  PROVE  Effect(k, cmd, id)'
  <1> DEFINE in == k.input
  <1>0. TypeOK
    BY DEF IInv
  <1>1. CASE cmd.choice = "CreateCredential"
    <2>1. PICK kk : /\ Appends(kk, Len(ledger) + 1)
                    /\ kk.template = "Credential"
                    /\ InScope(kk, cmd.scope) /\ kk.claims = cmd.claims
      BY <1>0, <1>1, CommandAppends
    <2>2. id = Len(ledger) + 1
      BY <2>1 DEF Appends
    <2>3. cmd.scope = in.scope /\ cmd.claims = in.claims
      BY <1>1, SendsWhat
    <2>4. ledger'[id] = kk /\ origin'[id] = id /\ id \in Created("Credential")'
      BY <2>1, <2>2, AppendedIsThere
    <2> QED
      BY <1>1, <2>1, <2>3, <2>4 DEF Effect, InScope
  <1>2. CASE cmd.choice = "Credential_PublicFetch"
    <2>1. PublicFetchable(cmd.contractId, cmd.expectedAdmin) /\ UNCHANGED vars
      BY <1>2 DEF Transacts
    <2>2. cmd.contractId = in.contractId /\ cmd.expectedAdmin = in.expectedAdmin
      BY <1>2, SendsWhat
    <2>3. in.contractId \in Active("Credential")
          /\ ledger[in.contractId].admin = in.expectedAdmin
      BY <2>1, <2>2 DEF PublicFetchable
    <2>4. Effect(k, cmd, id)
      BY <1>2, <2>3, ActiveShows DEF Effect, Active
    <2> QED
      BY <2>4, EffectsStay
  <1>3. CASE cmd.choice = "CredentialFactory_UpdateCredentials"
    <2> DEFINE old == in.contractId
    <2>1. PICK u : u = cmd.update
      OBVIOUS
    <2>2. u.credentialId = old /\ u.newClaims = in.newClaims
      BY <1>3, <2>1, SendsWhat
    <2>3. old \in Active("Credential") /\ Appends(Rewritten(u), origin[old])
      BY <1>0, <1>3, <2>1, <2>2, CommandAppends
    <2>4. id = Len(ledger) + 1
      BY <2>3 DEF Appends
    <2>5. /\ old \in 1 .. Len(ledger) /\ ledger[old] \in Credential
          /\ old \in Created("Credential")
      BY <1>0, <2>3, ActiveCredential DEF Active
    <2>6. PICK kk : kk = Rewritten(u)
      OBVIOUS
    <2>7. /\ kk.template = "Credential" /\ kk.claims = in.newClaims
          /\ kk.revokeReason = ledger[old].revokeReason
      BY <2>2, <2>5, <2>6 DEF Rewritten, Credential
    <2>8. ledger'[id] = kk /\ origin'[id] = origin[old]
          /\ id \in Created("Credential")'
      BY <2>3, <2>4, <2>6, <2>7, AppendedIsThere
    <2>9. /\ ledger'[old] = ledger[old] /\ origin'[old] = origin[old]
          /\ old \in Created("Credential")' /\ id > old
      BY <2>4, <2>5, CreatedGrows DEF Grows
    <2> QED
      BY <1>3, <2>7, <2>8, <2>9 DEF Effect, Lineage, Revoked
  <1>4. CASE cmd.choice = "CreateKycNft"
    <2>1. PICK kk, o : /\ Appends(kk, o)
                       /\ kk.template = "KycNFT"
                       /\ kk.boundCredentialId = cmd.boundCredentialId
      BY <1>0, <1>4, CommandAppends
    <2>2. id = Len(ledger) + 1
      BY <2>1 DEF Appends
    <2>3. cmd.boundCredentialId = in.boundCredentialId
      BY <1>4, SendsWhat
    <2>4. ledger'[id] = kk /\ id \in Created("KycNFT")'
      BY <2>1, <2>2, AppendedIsThere
    <2> QED
      BY <1>4, <2>1, <2>3, <2>4 DEF Effect
  <1>5. CASE cmd.choice \notin {"CreateCredential", "Credential_PublicFetch",
                                "CredentialFactory_UpdateCredentials",
                                "CreateKycNft"}
    BY <1>5 DEF Effect
  <1> QED
    BY <1>1, <1>2, <1>3, <1>4, <1>5

LEMMA CommitKeeps ==
  ASSUME ClientInv, IInv, ResultInv, NEW c \in Call, CommandCommits(c)
  PROVE  ResultInv'
  <1>1. PICK k : k = task[c]
    OBVIOUS
  <1>2. PICK cmd : cmd = sub[c].cmd
    OBVIOUS
  <1>3. PICK id : id = IF Len(ledger') > Len(ledger) THEN Len(ledger) + 1
                       ELSE NoContract
    OBVIOUS
  <1>4. PICK s : s = [sub[c] EXCEPT !.state = "committed", !.created = id]
    OBVIOUS
  <1>5. /\ Stage(k, sub[c]) /\ Known(k) /\ sub[c] \in Submitted
        /\ sub[c].state = "sent" /\ Transacts(cmd) /\ ~Duplicate(c)
        /\ k.input \in Inputs /\ k.input.op \notin Finders /\ Sends(k, cmd)
        /\ UNCHANGED <<task, resolved>>
    BY <1>1, <1>2, TaskIs DEF CommandCommits, Stage
  <1>6. s.state = "committed" /\ s.cmd = cmd /\ s.created = id
    BY <1>2, <1>4, <1>5 DEF Submitted, SubmittedOf
  <1>7. /\ \A d \in Call : sub'[d] = IF d = c THEN s ELSE sub[d]
        /\ \A d \in Call : task'[d] = task[d]
    BY <1>3, <1>4, <1>5 DEF CommandCommits, ClientInv
  <1>8. Next \/ UNCHANGED vars
    BY TaskFields, CommandsAreWellFormed, CommandIsTransaction
       DEF CommandCommits, ClientInv
  <1>9. Grows /\ Len(ledger) \in Nat /\ Len(ledger') \in Nat /\ TypeOK
    BY <1>8, StepsGrow DEF ClientInv
  <1>10. /\ \A t : Created(t) \subseteq Created(t)'
         /\ \A t : \A i \in 1 .. Len(ledger) :
              i \in Created(t)' => i \in Created(t)
    BY <1>9, CreatedGrows
  <1>11. Inputs \subseteq Inputs'
    BY <1>10, InputsGrow
  <1>12. ASSUME NEW d \in Call
         PROVE  /\ Stage(task[d], sub[d])'
                /\ sub'[d].state = "committed" =>
                     Effect(task[d], sub[d].cmd, sub[d].created)'
                /\ Known(task[d])'
    <2>1. PICK m : m = task[d]
      OBVIOUS
    <2>2. PICK u : u = sub'[d]
      OBVIOUS
    <2>3. Stage(m, sub[d]) /\ Known(m)
      BY <2>1 DEF ResultInv
    <2>4. Stage(m, u)
      BY <1>1, <1>2, <1>5, <1>6, <1>7, <2>1, <2>2, <2>3 DEF Stage
    <2>5. Stage(m, u)'
      BY <1>11, <2>4 DEF Stage, Sends
    <2>6. Known(m)'
      BY <1>9, <2>3, KnowledgeStays
    <2>7. u.state = "committed" => Effect(m, u.cmd, u.created)'
      <3>1. CASE d = c
        <4>1. m = k /\ u = s
          BY <1>1, <1>7, <2>1, <2>2, <3>1
        <4>2. Effect(k, cmd, id)'
          BY <1>3, <1>5, <1>9, CommitHasEffect
        <4> QED
          BY <1>6, <4>1, <4>2
      <3>2. CASE d # c
        <4>1. u = sub[d]
          BY <1>7, <2>2, <3>2
        <4>2. u.state = "committed" => Effect(m, u.cmd, u.created)
          BY <2>1, <4>1 DEF ResultInv
        <4> QED
          BY <1>9, <4>2, EffectsStay
      <3> QED
        BY <3>1, <3>2
    <2>8. task'[d] = m
      BY <1>7, <2>1
    <2>9. Stage(task[d], sub[d])'
      BY <2>2, <2>5, <2>8 DEF Stage, Sends
    <2>10. Known(task[d])'
      BY <2>6, <2>8 DEF Known, Shows
    <2>11. sub'[d].state = "committed" =>
             Effect(task[d], sub[d].cmd, sub[d].created)'
      BY <2>2, <2>7, <2>8 DEF Effect, Shows
    <2> QED
      BY <2>9, <2>10, <2>11
  <1>13. (resolved \in [Participant -> SUBSET Created("Credential")])'
    BY <1>5, <1>10 DEF ResultInv
  <1>14. Apart'
    <2>1. id \in {NoContract, Len(ledger) + 1} /\ id \in 0 .. Len(ledger')
      BY <1>3, <1>9 DEF NoContract
    <2>2. Apart
      BY DEF ResultInv
    <2> QED
      BY <1>6, <1>7, <1>9, <2>1, <2>2 DEF Apart, Grows, NoContract
  <1>15. Once'
    <2>1. Once
      BY DEF ResultInv
    <2>2. ~IsMint(sub[c])
      BY <1>5 DEF IsMint
    <2>3. ASSUME NEW d \in Call, d # c, IsMint(sub[d]), IsMint(s)
          PROVE  ~SameMint(s, sub[d]) /\ ~SameMint(sub[d], s)
      BY <1>2, <1>5, <1>6, <2>3 DEF IsMint, SameMint, Duplicate
    <2>4. \A d, e \in Call :
            IsMint(sub'[d]) /\ IsMint(sub'[e]) /\ SameMint(sub'[d], sub'[e])
              => d = e
      BY <1>7, <2>1, <2>3 DEF Once
    <2>5. ASSUME NEW d \in Call, sub'[d].state = "duplicate"
          PROVE  \E e \in Call : IsMint(sub'[e]) /\ SameMint(sub'[d], sub'[e])
      <3>1. d # c
        BY <1>6, <1>7, <2>5
      <3>2. PICK e \in Call : IsMint(sub[e]) /\ SameMint(sub[d], sub[e])
        BY <1>7, <2>1, <2>5, <3>1 DEF Once
      <3> QED
        BY <1>7, <2>2, <3>1, <3>2
    <2> QED
      BY <2>4, <2>5 DEF Once, IsMint, SameMint
  <1>16. Needed'
    <2> SUFFICES ASSUME NEW f \in Active("CredentialFactory")'
                 PROVE  \E d \in Call : Needs(task'[d], sub'[d], f)
      BY DEF Needed, Needs
    <2>1. f \in active' /\ f \in Created("CredentialFactory")' /\ f \in Nat
      BY <1>9 DEF Active, Created
    \* A new factory is that of the call itself,
    <2>2. CASE f > Len(ledger)
      <3>1. f \in 1 .. Len(ledger')
        BY <2>1 DEF Created
      <3>2. PICK kk, o : Appends(kk, o) /\ f = Len(ledger) + 1
                         /\ (cmd.choice = "CreateFactory"
                             \/ kk.template # "CredentialFactory")
        <4>1. Len(ledger') # Len(ledger)
          BY <1>9, <2>2, <3>1
        <4>2. ASSUME NEW kk, NEW o, Appends(kk, o)
              PROVE  f = Len(ledger) + 1
          BY <1>9, <2>2, <3>1, <4>2 DEF Appends
        <4>3. CASE cmd.choice = "CredentialFactory_UpdateCredentials"
          <5>1. PICK u : u = cmd.update
            OBVIOUS
          <5>2. /\ u.credentialId \in Active("Credential")
                /\ Appends(Rewritten(u), origin[u.credentialId])
            BY <1>5, <1>9, <4>3, <5>1, CommandAppends
          <5>3. Rewritten(u).template # "CredentialFactory"
            BY <1>9, <5>2, ActiveCredential DEF Rewritten, Credential
          <5> QED
            BY <4>2, <5>2, <5>3
        <4>4. CASE cmd.choice # "CredentialFactory_UpdateCredentials"
          BY <1>5, <1>9, <4>1, <4>2, <4>4, CommandAppends, SendsWhat
        <4> QED
          BY <4>3, <4>4
      <3>3. cmd.choice = "CreateFactory"
        BY <1>9, <2>1, <3>2, AppendedIsThere
      <3>4. k.input.op = "updateCredentials"
        BY <1>5, <3>3, SendsWhat
      <3>5. id = f
        <4>1. Len(ledger') > Len(ledger)
          BY <1>9, <2>1, <2>2, <3>1
        <4> QED
          BY <1>3, <3>2, <4>1
      <3> QED
        BY <1>1, <1>6, <1>7, <3>3, <3>4, <3>5 DEF Needs
    \* and an older one that of another, unless the call has just used it up.
    <2>3. CASE f <= Len(ledger)
      <3>1. f \in Active("CredentialFactory")
        <4>1. f \in 1 .. Len(ledger)
          BY <1>9, <2>1, <2>3 DEF Created
        <4> QED
          BY <1>9, <1>10, <2>1, <4>1 DEF Active, Grows
      <3>2. PICK d \in Call : Needs(task[d], sub[d], f)
        BY <3>1 DEF ResultInv, Needed
      <3>3. d # c
        <4> SUFFICES ASSUME d = c PROVE FALSE
          OBVIOUS
        <4>1. /\ cmd.choice = "CredentialFactory_UpdateCredentials"
              /\ k.factory = f
          BY <1>1, <1>2, <1>5, <3>2 DEF Needs
        <4>2. cmd.factory = f
          BY <1>5, <4>1, SendsWhat
        <4> QED
          BY <1>5, <1>9, <2>1, <2>3, <4>1, <4>2, CommandAppends
      <3> QED
        BY <1>7, <3>2, <3>3
    <2> QED
      BY <1>9, <2>1, <2>2, <2>3
  <1> QED
    BY <1>12, <1>13, <1>14, <1>15, <1>16 DEF ResultInv

-----------------------------------------------------------------------------
(* The invariant holds of every behaviour.                                 *)

LEMMA ResultInit == ClientInit => ResultInv
  <1> SUFFICES ASSUME ClientInit PROVE ResultInv
    OBVIOUS
  <1>1. Len(ledger) = 0 /\ active = {}
    BY DEF ClientInit, Init
  <1>2. \A c \in Call : task[c] = Idle /\ sub[c] = NoSubmission
    BY DEF ClientInit
  <1>3. /\ Idle.step = "idle" /\ Idle.input.op = "none" /\ Idle.snapshot = {}
        /\ Idle.factory = 0 /\ Idle.result = 0 /\ Idle.error = "none"
        /\ Idle.past = {}
        /\ NoSubmission.state = "none" /\ NoSubmission.created = NoContract
        /\ NoContract = 0
    BY DEF Idle, NoInput, NoSubmission, NoContract
  <1>4. Stage(Idle, NoSubmission) /\ Known(Idle)
    BY <1>1, <1>3 DEF Stage, Known
  <1>5. resolved \in [Participant -> SUBSET Created("Credential")]
    BY DEF ClientInit
  <1>6. Apart /\ Once /\ Needed
    BY <1>1, <1>2, <1>3 DEF Apart, Once, IsMint, Needed, Active
  <1> QED
    BY <1>2, <1>3, <1>4, <1>5, <1>6 DEF ResultInv

LEMMA ResultInvariance == ClientSpec => [](ClientInv /\ IInv /\ ResultInv)
  <1>1. ClientInit => ClientInv /\ ResultInv
    BY ClientInitially, ResultInit
  <1>2. ClientInv /\ IInv /\ ResultInv /\ [ClientNext]_allVars
          => ClientInv' /\ ResultInv'
    <2> SUFFICES ASSUME ClientInv, IInv, ResultInv, [ClientNext]_allVars
                 PROVE  ResultInv'
      BY ClientStep
    <2>1. ASSUME NEW c \in Call, Step(c)
          PROVE  ResultInv'
      <3>1. CASE \E in \in Inputs : Start(c, in)
        BY <3>1, StartKeeps
      <3>2. CASE LedgerEnd(c)
        BY <3>2, LedgerEndKeeps
      <3>3. CASE \/ findActiveCredentialByHolder(c)
                 \/ findActiveCredentialByContractId(c)
                 \/ findActiveKycNftByCredentialId(c)
        BY <3>3, FindersKeep
      <3>4. CASE resolveDisclosedTemplateId(c)
        BY <3>4, ResolveKeeps
      <3>5. CASE CommandCommits(c)
        BY <3>5, CommitKeeps
      <3>6. CASE CommandRejected(c)
        BY <3>6, RejectedKeeps
      <3>7. CASE TransactionArrives(c)
        BY <3>7, ArrivalKeeps
      <3>8. CASE RejectionArrives(c) \/ OutcomeLost(c)
        BY <3>8, FailuresKeep
      <3> QED
        BY <2>1, <3>1, <3>2, <3>3, <3>4, <3>5, <3>6, <3>7, <3>8 DEF Step
    <2>2. CASE UNCHANGED allVars
      <3>1. UNCHANGED <<ledger, active, origin, task, sub, resolved>>
        BY <2>2 DEF allVars, vars, clientVars
      <3>2. Inputs' = Inputs
        <4>1. /\ Created("Credential")' = Created("Credential")
              /\ Created("KycNFT")' = Created("KycNFT")
          BY <3>1, Zenon DEF Created
        <4> QED
          BY <4>1 DEF Inputs
      <3>3. ASSUME NEW c \in Call
            PROVE  Stage(task[c], sub[c])'
        <4>1. Stage(task[c], sub[c]) /\ task'[c] = task[c] /\ sub'[c] = sub[c]
          BY <3>1 DEF ResultInv
        <4> QED
          BY <3>2, <4>1 DEF Stage, Sends
      <3>4. ASSUME NEW c \in Call
            PROVE  Effect(task[c], sub[c].cmd, sub[c].created)'
                     <=> Effect(task[c], sub[c].cmd, sub[c].created)
        BY <3>1, Zenon DEF Effect, Shows, Revoked, Lineage, InScope, Created
      <3>5. ASSUME NEW c \in Call PROVE Known(task[c])'
        <4>1. Known(task[c]) /\ task'[c] = task[c]
          BY <3>1 DEF ResultInv
        <4>2. /\ \A t : Created(t)' = Created(t)
              /\ \A d : Revoked(d)' <=> Revoked(d)
              /\ \A d : Shows(task[c], d)' <=> Shows(task[c], d)
          BY <3>1, Zenon DEF Created, Shows, Revoked
        <4> QED
          BY <3>1, <4>1, <4>2 DEF Known
      <3>6. Apart' /\ Once'
        <4>1. Apart /\ Once
          BY DEF ResultInv
        <4>2. Apart'
          BY <3>1, <4>1 DEF Apart
        <4>3. \A c, d \in Call :
                /\ IsMint(sub[c])' <=> IsMint(sub[c])
                /\ SameMint(sub[c], sub[d])' <=> SameMint(sub[c], sub[d])
          BY <3>1, Zenon DEF IsMint, SameMint
        <4>4. Once'
          BY <3>1, <4>1, <4>3, Zenon DEF Once
        <4> QED
          BY <4>2, <4>4
      <3>7. Needed'
        <4>1. Needed
          BY DEF ResultInv
        <4>2. Active("CredentialFactory")' = Active("CredentialFactory")
          BY <3>1, Zenon DEF Active, Created
        <4>3. \A c \in Call : \A f :
                Needs(task[c], sub[c], f)' <=> Needs(task[c], sub[c], f)
          BY <3>1, Zenon DEF Needs
        <4> QED
          BY <4>1, <4>2, <4>3, Zenon DEF Needed
      <3> QED
        BY <3>1, <3>3, <3>4, <3>5, <3>6, <3>7, Zenon DEF ResultInv, Created
    <2> QED
      BY <2>1, <2>2 DEF ClientNext
  <1> QED
    BY <1>1, <1>2, ClientsRefineLedger, Invariance, PTL DEF ClientSpec
-----------------------------------------------------------------------------
(* What follows for callers.                                               *)

\* What a call that has returned says of itself.
LEMMA ReturnedEffect ==
  ASSUME ResultInv, NEW c \in Call, NEW k, k = task[c], k.step = "returned",
         k.input.op \notin Finders
  PROVE  /\ k.input \in Inputs
         /\ sub[c].state = "committed"
         /\ Sends(k, sub[c].cmd)
         /\ Effect(k, sub[c].cmd, sub[c].created)
  BY DEF ResultInv, Stage

\* The id that createCredential returned is that of a mint of its own, with
\* the scope and the claims that were asked for.
LEMMA MintedId ==
  ASSUME ResultInv, NEW c \in Call, NEW k, k = task[c], k.step = "returned",
         k.input.op = "createCredential"
  PROVE  /\ k.result = sub[c].created /\ k.result \in Created("Credential")
         /\ origin[k.result] = k.result
         /\ InScope(ledger[k.result], k.input.scope)
         /\ ledger[k.result].claims = k.input.claims
  <1>1. k.result = sub[c].created
    BY DEF ResultInv, Stage, Makers
  <1>2. k.input.op \notin Finders
    BY DEF Finders
  <1>3. sub[c].cmd.choice = "CreateCredential"
    <2>1. k.input \in Inputs /\ Sends(k, sub[c].cmd)
      BY <1>2, ReturnedEffect
    <2> QED
      BY <1>2, <2>1, SendsWhat
  <1>4. Effect(k, sub[c].cmd, sub[c].created)
    BY <1>2, ReturnedEffect
  <1> QED
    BY <1>1, <1>3, <1>4 DEF Effect

\* The id that updateCredentials returned is a later one of the lineage it was
\* called for.
LEMMA UpdatedId ==
  ASSUME ResultInv, NEW c \in Call, NEW k, k = task[c], k.step = "returned",
         k.input.op = "updateCredentials"
  PROVE  /\ k.result = sub[c].created
         /\ k.input.contractId \in Created("Credential")
         /\ k.result \in Lineage(k.input.contractId)
         /\ k.result > k.input.contractId
         /\ ledger[k.result].claims = k.input.newClaims
         /\ Revoked(k.input.contractId) => Revoked(k.result)
  <1>1. k.result = sub[c].created
    BY DEF ResultInv, Stage, Makers
  <1>2. k.input.op \notin Finders
    BY DEF Finders
  <1>3. sub[c].cmd.choice = "CredentialFactory_UpdateCredentials"
    BY DEF ResultInv, Stage
  <1> QED
    BY <1>1, <1>2, <1>3, ReturnedEffect DEF Effect

\* The id that createKycNft returned is that of an NFT of the credential.
LEMMA MintedNft ==
  ASSUME ResultInv, NEW c \in Call, NEW k, k = task[c], k.step = "returned",
         k.input.op = "createKycNft"
  PROVE  /\ k.result = sub[c].created /\ k.result \in Created("KycNFT")
         /\ ledger[k.result].boundCredentialId = k.input.boundCredentialId
  <1>1. k.result = sub[c].created
    BY DEF ResultInv, Stage, Makers
  <1>2. k.input.op \notin Finders
    BY DEF Finders
  <1>3. sub[c].cmd.choice = "CreateKycNft"
    <2>1. k.input \in Inputs /\ Sends(k, sub[c].cmd)
      BY <1>2, ReturnedEffect
    <2> QED
      BY <1>2, <2>1, SendsWhat
  <1> QED
    BY <1>1, <1>2, <1>3, ReturnedEffect DEF Effect

\* A call that created has returned the contract of its last submission.
LEMMA CreatorsReturnTheirs ==
  ASSUME TypeOK, ResultInv, NEW c \in Call, Creates(c)
  PROVE  task[c].result = sub[c].created /\ sub[c].created # NoContract
  <1>1. PICK k : k = task[c]
    OBVIOUS
  <1>2. NoContract = 0
    BY DEF NoContract
  <1>3. \A t : \A i \in Created(t) : i \in Nat /\ i > 0
    BY DEF TypeOK, Created
  <1>4. CASE Returned(c, "createCredential")
    BY <1>1, <1>2, <1>3, <1>4, MintedId DEF Returned
  <1>5. CASE Returned(c, "updateCredentials")
    <2>1. /\ k.result = sub[c].created /\ k.result > k.input.contractId
          /\ k.input.contractId \in Created("Credential")
      BY <1>1, <1>5, UpdatedId DEF Returned
    <2> QED
      BY <1>1, <1>2, <1>3, <2>1
  <1>6. CASE Returned(c, "createKycNft")
    BY <1>1, <1>2, <1>3, <1>6, MintedNft DEF Returned
  <1> QED
    BY <1>4, <1>5, <1>6 DEF Creates

\* The ids that calls keep are ids of the ledger, and lists and caches are
\* of contracts of their template.
THEOREM ClientTypes == ClientSpec => []ClientTypeOK
  <1>1. ClientInv /\ IInv /\ ResultInv => ClientTypeOK
    <2> SUFFICES ASSUME ClientInv, ResultInv
                 PROVE  ClientTypeOK
      OBVIOUS
    <2>1. ASSUME NEW c \in Call
          PROVE  /\ task[c].step \in {"idle", "ledgerEnd", "acs", "submitted",
                                      "returned", "failed"}
                 /\ sub[c].state \in {"none", "sent", "committed", "rejected",
                                      "duplicate"}
      BY <2>1, TaskFields DEF ClientInv, Steps, States, Submitted, SubmittedOf,
         Task, TaskOf
    <2>2. ASSUME NEW c \in Call
          PROVE  task[c].snapshot \subseteq
                   (IF task[c].input = NoInput THEN {}
                    ELSE Created(Wanted(task[c].input)))
      <3>1. Known(task[c])
        BY <2>2 DEF ResultInv
      <3> QED
        BY <3>1 DEF Known, NoInput
    <2>3. ASSUME NEW c \in Call
          PROVE  {task[c].result, task[c].factory, sub[c].created}
                   \subseteq 0 .. Len(ledger)
      BY <2>3 DEF ResultInv, Known, Apart
    <2>4. TypeOK /\ resolved \in [Participant -> SUBSET Created("Credential")]
      BY DEF ClientInv, ResultInv
    <2> QED
      BY <2>1, <2>2, <2>3, <2>4 DEF ClientTypeOK
  <1> QED
    BY ResultInvariance, <1>1, PTL

\* The id an operation returns is that of the contract it was called for,
\* and of no other call's, however the submissions of the calls interleave
\* and whichever of them were given up.
THEOREM ResultsAreTheCallers == ClientSpec => []ResultsAreOurs
  <1>1. ClientInv /\ IInv /\ ResultInv => ResultsAreOurs
    <2> SUFFICES ASSUME ClientInv, ResultInv, NEW c \in Call
                 PROVE  LET in == task[c].input
                            id == task[c].result
                        IN /\ Returned(c, "createCredential") =>
                                /\ origin[id] = id
                                /\ InScope(ledger[id], in.scope)
                                /\ ledger[id].claims = in.claims
                           /\ Returned(c, "updateCredentials") =>
                                /\ id \in Lineage(in.contractId)
                                /\ id > in.contractId
                                /\ ledger[id].claims = in.newClaims
                                /\ Revoked(in.contractId) => Revoked(id)
                           /\ Returned(c, "createKycNft") =>
                                /\ ledger[id].template = "KycNFT"
                                /\ ledger[id].boundCredentialId
                                     = in.boundCredentialId
                           /\ \A d \in Call \ {c} :
                                Creates(c) /\ Creates(d)
                                  => task[c].result # task[d].result
      BY DEF ResultsAreOurs
    <2>1. PICK k : k = task[c]
      OBVIOUS
    <2>2. Returned(c, "createCredential") =>
            /\ origin[k.result] = k.result
            /\ InScope(ledger[k.result], k.input.scope)
            /\ ledger[k.result].claims = k.input.claims
      BY <2>1, MintedId DEF Returned
    <2>3. Returned(c, "updateCredentials") =>
            /\ k.result \in Lineage(k.input.contractId)
            /\ k.result > k.input.contractId
            /\ ledger[k.result].claims = k.input.newClaims
            /\ Revoked(k.input.contractId) => Revoked(k.result)
      BY <2>1, UpdatedId DEF Returned
    <2>4. Returned(c, "createKycNft") =>
            /\ ledger[k.result].template = "KycNFT"
            /\ ledger[k.result].boundCredentialId = k.input.boundCredentialId
      BY <2>1, MintedNft DEF Returned, Created
    <2>5. ASSUME NEW d \in Call, d # c, Creates(c), Creates(d)
          PROVE  task[c].result # task[d].result
      <3>1. /\ task[c].result = sub[c].created /\ sub[c].created # NoContract
            /\ task[d].result = sub[d].created
        BY <2>5, CreatorsReturnTheirs DEF ClientInv
      <3>2. Apart
        BY DEF ResultInv
      <3> QED
        BY <2>5, <3>1, <3>2 DEF Apart
    <2> QED
      BY <2>1, <2>2, <2>3, <2>4, <2>5
  <1> QED
    BY ResultInvariance, <1>1, PTL

\* A verifier or a finder is never handed a credential that hides a
\* revocation which took place before the call was made.
THEOREM AnswersShowRevocations == ClientSpec => []AnswersAreCurrent
  <1>1. ClientInv /\ IInv /\ ResultInv => AnswersAreCurrent
    <2> SUFFICES ASSUME ResultInv, NEW c \in Call
                 PROVE  LET in == task[c].input
                            id == task[c].result
                        IN /\ Returned(c, "verifyCredential")
                                => ledger[id].admin = in.expectedAdmin
                           /\ \/ Returned(c, "verifyCredential")
                              \/ /\ \/ Returned(c, "findActiveCredentialByHolder")
                                    \/ Returned(c, "findActiveCredentialByContractId")
                                 /\ id # NoContract
                              => (origin[id] \in task[c].past => Revoked(id))
      BY DEF AnswersAreCurrent
    <2>1. PICK k : k = task[c]
      OBVIOUS
    <2>2. ASSUME Returned(c, "verifyCredential")
          PROVE  ledger[k.result].admin = k.input.expectedAdmin /\ Shows(k, k.result)
      <3>1. k.input.op = "verifyCredential" /\ k.step = "returned"
        BY <2>1, <2>2 DEF Returned
      <3>2. k.input.op \notin Finders
        BY <3>1 DEF Finders
      <3>3. k.result = k.input.contractId
        BY <2>1, <3>1 DEF ResultInv, Stage
      <3>4. sub[c].cmd.choice = "Credential_PublicFetch"
        BY <2>1, <3>1, <3>2, ReturnedEffect, SendsWhat
      <3> QED
        BY <2>1, <3>1, <3>2, <3>3, <3>4, ReturnedEffect DEF Effect
    <2>3. ASSUME \/ Returned(c, "findActiveCredentialByHolder")
                 \/ Returned(c, "findActiveCredentialByContractId"),
                 k.result # NoContract
          PROVE  Shows(k, k.result)
      <3>1. /\ k.step = "returned" /\ k.input.op \in Finders
            /\ k.input.op # "findActiveKycNftByCredentialId"
        BY <2>1, <2>3 DEF Returned, Finders
      <3>2. Wanted(k.input) # "KycNFT"
        BY <3>1 DEF Wanted
      <3>3. Known(k)
        BY <2>1 DEF ResultInv
      <3> QED
        BY <2>3, <3>1, <3>2, <3>3 DEF Known
    <2> QED
      BY <2>1, <2>2, <2>3 DEF Shows
  <1> QED
    BY ResultInvariance, <1>1, PTL

\* An NFT that is looked up by its credential is bound to it, and was not
\* burnt before the call was made.
THEOREM NftLookupsTellTheTruth == ClientSpec => []NftLookupsAreCurrent
  <1>1. ClientInv /\ IInv /\ ResultInv => NftLookupsAreCurrent
    <2> SUFFICES ASSUME ResultInv, NEW c \in Call,
                        Returned(c, "findActiveKycNftByCredentialId"),
                        task[c].result # NoContract
                 PROVE  /\ task[c].result \in Created("KycNFT") \ task[c].past
                        /\ ledger[task[c].result].boundCredentialId
                             = task[c].input.contractId
      BY DEF NftLookupsAreCurrent
    <2>1. PICK k : k = task[c]
      OBVIOUS
    <2>2. /\ k.step = "returned" /\ k.result # NoContract
          /\ k.input.op = "findActiveKycNftByCredentialId"
      BY <2>1 DEF Returned
    <2>3. Wanted(k.input) = "KycNFT" /\ k.input.op \in Finders
      BY <2>2 DEF Wanted, Finders
    <2>4. Known(k)
      BY <2>1 DEF ResultInv
    <2> QED
      BY <2>1, <2>2, <2>3, <2>4 DEF Known
  <1> QED
    BY ResultInvariance, <1>1, PTL

\* Every factory that is still active is that of an update that has not
\* returned.
THEOREM SuccessLeavesNoFactory == ClientSpec => []FactoriesAreAccountedFor
  <1>1. ClientInv /\ IInv /\ ResultInv => FactoriesAreAccountedFor
    <2> SUFFICES ASSUME ResultInv, NEW f \in Active("CredentialFactory")
                 PROVE  \E c \in Call :
                          /\ task[c].input.op = "updateCredentials"
                          /\ task[c].step # "returned"
                          /\ f \in {task[c].factory, sub[c].created}
      BY DEF FactoriesAreAccountedFor
    <2>1. PICK c \in Call : Needs(task[c], sub[c], f)
      BY DEF ResultInv, Needed
    <2>2. Stage(task[c], sub[c])
      BY DEF ResultInv
    <2>3. task[c].input.op = "updateCredentials" /\ task[c].step # "returned"
      BY <2>1, <2>2 DEF Needs, Stage, Finders
    <2> QED
      BY <2>1, <2>3 DEF Needs
  <1> QED
    BY ResultInvariance, <1>1, PTL

\* What a call of createKycNft has submitted.
LEMMA MintSends ==
  ASSUME TypeOK, ResultInv, NEW c \in Call, NEW k, k = task[c],
         sub[c].state \in {"committed", "duplicate"}
  PROVE  /\ k.input.op = "createKycNft" /\ k.input.deterministic =>
              /\ sub[c].cmd.choice = "CreateKycNft"
              /\ sub[c].cmd.seed = k.input.boundCredentialId
              /\ sub[c].cmd.seed # NoContract
         /\ sub[c].cmd.choice = "CreateKycNft" =>
              /\ k.input.op = "createKycNft"
              /\ sub[c].cmd.actAs = {k.input.issuer}
              /\ sub[c].cmd.seed # NoContract =>
                   /\ k.input.deterministic
                   /\ sub[c].cmd.seed = k.input.boundCredentialId
  <1>1. /\ k.input \in Inputs /\ k.input.op \notin Finders
        /\ Sends(k, sub[c].cmd)
    BY DEF ResultInv, Stage
  <1>2. k.input.op = "createKycNft" =>
          /\ k.input.boundCredentialId \in Created("Credential")
          /\ k.input.deterministic \in BOOLEAN
    BY <1>1, InputContracts
  <1>3. k.input.op = "createKycNft" => k.input.boundCredentialId # NoContract
    BY <1>2 DEF Created, NoContract, TypeOK
  <1>4. PICK cmd : cmd = sub[c].cmd
    OBVIOUS
  <1>5. /\ cmd.choice = "CreateKycNft" =>
             /\ k.input.op = "createKycNft" /\ cmd.actAs = {k.input.issuer}
             /\ cmd.seed = IF k.input.deterministic
                           THEN k.input.boundCredentialId ELSE NoContract
        /\ k.input.op = "createKycNft" => cmd.choice = "CreateKycNft"
    BY <1>1, <1>4, SendsWhat
  <1> QED
    BY <1>2, <1>3, <1>4, <1>5

\* Repeats of createKycNft with the deterministic command id mint once, and
\* the refusal of a repeat means that the NFT is there.
THEOREM RepeatsMintOnce == ClientSpec => []NftIsMintedOnce
  <1>1. ClientInv /\ IInv /\ ResultInv => NftIsMintedOnce
    <2> DEFINE Mint(c) == task[c].input.op = "createKycNft"
                            /\ task[c].input.deterministic
                            /\ sub[c].state = "committed"
               Same(c, d) == task[c].input.issuer = task[d].input.issuer
                               /\ task[c].input.boundCredentialId
                                    = task[d].input.boundCredentialId
    <2> SUFFICES ASSUME ClientInv, ResultInv, NEW c \in Call
                 PROVE  /\ \A d \in Call : Mint(c) /\ Mint(d) /\ Same(c, d)
                             => c = d
                        /\ task[c].error = "command_already_submitted"
                             => \E d \in Call : Mint(d) /\ Same(c, d)
      BY Zenon DEF NftIsMintedOnce
    <2>1. TypeOK /\ Once
      BY DEF ClientInv, ResultInv
    <2>2. ASSUME NEW d \in Call, Mint(c), Mint(d), Same(c, d)
          PROVE  c = d
      <3>1. IsMint(sub[c]) /\ IsMint(sub[d])
        BY <2>1, <2>2, MintSends DEF IsMint
      <3>2. ASSUME NEW e \in Call, Mint(e)
            PROVE  /\ sub[e].cmd.choice = "CreateKycNft"
                   /\ sub[e].cmd.actAs = {task[e].input.issuer}
                   /\ sub[e].cmd.seed = task[e].input.boundCredentialId
        BY <2>1, <3>2, MintSends
      <3>3. SameMint(sub[c], sub[d])
        BY <2>2, <3>2 DEF SameMint
      <3> QED
        BY <2>1, <3>1, <3>3 DEF Once
    <2>3. ASSUME task[c].error = "command_already_submitted"
          PROVE  \E d \in Call : Mint(d) /\ Same(c, d)
      <3>1. sub[c].state = "duplicate"
        BY <2>3 DEF ResultInv, Stage
      <3>2. PICK d \in Call : IsMint(sub[d]) /\ SameMint(sub[c], sub[d])
        BY <2>1, <3>1 DEF Once
      <3>3. /\ sub[c].cmd.choice = "CreateKycNft" /\ sub[c].cmd.seed # NoContract
            /\ sub[d].cmd.choice = "CreateKycNft" /\ sub[d].cmd.seed # NoContract
            /\ sub[d].state = "committed"
            /\ sub[c].cmd.seed = sub[d].cmd.seed
            /\ sub[c].cmd.actAs = sub[d].cmd.actAs
        BY <3>2 DEF IsMint, SameMint
      <3>4. /\ sub[c].cmd.actAs = {task[c].input.issuer}
            /\ sub[c].cmd.seed = task[c].input.boundCredentialId
        BY <2>1, <3>1, <3>3, MintSends
      <3>5. /\ sub[d].cmd.actAs = {task[d].input.issuer}
            /\ sub[d].cmd.seed = task[d].input.boundCredentialId
            /\ Mint(d)
        BY <2>1, <3>3, MintSends
      <3>6. Same(c, d)
        BY <3>3, <3>4, <3>5
      <3> QED
        BY <3>5, <3>6
    <2> QED
      BY <2>2, <2>3
  <1> QED
    BY ResultInvariance, <1>1, PTL
=============================================================================
