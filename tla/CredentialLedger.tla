-------------------------- MODULE CredentialLedger --------------------------
(***************************************************************************)
(* The on-chain half of canton-vc: the templates of                        *)
(* daml/canton-vc-credential (Credential, CredentialFactory, KycNFT) and   *)
(* the two CIP #204 interfaces they implement, as transactions on one Daml *)
(* ledger.                                                                 *)
(*                                                                         *)
(* The ledger is append-only: a contract id is the position of its create  *)
(* event, a payload never changes, and a consuming choice only takes its   *)
(* contract out of the active set.  A choice that "changes" a credential   *)
(* archives it and creates a sibling; `origin' remembers the contract id   *)
(* of the mint a credential descends from, so that the siblings of one     *)
(* mint form a lineage.                                                    *)
(*                                                                         *)
(* Every action is one Daml transaction and takes `act', the actAs parties *)
(* of the submission.  Daml's authorization rule is a guard of each        *)
(* action: a create needs all signatories of the new contract, an exercise *)
(* needs all controllers of the choice, and the body of a choice runs with *)
(* the authority of the contract's signatories and the choice's            *)
(* controllers only.                                                       *)
(***************************************************************************)
EXTENDS Naturals, Sequences

CONSTANTS
  Party,        \* the parties of the ledger
  Scope,        \* the (admin, issuer, holder) triples minted under
  ClaimMap,     \* the values a claims.values map can take
  NoClaims,     \* the empty claims.values map
  Expiry,       \* the values of expiresAt, None included
  Text,         \* the reasons a caller may give
  NoText,       \* the empty reason
  Absent,       \* a metadata key that is not set
  MaxContracts, \* bound on the number of contracts ever created
  MaxUpdates    \* bound on the length of one bulk update

ASSUME ScopeAssumption ==
  Scope \subseteq [admin : Party, issuer : Party, holder : Party]

ASSUME TextAssumption == Absent \notin Text

ASSUME BoundAssumption == MaxContracts \in Nat /\ MaxUpdates \in Nat

VARIABLES
  ledger,  \* every contract ever created, by contract id
  active,  \* the ids of the contracts not archived yet
  origin,  \* history: for a credential, the mint it descends from; else 0
  actAs    \* history: the parties that submitted the last transaction

vars == <<ledger, active, origin, actAs>>

-----------------------------------------------------------------------------
(* Contracts.                                                              *)

\* A Cid passed where the code has None.
NoContract == 0

Credential ==
  [template : {"Credential"}, admin : Party, issuer : Party, holder : Party,
   claims : ClaimMap \ {NoClaims}, expiresAt : Expiry,
   revokeReason : Text \cup {Absent}, updateReason : Text \cup {Absent}]

CredentialFactory ==
  [template : {"CredentialFactory"},
   admin : Party, issuer : Party, holder : Party]

\* The customer only observes the NFT, and the display fields matter to no
\* choice (the ensure clause wants them non-empty).
KycNFT ==
  [template : {"KycNFT"}, issuer : Party, boundCredentialId : Nat]

Contract == Credential \cup CredentialFactory \cup KycNFT

Signatories(k) ==
  IF k.template = "KycNFT" THEN {k.issuer} ELSE {k.issuer, k.holder}

Created(template) == {c \in 1..Len(ledger) : ledger[c].template = template}

Active(template) == active \cap Created(template)

InScope(k, scope) ==
  /\ k.admin = scope.admin
  /\ k.issuer = scope.issuer
  /\ k.holder = scope.holder

-----------------------------------------------------------------------------
Init ==
  /\ ledger = << >>
  /\ active = {}
  /\ origin = << >>
  /\ actAs = {}

\* One atomic transaction: archive `consumed', create `produced', in order.
Commit(act, consumed, produced, origins) ==
  /\ Len(ledger) + Len(produced) <= MaxContracts
  /\ ledger' = ledger \o produced
  /\ active' = (active \ consumed)
                 \cup (Len(ledger) + 1 .. Len(ledger) + Len(produced))
  /\ origin' = origin \o origins
  /\ actAs' = act

-----------------------------------------------------------------------------
(* Credential.                                                             *)

\* Mutant: the template without its ensure clause.
CreateCredential_NoEnsure(act, scope, claims, expiresAt) ==
  /\ {scope.issuer, scope.holder} \subseteq act
  /\ Commit(act, {},
            << [template |-> "Credential", admin |-> scope.admin,
                issuer |-> scope.issuer, holder |-> scope.holder,
                claims |-> claims, expiresAt |-> expiresAt,
                revokeReason |-> Absent, updateReason |-> Absent] >>,
            << Len(ledger) + 1 >>)

CreateCredential(act, scope, claims, expiresAt) ==
  /\ {scope.issuer, scope.holder} \subseteq act
  /\ claims # NoClaims
  /\ Commit(act, {},
            << [template |-> "Credential", admin |-> scope.admin,
                issuer |-> scope.issuer, holder |-> scope.holder,
                claims |-> claims, expiresAt |-> expiresAt,
                revokeReason |-> Absent, updateReason |-> Absent] >>,
            << Len(ledger) + 1 >>)

\* Mutant: the cascade without its assertMsg.
Cascades_Unbound(nft, c) ==
  /\ nft \in Active("KycNFT")
  /\ ledger[nft].issuer \in Signatories(ledger[c])

\* The checks of the cascade: the NFT is bound to the credential being
\* revoked, and its issuer is one of the authorizers of the choice body.
Cascades(nft, c) ==
  /\ nft \in Active("KycNFT")
  /\ ledger[nft].boundCredentialId = c
  /\ ledger[nft].issuer \in Signatories(ledger[c])

RevokeCredential(act, c, nft, reason) ==
  /\ c \in Active("Credential")
  /\ ledger[c].issuer \in act
  /\ nft = NoContract \/ Cascades(nft, c)
  /\ Commit(act, {c, nft},
            << [ledger[c] EXCEPT !.revokeReason = reason] >>,
            << origin[c] >>)

\* Mutant: no reason is recorded for an update.
UpdateCredentials_NoStamp(act, c, newClaims, newExpiresAt, reason) ==
  /\ c \in Active("Credential")
  /\ ledger[c].issuer \in act
  /\ newClaims # NoClaims
  /\ Commit(act, {c},
            << [ledger[c] EXCEPT !.claims = newClaims,
                                 !.expiresAt = newExpiresAt] >>,
            << origin[c] >>)

\* The deprecated, issuer-only choice kept for v2.1.0 contracts.
UpdateCredentials(act, c, newClaims, newExpiresAt, reason) ==
  /\ c \in Active("Credential")
  /\ ledger[c].issuer \in act
  /\ newClaims # NoClaims
  /\ reason # NoText
  /\ Commit(act, {c},
            << [ledger[c] EXCEPT !.claims = newClaims,
                                 !.expiresAt = newExpiresAt,
                                 !.updateReason = reason] >>,
            << origin[c] >>)

\* Mutant: the choice controlled by any signatory.
ArchiveAsHolder_AnySignatory(act, c) ==
  /\ c \in Active("Credential")
  /\ Signatories(ledger[c]) \cap act # {}
  /\ Commit(act, {c}, << >>, << >>)

ArchiveAsHolder(act, c) ==
  /\ c \in Active("Credential")
  /\ ledger[c].holder \in act
  /\ Commit(act, {c}, << >>, << >>)

\* Mutant: publicFetchImpl without its assertMsg.
PublicFetchable_AnyAdmin(c, expectedAdmin) ==
  c \in Active("Credential")

\* Credential_PublicFetch is nonconsuming: it only reads, and answers with
\* the payload of an active credential whose admin is the expected one.
PublicFetchable(c, expectedAdmin) ==
  /\ c \in Active("Credential")
  /\ ledger[c].admin = expectedAdmin

-----------------------------------------------------------------------------
(* CredentialFactory.                                                      *)

CreateFactory(act, scope) ==
  /\ {scope.issuer, scope.holder} \subseteq act
  /\ Commit(act, {},
            << [template |-> "CredentialFactory", admin |-> scope.admin,
                issuer |-> scope.issuer, holder |-> scope.holder] >>,
            << 0 >>)

\* Mutant: all entries are fetched before the first one is archived.
Accepts_FetchFirst(f, updates, i) ==
  LET u == updates[i]
      existing == ledger[u.credentialId]
  IN /\ u.credentialId \in Active("Credential")
     /\ InScope(existing, ledger[f])
     /\ u.newClaims # NoClaims
     /\ Signatories(existing) \subseteq Signatories(ledger[f])

\* Mutant: the admin of the credential is not compared.
Accepts_AnyAdmin(f, updates, i) ==
  LET u == updates[i]
      existing == ledger[u.credentialId]
  IN /\ u.credentialId \in Active("Credential")
     /\ \A j \in 1..(i - 1) : updates[j].credentialId # u.credentialId
     /\ u.newClaims # NoClaims
     /\ Signatories(existing) \subseteq Signatories(ledger[f])

\* Entry i of a bulk update is accepted by factory f: earlier entries have
\* already archived their credentials when it is fetched.
Accepts(f, updates, i) ==
  LET u == updates[i]
      existing == ledger[u.credentialId]
  IN /\ u.credentialId \in Active("Credential")
     /\ \A j \in 1..(i - 1) : updates[j].credentialId # u.credentialId
     /\ InScope(existing, ledger[f])
     /\ u.newClaims # NoClaims
     /\ Signatories(existing) \subseteq Signatories(ledger[f])

\* Mutant: the sibling gets fresh metadata instead of the existing one's.
Rewritten_FreshMeta(u) ==
  [ledger[u.credentialId] EXCEPT !.claims = u.newClaims,
                                 !.expiresAt = u.newExpiresAt,
                                 !.revokeReason = Absent]

\* Mutant: the issuer becomes the admin of the sibling.
Rewritten_IssuerAdmin(u) ==
  LET existing == ledger[u.credentialId]
  IN [existing EXCEPT !.claims = u.newClaims,
                      !.expiresAt = u.newExpiresAt,
                      !.admin = existing.issuer]

Rewritten(u) ==
  [ledger[u.credentialId] EXCEPT !.claims = u.newClaims,
                                 !.expiresAt = u.newExpiresAt]

\* The choice is consuming, so the factory goes with its first use.
FactoryUpdateCredentials(act, f, updates) ==
  /\ f \in Active("CredentialFactory")
  /\ {ledger[f].issuer, ledger[f].holder} \subseteq act
  /\ updates # << >>
  /\ \A i \in 1..Len(updates) : Accepts(f, updates, i)
  /\ Commit(act,
            {f} \cup {updates[i].credentialId : i \in 1..Len(updates)},
            [i \in 1..Len(updates) |-> Rewritten(updates[i])],
            [i \in 1..Len(updates) |-> origin[updates[i].credentialId]])

-----------------------------------------------------------------------------
(* KycNFT.                                                                 *)

\* Nothing on chain checks what the NFT is bound to.
CreateKycNft(act, nftIssuer, bound) ==
  /\ nftIssuer \in act
  /\ Commit(act, {},
            << [template |-> "KycNFT", issuer |-> nftIssuer,
                boundCredentialId |-> bound] >>,
            << 0 >>)

BurnNft(act, n) ==
  /\ n \in Active("KycNFT")
  /\ ledger[n].issuer \in act
  /\ Commit(act, {n}, << >>, << >>)

\* Daml's built-in Archive choice, which every template has: all of its
\* signatories must agree.
Archive(act, c) ==
  /\ c \in active
  /\ Signatories(ledger[c]) \subseteq act
  /\ Commit(act, {c}, << >>, << >>)

-----------------------------------------------------------------------------
Update == [credentialId : Created("Credential"),
           newClaims : ClaimMap, newExpiresAt : Expiry]

BulkUpdates == UNION {[1..n -> Update] : n \in 1..MaxUpdates}

CredentialNext(act) ==
  \/ \E s \in Scope, cl \in ClaimMap, ex \in Expiry :
        CreateCredential(act, s, cl, ex)
  \/ \E c \in Active("Credential") :
        \/ \E nft \in Created("KycNFT") \cup {NoContract}, r \in Text :
              RevokeCredential(act, c, nft, r)
        \/ \E cl \in ClaimMap, ex \in Expiry, r \in Text :
              UpdateCredentials(act, c, cl, ex, r)
        \/ ArchiveAsHolder(act, c)

FactoryNext(act) ==
  \/ \E s \in Scope : CreateFactory(act, s)
  \/ \E f \in Active("CredentialFactory"), updates \in BulkUpdates :
        FactoryUpdateCredentials(act, f, updates)

NftNext(act) ==
  \/ \E p \in Party, c \in Created("Credential") : CreateKycNft(act, p, c)
  \/ \E n \in Active("KycNFT") : BurnNft(act, n)

Next ==
  \E act \in SUBSET Party :
    \/ CredentialNext(act)
    \/ FactoryNext(act)
    \/ NftNext(act)
    \/ \E c \in active : Archive(act, c)

Spec == Init /\ [][Next]_vars

-----------------------------------------------------------------------------
(* Properties.                                                             *)

\* Types of the four variables; in particular no credential is ever created
\* with an empty claims map (the ensure clause of the template).
TypeOK ==
  /\ ledger \in Seq(Contract)
  /\ active \subseteq 1..Len(ledger)
  /\ origin \in Seq(Nat)
  /\ Len(origin) = Len(ledger)
  /\ actAs \subseteq Party

\* The credentials that descend from the mint of credential c.
Lineage(c) == {d \in Created("Credential") : origin[d] = origin[c]}

Revoked(c) == ledger[c].revokeReason # Absent

\* However many revokes, updates and bulk updates are applied to a minted
\* credential, it has at most one active sibling: no sequence of choices,
\* a bulk update naming one credential twice included, forks it.
OneLivePerLineage ==
  \A c \in Active("Credential") : Lineage(c) \cap active = {c}

\* Siblings are created from archived payloads by choices that pick fields
\* one by one; none of them moves a credential to another admin, issuer or
\* holder.
LineageKeepsItsParties ==
  \A c \in Created("Credential") :
    /\ origin[c] \in Created("Credential")
    /\ InScope(ledger[c], ledger[origin[c]])

\* Once a revoke has stamped its reason, every later sibling carries the
\* stamp: an update, single or bulk, cannot wash a revocation off.
RevocationIsPermanent ==
  \A c \in Created("Credential") : \A d \in Lineage(c) :
    c < d /\ Revoked(c) => Revoked(d)

\* A lineage loses its active credential only in a transaction the holder
\* submitted: whatever the issuer alone exercises, revoke included, leaves
\* an active sibling behind.
DisappearsOnlyWithHolder ==
  [][\A c \in Active("Credential") :
       Lineage(c)' \cap active' = {} => ledger[c].holder \in actAs']_vars

\* Claims or expiry of an active credential change only in a transaction
\* the holder submitted, or visibly: the deprecated issuer-only choice
\* stamps a non-empty reason on the sibling it creates.
RewriteIsConsentedOrStamped ==
  [][\A c \in Active("Credential") : \A d \in Lineage(c)' \cap active' :
       \/ ledger'[d].claims = ledger[c].claims
          /\ ledger'[d].expiresAt = ledger[c].expiresAt
       \/ ledger[c].holder \in actAs'
       \/ ledger'[d].updateReason \notin {Absent, NoText}]_vars

\* A transaction that uses up a factory archives only credentials of the
\* factory's own (admin, issuer, holder) scope.
FactoryStaysInScope ==
  [][\A f \in Active("CredentialFactory"), c \in Active("Credential") :
       f \notin active' /\ c \notin active'
         => InScope(ledger[c], ledger[f])]_vars

\* An NFT never goes with somebody else's credential: whatever credential
\* is archived in the same transaction is the one it is bound to, and the
\* NFT's issuer submitted the transaction or signed that credential.
CascadeBurnsOnlyItsOwn ==
  [][\A n \in Active("KycNFT") :
       n \notin active' =>
         /\ \A c \in Active("Credential") \ active' :
              ledger[n].boundCredentialId = c
         /\ \/ ledger[n].issuer \in actAs'
            \/ ledger[n].issuer
                 \in Signatories(ledger[ledger[n].boundCredentialId])]_vars
=============================================================================
