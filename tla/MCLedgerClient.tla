--------------------------- MODULE MCLedgerClient ---------------------------
(***************************************************************************)
(* Constants for model-checking LedgerClient: an issuing platform that     *)
(* hosts the issuer and the holder (the custodial deployment the SDK is    *)
(* written for) and a verifier on a participant of its own.                *)
(***************************************************************************)
EXTENDS LedgerClient, TLC

CONSTANTS issuer, holder, verifier, c1, c2, c3, c4

MCParty == {issuer, holder, verifier}

MCScope == {[admin |-> issuer, issuer |-> issuer, holder |-> holder]}

MCParticipant == {{issuer, holder}, {verifier}}

\* The platform alone: a verify elsewhere never gets as far as an answer
\* (BlobSuffices), so what answers say is checked for the parties here.
PlatformParty == {issuer, holder}

Platform == {PlatformParty}

\* A mint, two calls that write to what there is, and one that mints again,
\* archives or looks for an NFT.
WriteOps ==
  [c \in Call |->
     CASE c = c1 -> {"createCredential"}
       [] c = c4 -> {"createCredential", "archiveAsHolder",
                     "findActiveKycNftByCredentialId"}
       [] OTHER -> {"updateCredentials", "revokeCredential", "createKycNft",
                    "burnNft"}]

\* A mint, two writers that change it, and a reader.
ReadOps ==
  [c \in Call |-> CASE c = c1 -> {"createCredential"}
                    [] c = c2 -> {"revokeCredential"}
                    [] c = c3 -> {"updateCredentials", "createCredential",
                                  "archiveAsHolder"}
                    [] OTHER -> {"verifyCredential",
                                 "findActiveCredentialByHolder",
                                 "findActiveCredentialByContractId"}]

\* A mint and a verify.
VerifyOps ==
  [c \in Call |-> IF c = c1 THEN {"createCredential"}
                  ELSE {"verifyCredential"}]

\* The submitters are not read by any property of these runs.
ClientState == <<ledger, active, origin, clientVars>>

\* Calls that may be the same operations are interchangeable.
WriterSymmetry == Permutations({c2, c3})
=============================================================================
