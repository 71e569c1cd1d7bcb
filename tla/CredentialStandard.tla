------------------------- MODULE CredentialStandard -------------------------
(***************************************************************************)
(* What the credential package promises to issuers, holders and verifiers, *)
(* with no contracts in sight: a registry of credentials, each minted      *)
(* once, rewritten and revoked while it is live, and ended for good.  Who  *)
(* has to submit a change is part of the promise.                          *)
(*                                                                         *)
(* CIP #204 (Cip204.Standard, Cip204.Factory) fixes the joint signature of *)
(* a mint, the holder's right to end a credential and the joint bulk       *)
(* rewrite within one (admin, issuer, holder) scope; the issuer's revoke   *)
(* and stamped rewrite are extensions of Canton.VC.Credential.             *)
(***************************************************************************)
CONSTANTS
  Id,        \* names of credentials
  Party,
  ClaimMap,  \* the values of a claims map
  NoClaims,  \* the empty one
  Expiry

VARIABLES
  registry,   \* the credentials minted so far, by id
  submitters  \* the parties that submitted the last transaction

Entry ==
  [admin : Party, issuer : Party, holder : Party, live : BOOLEAN,
   claims : ClaimMap \ {NoClaims}, expiresAt : Expiry,
   revoked : BOOLEAN, stamped : BOOLEAN]

Fresh ==
  [admin : Party, issuer : Party, holder : Party, live : {TRUE},
   claims : ClaimMap \ {NoClaims}, expiresAt : Expiry,
   revoked : {FALSE}, stamped : {FALSE}]

LiveIds == {i \in DOMAIN registry : registry[i].live}

SameScope(i, j) ==
  /\ registry[i].admin = registry[j].admin
  /\ registry[i].issuer = registry[j].issuer
  /\ registry[i].holder = registry[j].holder

Rewritten(entry, claims, expiresAt) ==
  [entry EXCEPT !.claims = claims, !.expiresAt = expiresAt]

Stamped(entry, claims, expiresAt) ==
  [entry EXCEPT !.claims = claims, !.expiresAt = expiresAt, !.stamped = TRUE]

\* The registry after the entries in `ids' get new claims and expiries.
WithContents(ids, claims, expiresAt) ==
  [i \in DOMAIN registry |->
     IF i \in ids THEN Rewritten(registry[i], claims[i], expiresAt[i])
                  ELSE registry[i]]

Init == registry = << >>

\* Issuer and holder sign together.
Mint ==
  \E i \in Id \ DOMAIN registry :
    /\ DOMAIN registry' = DOMAIN registry \cup {i}
    /\ \A j \in DOMAIN registry : registry'[j] = registry[j]
    /\ registry'[i] \in Fresh
    /\ {registry'[i].issuer, registry'[i].holder} \subseteq submitters'

\* Issuer and holder replace claims and expiry of some of the credentials
\* of one scope, all of them or none.
Rewrite ==
  \E ids \in (SUBSET LiveIds) \ {{}} :
    \E claims \in [ids -> ClaimMap \ {NoClaims}], expiresAt \in [ids -> Expiry] :
      /\ \A i, j \in ids : SameScope(i, j)
      /\ \A i \in ids : {registry[i].issuer, registry[i].holder} \subseteq submitters'
      /\ registry' = WithContents(ids, claims, expiresAt)

\* The issuer alone replaces them, and the credential says so ever after.
StampedRewrite ==
  \E i \in LiveIds, claims \in ClaimMap \ {NoClaims}, expiresAt \in Expiry :
    /\ registry[i].issuer \in submitters'
    /\ registry' = [registry EXCEPT ![i] = Stamped(@, claims, expiresAt)]

\* The issuer marks the credential revoked.  It stays live.
Revoke ==
  \E i \in LiveIds :
    /\ registry[i].issuer \in submitters'
    /\ registry' = [registry EXCEPT ![i].revoked = TRUE]

\* Only the holder can make it go.
End ==
  \E i \in LiveIds :
    /\ registry[i].holder \in submitters'
    /\ registry' = [registry EXCEPT ![i].live = FALSE]

Next ==
  /\ submitters' \in SUBSET Party
  /\ Mint \/ Rewrite \/ StampedRewrite \/ Revoke \/ End

\* Transactions on factories and NFTs leave the registry as it is.
Spec == Init /\ [][Next]_registry
=============================================================================
