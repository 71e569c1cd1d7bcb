------------------------- MODULE MCCredentialLedger -------------------------
(***************************************************************************)
(* Constants for model-checking CredentialLedger: one issuer and one       *)
(* holder, who mint under two scopes that differ in the admin only (the    *)
(* one field a factory's scope check protects by itself: the issuer's and  *)
(* the holder's signatures are also needed to archive).                    *)
(***************************************************************************)
EXTENDS CredentialLedgerImplements

CONSTANTS issuer, holder

MCParty == {issuer, holder}

MCScope ==
  {[admin |-> a, issuer |-> issuer, holder |-> holder] : a \in MCParty}

\* No action reads actAs, so states that differ in it only are explored once
\* (TLC still checks the action properties on every step).
LedgerState == <<ledger, active, origin>>
=============================================================================
