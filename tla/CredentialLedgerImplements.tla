--------------------- MODULE CredentialLedgerImplements ---------------------
(***************************************************************************)
(* CredentialLedger implements CredentialStandard: a lineage is one entry  *)
(* of the registry, named by its mint and read off its latest sibling.     *)
(***************************************************************************)
EXTENDS CredentialLedger

Mints == {c \in 1..Len(origin) : origin[c] = c}

\* Contract ids grow, so the latest sibling is the one no other follows.
Latest(m) ==
  CHOOSE c \in m..Len(origin) :
    /\ origin[c] = m
    /\ \A d \in (c + 1)..Len(origin) : origin[d] # m

Standing(m) ==
  LET c == Latest(m)
      k == ledger[c]
  IN [admin |-> k.admin, issuer |-> k.issuer, holder |-> k.holder,
      live |-> c \in active,
      claims |-> k.claims, expiresAt |-> k.expiresAt,
      revoked |-> k.revokeReason # Absent,
      stamped |-> k.updateReason # Absent]

Standard == INSTANCE CredentialStandard
  WITH Id <- 1..MaxContracts,
       registry <- [m \in Mints |-> Standing(m)],
       submitters <- actAs

\* Every transaction on credentials is one the standard allows, submitted
\* by the parties it requires, and no other transaction changes what a
\* verifier can see of any credential.
ImplementsStandard == Standard!Spec
=============================================================================
