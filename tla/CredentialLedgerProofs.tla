----------------------- MODULE CredentialLedgerProofs -----------------------
(***************************************************************************)
(* Proofs about CredentialLedger, for all values of its constants: its     *)
(* invariants, its action properties, and that it implements               *)
(* CredentialStandard.                                                     *)
(*                                                                         *)
(* OneLivePerLineage and RevocationIsPermanent are not inductive by        *)
(* themselves: that a revoked credential has no unrevoked descendant is    *)
(* only preserved because siblings are made from the latest credential of  *)
(* a lineage.  IInv adds that the active credential is the latest of its   *)
(* lineage and that contract ids grow along it.                            *)
(*                                                                         *)
(* The argument for the invariants has two halves.  StepIsTransaction:     *)
(* every action commits a transaction whose new credentials are mints, or  *)
(* siblings of distinct active credentials that the same transaction       *)
(* archives. TransactionKeepsIInv: every such transaction preserves IInv.  *)
(***************************************************************************)
EXTENDS CredentialLedgerImplements, SequenceTheorems, TLAPS

-----------------------------------------------------------------------------
(* Transactions.                                                           *)

\* The i-th contract created succeeds credential c, which is archived.
Succeeds(i, c, consumed, produced, origins) ==
  /\ c \in Active("Credential")
  /\ c \in consumed
  /\ origins[i] = origin[c]
  /\ InScope(produced[i], ledger[c])
  /\ Revoked(c) => produced[i].revokeReason # Absent

\* `from' names the credential each new credential succeeds, if any.
Descends(consumed, produced, origins, from) ==
  /\ \A i \in 1..Len(produced) :
       produced[i].template = "Credential" =>
         \/ from[i] = NoContract /\ origins[i] = Len(ledger) + i
         \/ Succeeds(i, from[i], consumed, produced, origins)
  /\ \A i, j \in 1..Len(produced) :
       i # j => from[i] = NoContract \/ from[i] # from[j]

Transaction(act, consumed, produced, origins) ==
  /\ act \subseteq Party
  /\ produced \in Seq(Contract)
  /\ origins \in Seq(Nat)
  /\ Len(origins) = Len(produced)
  /\ \E from \in [1..Len(produced) -> Nat] :
       Descends(consumed, produced, origins, from)
  /\ Commit(act, consumed, produced, origins)

-----------------------------------------------------------------------------
(* The inductive invariant.                                                *)

\* A credential descends from an earlier credential with its own parties.
OriginIsEarlier ==
  \A c \in Created("Credential") :
    /\ origin[c] \in Created("Credential")
    /\ origin[c] <= c
    /\ InScope(ledger[c], ledger[origin[c]])

\* No sibling follows the active credential of a lineage.
ActiveIsLatest ==
  \A c \in Active("Credential") : \A d \in Lineage(c) : d <= c

IInv ==
  /\ TypeOK
  /\ OriginIsEarlier
  /\ ActiveIsLatest
  /\ RevocationIsPermanent

-----------------------------------------------------------------------------
(* Payloads.                                                               *)

\* The template field tells what kind of record a contract is.
LEMMA TemplateDecides ==
  ASSUME NEW k \in Contract
  PROVE  /\ k.template = "Credential" => k \in Credential
         /\ k.template = "CredentialFactory" => k \in CredentialFactory
         /\ k.template = "KycNFT" => k \in KycNFT
  BY DEF Contract, Credential, CredentialFactory, KycNFT

LEMMA ActiveCredential ==
  ASSUME TypeOK, NEW c \in Active("Credential")
  PROVE  /\ c \in active
         /\ c \in 1..Len(ledger)
         /\ c # NoContract
         /\ ledger[c] \in Credential
         /\ origin[c] \in Nat
  BY TemplateDecides DEF TypeOK, Active, Created, NoContract

-----------------------------------------------------------------------------
(* Every action is a transaction.                                          *)

\* A transaction that creates one contract.
LEMMA SingletonTransaction ==
  ASSUME TypeOK, NEW act \in SUBSET Party, NEW consumed,
         NEW k \in Contract, NEW o \in Nat, NEW c \in Nat,
         k.template = "Credential" =>
           \/ c = NoContract /\ o = Len(ledger) + 1
           \/ Succeeds(1, c, consumed, << k >>, << o >>),
         Commit(act, consumed, << k >>, << o >>)
  PROVE  \E produced, origins : Transaction(act, consumed, produced, origins)
  <1> DEFINE from == [i \in 1..1 |-> c]
  <1>1. /\ << k >> \in Seq(Contract) /\ Len(<< k >>) = 1 /\ << k >>[1] = k
        /\ << o >> \in Seq(Nat) /\ Len(<< o >>) = 1 /\ << o >>[1] = o
    OBVIOUS
  <1>2. Descends(consumed, << k >>, << o >>, from)
    <2> SUFFICES ASSUME NEW i \in 1..1, << k >>[i].template = "Credential"
                 PROVE  \/ from[i] = NoContract /\ << o >>[i] = Len(ledger) + i
                        \/ Succeeds(i, from[i], consumed, << k >>, << o >>)
      BY <1>1 DEF Descends
    <2>1. i = 1
      OBVIOUS
    <2> QED
      BY <1>1, <2>1
  <1>3. from \in [1..Len(<< k >>) -> Nat]
    BY <1>1
  <1> QED
    BY <1>1, <1>2, <1>3 DEF Transaction

\* A transaction that creates none.
LEMMA EmptyTransaction ==
  ASSUME NEW act \in SUBSET Party, NEW consumed,
         Commit(act, consumed, << >>, << >>)
  PROVE  \E produced, origins : Transaction(act, consumed, produced, origins)
  <1>1. << >> \in Seq(Contract) /\ << >> \in Seq(Nat) /\ Len(<< >>) = 0
    OBVIOUS
  <1>2. [i \in {} |-> 0] \in [1..0 -> Nat]
    OBVIOUS
  <1>3. Descends(consumed, << >>, << >>, [i \in {} |-> 0])
    BY <1>1 DEF Descends
  <1> QED
    BY <1>1, <1>2, <1>3 DEF Transaction

LEMMA CreateCredentialIsTransaction ==
  ASSUME TypeOK, NEW act \in SUBSET Party, NEW s \in Scope,
         NEW cl \in ClaimMap, NEW ex \in Expiry,
         CreateCredential(act, s, cl, ex)
  PROVE  \E consumed, produced, origins :
           Transaction(act, consumed, produced, origins)
  <1> DEFINE k == [template |-> "Credential", admin |-> s.admin,
                   issuer |-> s.issuer, holder |-> s.holder,
                   claims |-> cl, expiresAt |-> ex,
                   revokeReason |-> Absent, updateReason |-> Absent]
             n == Len(ledger) + 1
  <1>1. k \in Contract
    BY ScopeAssumption DEF CreateCredential, Contract, Credential
  <1>2. n \in Nat
    BY DEF TypeOK
  <1>3. Commit(act, {}, << k >>, << n >>)
    BY DEF CreateCredential
  <1>4. NoContract \in Nat
    BY DEF NoContract
  <1> HIDE DEF k
  <1> QED
    BY <1>1, <1>2, <1>3, <1>4, SingletonTransaction

LEMMA RevokeCredentialIsTransaction ==
  ASSUME TypeOK, NEW act \in SUBSET Party, NEW c \in Active("Credential"),
         NEW nft, NEW r \in Text, RevokeCredential(act, c, nft, r)
  PROVE  \E consumed, produced, origins :
           Transaction(act, consumed, produced, origins)
  <1> DEFINE k == [ledger[c] EXCEPT !.revokeReason = r]
  <1>1. ledger[c] \in Credential /\ origin[c] \in Nat /\ c \in Nat
    BY ActiveCredential
  <1>2. k \in Contract /\ InScope(k, ledger[c]) /\ k.revokeReason # Absent
    BY <1>1, TextAssumption DEF Contract, Credential, InScope
  <1>3. Commit(act, {c, nft}, << k >>, << origin[c] >>)
    BY DEF RevokeCredential
  <1> HIDE DEF k
  <1>4. Succeeds(1, c, {c, nft}, << k >>, << origin[c] >>)
    BY <1>1, <1>2 DEF Succeeds
  <1> QED
    BY <1>1, <1>2, <1>3, <1>4, SingletonTransaction

LEMMA UpdateCredentialsIsTransaction ==
  ASSUME TypeOK, NEW act \in SUBSET Party, NEW c \in Active("Credential"),
         NEW cl \in ClaimMap, NEW ex \in Expiry, NEW r \in Text,
         UpdateCredentials(act, c, cl, ex, r)
  PROVE  \E consumed, produced, origins :
           Transaction(act, consumed, produced, origins)
  <1> DEFINE k == [ledger[c] EXCEPT !.claims = cl, !.expiresAt = ex,
                                    !.updateReason = r]
  <1>1. ledger[c] \in Credential /\ origin[c] \in Nat /\ c \in Nat
    BY ActiveCredential
  <1>2. /\ k \in Contract
        /\ InScope(k, ledger[c])
        /\ Revoked(c) => k.revokeReason # Absent
    BY <1>1 DEF UpdateCredentials, Contract, Credential, InScope, Revoked
  <1>3. Commit(act, {c}, << k >>, << origin[c] >>)
    BY DEF UpdateCredentials
  <1> HIDE DEF k
  <1>4. Succeeds(1, c, {c}, << k >>, << origin[c] >>)
    BY <1>1, <1>2 DEF Succeeds
  <1> QED
    BY <1>1, <1>2, <1>3, <1>4, SingletonTransaction

LEMMA CreateFactoryIsTransaction ==
  ASSUME TypeOK, NEW act \in SUBSET Party, NEW s \in Scope,
         CreateFactory(act, s)
  PROVE  \E consumed, produced, origins :
           Transaction(act, consumed, produced, origins)
  <1> DEFINE k == [template |-> "CredentialFactory", admin |-> s.admin,
                   issuer |-> s.issuer, holder |-> s.holder]
  <1>1. k \in Contract /\ k.template # "Credential"
    BY ScopeAssumption DEF Contract, CredentialFactory
  <1>2. Commit(act, {}, << k >>, << 0 >>)
    BY DEF CreateFactory
  <1> HIDE DEF k
  <1> QED
    BY <1>1, <1>2, SingletonTransaction

LEMMA CreateKycNftIsTransaction ==
  ASSUME TypeOK, NEW act \in SUBSET Party, NEW p \in Party,
         NEW c \in Created("Credential"), CreateKycNft(act, p, c)
  PROVE  \E consumed, produced, origins :
           Transaction(act, consumed, produced, origins)
  <1> DEFINE k == [template |-> "KycNFT", issuer |-> p,
                   boundCredentialId |-> c]
  <1>1. k \in Contract /\ k.template # "Credential"
    BY DEF Contract, KycNFT, Created
  <1>2. Commit(act, {}, << k >>, << 0 >>)
    BY DEF CreateKycNft
  <1> HIDE DEF k
  <1> QED
    BY <1>1, <1>2, SingletonTransaction

\* Each entry of a bulk update finds its credential active, although the
\* entries before it have archived theirs, so the entries name distinct ones.
LEMMA FactoryUpdateIsTransaction ==
  ASSUME TypeOK, NEW act \in SUBSET Party,
         NEW f \in Active("CredentialFactory"), NEW updates \in BulkUpdates,
         FactoryUpdateCredentials(act, f, updates)
  PROVE  /\ updates \in Seq(Update)
         /\ Transaction(act,
              {f} \cup {updates[i].credentialId : i \in 1..Len(updates)},
              [i \in 1..Len(updates) |-> Rewritten(updates[i])],
              [i \in 1..Len(updates) |-> origin[updates[i].credentialId]])
  <1> DEFINE targets == {updates[i].credentialId : i \in 1..Len(updates)}
             consumed == {f} \cup targets
             produced == [i \in 1..Len(updates) |-> Rewritten(updates[i])]
             origins ==
               [i \in 1..Len(updates) |-> origin[updates[i].credentialId]]
             from == [i \in 1..Len(updates) |-> updates[i].credentialId]
  <1>1. updates \in Seq(Update)
    <2>1. PICK n \in 1..MaxUpdates : updates \in [1..n -> Update]
      BY DEF BulkUpdates
    <2>2. n \in Nat
      BY <2>1, BoundAssumption
    <2> QED
      BY <2>1, <2>2, SeqDef
  <1>2. /\ Len(updates) \in Nat
        /\ \A i \in 1..Len(updates) : updates[i] \in Update
    BY <1>1, LenProperties, ElementOfSeq
  <1>3. \A i \in 1..Len(updates) : Accepts(f, updates, i)
    BY DEF FactoryUpdateCredentials
  <1>4. ASSUME NEW i \in 1..Len(updates)
        PROVE  LET u == updates[i]
                   c == u.credentialId
               IN /\ c \in Active("Credential")
                  /\ c \in Nat
                  /\ origin[c] \in Nat
                  /\ Rewritten(u) \in Contract
                  /\ InScope(Rewritten(u), ledger[c])
                  /\ Revoked(c) => Rewritten(u).revokeReason # Absent
    <2> DEFINE u == updates[i]
               c == u.credentialId
    <2>1. c \in Active("Credential") /\ u.newClaims # NoClaims
      BY <1>3 DEF Accepts
    <2>2. u.newClaims \in ClaimMap /\ u.newExpiresAt \in Expiry
      BY <1>2 DEF Update
    <2>3. ledger[c] \in Credential /\ origin[c] \in Nat /\ c \in Nat
      BY <2>1, ActiveCredential
    <2> HIDE DEF c, u
    <2>4. /\ [ledger[c] EXCEPT !.claims = u.newClaims,
                               !.expiresAt = u.newExpiresAt] \in Credential
          /\ InScope([ledger[c] EXCEPT !.claims = u.newClaims,
                               !.expiresAt = u.newExpiresAt], ledger[c])
          /\ Revoked(c) => [ledger[c] EXCEPT !.claims = u.newClaims,
                      !.expiresAt = u.newExpiresAt].revokeReason # Absent
      BY <2>1, <2>2, <2>3 DEF Credential, InScope, Revoked
    <2> QED
      BY <2>1, <2>3, <2>4 DEF Rewritten, Contract, c, u
  <1>5. ASSUME NEW i \in 1..Len(updates), NEW j \in 1..Len(updates), i # j
        PROVE  updates[i].credentialId # updates[j].credentialId
    <2>1. CASE i < j
      BY <2>1, <1>2, <1>3 DEF Accepts
    <2>2. CASE j < i
      BY <2>2, <1>2, <1>3 DEF Accepts
    <2> QED
      BY <1>2, <1>5, <2>1, <2>2
  <1>6. /\ produced \in Seq(Contract) /\ Len(produced) = Len(updates)
        /\ origins \in Seq(Nat) /\ Len(origins) = Len(updates)
        /\ from \in [1..Len(updates) -> Nat]
    <2>1. produced \in [1..Len(updates) -> Contract]
      BY <1>4
    <2>2. origins \in [1..Len(updates) -> Nat]
      BY <1>4
    <2>3. from \in [1..Len(updates) -> Nat]
      BY <1>4
    <2> HIDE DEF produced, origins, from
    <2> QED
      BY <1>2, <2>1, <2>2, <2>3, SeqDef, LenProperties
  <1>7. Descends(consumed, produced, origins, from)
    <2>1. ASSUME NEW i \in 1..Len(produced)
          PROVE  Succeeds(i, from[i], consumed, produced, origins)
      <3>1. i \in 1..Len(updates)
        BY <1>6
      <3> QED
        BY <3>1, <1>4 DEF Succeeds
    <2>2. ASSUME NEW i \in 1..Len(produced), NEW j \in 1..Len(produced), i # j
          PROVE  from[i] # from[j]
      BY <1>5, <1>6, <2>2
    <2> HIDE DEF consumed, produced, origins, from
    <2> QED
      BY <2>1, <2>2 DEF Descends
  <1>8. Commit(act, consumed, produced, origins)
    BY DEF FactoryUpdateCredentials
  <1>9. Transaction(act, consumed, produced, origins)
    <2> HIDE DEF consumed, produced, origins, from
    <2> QED
      BY <1>6, <1>7, <1>8 DEF Transaction
  <1> QED
    BY <1>1, <1>9

LEMMA StepIsTransaction ==
  ASSUME TypeOK, Next
  PROVE  \E act, consumed, produced, origins :
           Transaction(act, consumed, produced, origins)
  <1>1. PICK act \in SUBSET Party :
          \/ CredentialNext(act)
          \/ FactoryNext(act)
          \/ NftNext(act)
          \/ \E c \in active : Archive(act, c)
    BY DEF Next
  <1>2. CASE CredentialNext(act)
    BY <1>2, CreateCredentialIsTransaction, RevokeCredentialIsTransaction,
       UpdateCredentialsIsTransaction, EmptyTransaction
       DEF CredentialNext, ArchiveAsHolder
  <1>3. CASE FactoryNext(act)
    BY <1>3, CreateFactoryIsTransaction, FactoryUpdateIsTransaction
       DEF FactoryNext
  <1>4. CASE NftNext(act)
    BY <1>4, CreateKycNftIsTransaction, EmptyTransaction DEF NftNext, BurnNft
  <1>5. CASE \E c \in active : Archive(act, c)
    BY <1>5, EmptyTransaction DEF Archive
  <1> QED
    BY <1>1, <1>2, <1>3, <1>4, <1>5

-----------------------------------------------------------------------------
(* Every transaction preserves the invariant.                              *)

LEMMA ActiveIsUnique ==
  ASSUME IInv, NEW c \in Active("Credential"), NEW d \in Active("Credential"),
         origin[c] = origin[d]
  PROVE  c = d
  <1>1. c \in Lineage(d) /\ d \in Lineage(c)
    BY DEF Lineage, Active
  <1>2. c \in Nat /\ d \in Nat
    BY ActiveCredential DEF IInv
  <1> QED
    BY <1>1, <1>2 DEF IInv, ActiveIsLatest

\* Appending K positions to N.
LEMMA Appended ==
  ASSUME NEW N \in Nat, NEW K \in Nat
  PROVE  /\ 1..N \subseteq 1..(N + K)
         /\ (N + 1 .. N + K) \subseteq 1..(N + K)
         /\ \A i \in 1..K : /\ N + i \in 1..(N + K)
                           /\ ~(N + i <= N)
                           /\ N + i - N = i
  OBVIOUS

\* What the ledger looks like after a commit.
LEMMA CommitAfter ==
  ASSUME TypeOK, NEW act \in SUBSET Party, NEW consumed,
         NEW produced \in Seq(Contract), NEW origins \in Seq(Nat),
         Len(origins) = Len(produced),
         Commit(act, consumed, produced, origins)
  PROVE  /\ Len(ledger) \in Nat /\ Len(produced) \in Nat
         /\ TypeOK'
         /\ Len(ledger') = Len(ledger) + Len(produced)
         /\ \A c \in 1..Len(ledger) :
              ledger'[c] = ledger[c] /\ origin'[c] = origin[c]
         /\ \A i \in 1..Len(produced) :
              /\ ledger'[Len(ledger) + i] = produced[i]
              /\ origin'[Len(ledger) + i] = origins[i]
  <1>1. /\ ledger \in Seq(Contract) /\ produced \in Seq(Contract)
        /\ origin \in Seq(Nat) /\ origins \in Seq(Nat)
        /\ Len(origin) = Len(ledger) /\ Len(origins) = Len(produced)
        /\ ledger' = ledger \o produced /\ origin' = origin \o origins
        /\ active' = (active \ consumed)
                       \cup (Len(ledger) + 1 .. Len(ledger) + Len(produced))
        /\ actAs' = act /\ act \subseteq Party
    BY DEF TypeOK, Commit
  <1>2. /\ Len(ledger) \in Nat /\ Len(produced) \in Nat
        /\ ledger' \in Seq(Contract)
        /\ Len(ledger') = Len(ledger) + Len(produced)
        /\ \A i \in 1 .. Len(ledger) + Len(produced) :
             ledger'[i] = IF i <= Len(ledger) THEN ledger[i]
                          ELSE produced[i - Len(ledger)]
    BY <1>1, ConcatProperties, LenProperties
  <1>3. /\ origin' \in Seq(Nat)
        /\ Len(origin') = Len(ledger) + Len(produced)
        /\ \A i \in 1 .. Len(ledger) + Len(produced) :
             origin'[i] = IF i <= Len(ledger) THEN origin[i]
                          ELSE origins[i - Len(ledger)]
    <2>1. origin \in Seq(Nat) /\ origins \in Seq(Nat)
      BY <1>1
    <2>2. /\ origin \o origins \in Seq(Nat)
          /\ Len(origin \o origins) = Len(origin) + Len(origins)
          /\ \A i \in 1 .. Len(origin) + Len(origins) :
               (origin \o origins)[i] = IF i <= Len(origin) THEN origin[i]
                                        ELSE origins[i - Len(origin)]
      BY <2>1, ConcatProperties, Zenon
    <2>3. /\ origin' = origin \o origins
          /\ Len(origin) = Len(ledger) /\ Len(origins) = Len(produced)
      BY <1>1
    <2> QED
      BY <2>2, <2>3, Zenon
  <1>4. active' \subseteq 1..Len(ledger')
    <2>1. /\ active \subseteq 1..Len(ledger)
          /\ active' = (active \ consumed)
                         \cup (Len(ledger) + 1 .. Len(ledger) + Len(produced))
          /\ Len(ledger') = Len(ledger) + Len(produced)
          /\ Len(ledger) \in Nat /\ Len(produced) \in Nat
      BY <1>1, <1>2 DEF TypeOK
    <2> QED
      BY <2>1, Appended, Zenon
  <1>5. TypeOK'
    BY <1>1, <1>2, <1>3, <1>4 DEF TypeOK
  <1>6. ASSUME NEW c \in 1..Len(ledger)
        PROVE  ledger'[c] = ledger[c] /\ origin'[c] = origin[c]
    BY <1>2, <1>3
  <1>7. ASSUME NEW i \in 1..Len(produced)
        PROVE  /\ ledger'[Len(ledger) + i] = produced[i]
               /\ origin'[Len(ledger) + i] = origins[i]
    <2>1. /\ Len(ledger) + i \in 1 .. Len(ledger) + Len(produced)
          /\ ~(Len(ledger) + i <= Len(ledger))
          /\ Len(ledger) + i - Len(ledger) = i
      BY <1>2, Appended, Zenon
    <2> DEFINE p == Len(ledger) + i
    <2>2. ledger'[p] = IF p <= Len(ledger) THEN ledger[p]
                       ELSE produced[p - Len(ledger)]
      BY <2>1, <1>2, Zenon
    <2>3. origin'[p] = IF p <= Len(ledger) THEN origin[p]
                       ELSE origins[p - Len(ledger)]
      BY <2>1, <1>3, Zenon
    <2> QED
      BY <2>1, <2>2, <2>3
  <1> QED
    BY <1>2, <1>5, <1>6, <1>7

LEMMA LedgerAfter ==
  ASSUME TypeOK, NEW act, NEW consumed, NEW produced, NEW origins,
         Transaction(act, consumed, produced, origins)
  PROVE  /\ Len(ledger) \in Nat /\ Len(produced) \in Nat
         /\ TypeOK'
         /\ Len(ledger') = Len(ledger) + Len(produced)
         /\ \A c \in 1..Len(ledger) :
              ledger'[c] = ledger[c] /\ origin'[c] = origin[c]
         /\ \A i \in 1..Len(produced) :
              /\ ledger'[Len(ledger) + i] = produced[i]
              /\ origin'[Len(ledger) + i] = origins[i]
  BY CommitAfter, Zenon DEF Transaction

LEMMA TransactionKeepsIInv ==
  ASSUME IInv, NEW act, NEW consumed, NEW produced, NEW origins,
         Transaction(act, consumed, produced, origins)
  PROVE  IInv'
  <1> DEFINE N == Len(ledger)
             K == Len(produced)
  <1>1. /\ N \in Nat /\ K \in Nat /\ Len(ledger') = N + K
        /\ TypeOK'
        /\ \A c \in 1..N : ledger'[c] = ledger[c] /\ origin'[c] = origin[c]
        /\ \A i \in 1..K : /\ ledger'[N + i] = produced[i]
                           /\ origin'[N + i] = origins[i]
    BY LedgerAfter DEF IInv
  <1>2. PICK from \in [1..K -> Nat] : Descends(consumed, produced, origins, from)
    BY DEF Transaction
  <1>3. active' = (active \ consumed) \cup (N + 1 .. N + K)
    BY DEF Transaction, Commit
  <1> DEFINE New(i) == i \in 1..K /\ produced[i].template = "Credential"
  <1>4. \A c \in Created("Credential")' :
          \/ c \in Created("Credential") /\ c \in 1..N
          \/ \E i \in 1..K : c = N + i /\ New(i)
    <2> SUFFICES ASSUME NEW c \in 1..(N + K), ledger'[c].template = "Credential"
                 PROVE  \/ c \in Created("Credential") /\ c \in 1..N
                        \/ \E i \in 1..K : c = N + i /\ New(i)
      BY <1>1 DEF Created
    <2>1. CASE c \in 1..N
      BY <2>1, <1>1 DEF Created
    <2>2. CASE c \notin 1..N
      <3>1. c - N \in 1..K /\ c = N + (c - N)
        BY <2>2, <1>1
      <3> QED
        BY <3>1, <1>1
    <2> QED
      BY <2>1, <2>2
  <1>5. \A c \in Created("Credential") :
          c \in 1..N /\ c \in Created("Credential")'
    BY <1>1 DEF Created
  <1>6. \A c \in Created("Credential") : origin[c] \in 1..N /\ origin[c] <= c
    BY <1>5 DEF IInv, OriginIsEarlier
  \* The two ways in which a new credential gets its origin.
  <1>7. ASSUME NEW i \in 1..K, New(i)
        PROVE  \/ from[i] = NoContract /\ origins[i] = N + i
               \/ Succeeds(i, from[i], consumed, produced, origins)
    BY <1>2, <1>7 DEF Descends
  <1>8. ASSUME NEW c \in Active("Credential")
        PROVE  c \in Created("Credential") /\ c \in 1..N /\ c # NoContract
    BY <1>5 DEF Active, Created, NoContract
  \* Two new credentials never share an origin.
  <1>9. ASSUME NEW i \in 1..K, NEW j \in 1..K, New(i), New(j),
               origins[i] = origins[j]
        PROVE  i = j
    <2>1. CASE /\ Succeeds(i, from[i], consumed, produced, origins)
               /\ Succeeds(j, from[j], consumed, produced, origins)
      <3>1. from[i] = from[j] /\ from[i] # NoContract
        BY <2>1, <1>8, <1>9, ActiveIsUnique DEF Succeeds
      <3> QED
        BY <3>1, <1>2 DEF Descends
    <2>2. CASE origins[i] = N + i /\ origins[j] = N + j
      <3>1. N + i = N + j /\ i \in Nat /\ j \in Nat
        BY <2>2, <1>1, <1>9
      <3> QED
        BY <3>1, <1>1
    <2>3. CASE /\ origins[i] = N + i
               /\ Succeeds(j, from[j], consumed, produced, origins)
      <3>1. origins[j] \in 1..N
        BY <2>3, <1>6, <1>8 DEF Succeeds
      <3> QED
        BY <3>1, <2>3, <1>1, <1>9
    <2>4. CASE /\ origins[j] = N + j
               /\ Succeeds(i, from[i], consumed, produced, origins)
      <3>1. origins[i] \in 1..N
        BY <2>4, <1>6, <1>8 DEF Succeeds
      <3> QED
        BY <3>1, <2>4, <1>1, <1>9
    <2> QED
      BY <2>1, <2>2, <2>3, <2>4, <1>7, <1>9
  \* A new credential whose origin an old one has succeeds the active one.
  <1>10. ASSUME NEW i \in 1..K, New(i), NEW c \in Created("Credential"),
                origins[i] = origin[c]
         PROVE  Succeeds(i, from[i], consumed, produced, origins)
    BY <1>1, <1>5, <1>6, <1>7, <1>10
  <1>11. OriginIsEarlier'
    <2> SUFFICES ASSUME NEW c \in Created("Credential")'
                 PROVE  /\ origin'[c] \in Created("Credential")'
                        /\ origin'[c] <= c
                        /\ InScope(ledger'[c], ledger'[origin'[c]])
      BY DEF OriginIsEarlier
    <2>1. CASE c \in Created("Credential") /\ c \in 1..N
      BY <2>1, <1>1, <1>5, <1>6 DEF IInv, OriginIsEarlier
    <2>2. ASSUME NEW i \in 1..K, c = N + i, New(i)
          PROVE  /\ origin'[c] \in Created("Credential")'
                 /\ origin'[c] <= c
                 /\ InScope(ledger'[c], ledger'[origin'[c]])
      <3>1. CASE origins[i] = N + i
        BY <3>1, <2>2, <1>1 DEF InScope
      <3>2. CASE Succeeds(i, from[i], consumed, produced, origins)
        <4> DEFINE e == from[i]
        <4>1. /\ e \in Created("Credential") /\ e \in 1..N
              /\ origins[i] = origin[e] /\ InScope(produced[i], ledger[e])
          BY <3>2, <1>8 DEF Succeeds
        <4>2. /\ origin[e] \in Created("Credential")
              /\ origin[e] \in 1..N /\ origin[e] <= e
              /\ InScope(ledger[e], ledger[origin[e]])
          BY <4>1, <1>6 DEF IInv, OriginIsEarlier
        <4>3. InScope(produced[i], ledger[origin[e]])
          BY <4>1, <4>2 DEF InScope
        <4> QED
          BY <4>1, <4>2, <4>3, <2>2, <1>1, <1>5
      <3> QED
        BY <3>1, <3>2, <2>2, <1>7
    <2> QED
      BY <2>1, <2>2, <1>4
  <1>12. ActiveIsLatest'
    <2> SUFFICES ASSUME NEW c \in Created("Credential")', c \in active',
                        NEW d \in Created("Credential")', origin'[d] = origin'[c]
                 PROVE  d <= c
      BY DEF ActiveIsLatest, Active, Lineage
    <2>1. CASE c \in Created("Credential") /\ c \in 1..N
      <3>1. c \in Active("Credential") /\ c \notin consumed
        BY <2>1, <1>1, <1>3 DEF Active
      <3>2. CASE d \in Created("Credential") /\ d \in 1..N
        BY <3>1, <3>2, <2>1, <1>1 DEF IInv, ActiveIsLatest, Lineage
      <3>3. ASSUME NEW i \in 1..K, d = N + i, New(i)
            PROVE  FALSE
        <4>1. Succeeds(i, from[i], consumed, produced, origins)
          BY <3>3, <2>1, <1>1, <1>10
        <4>2. from[i] = c
          BY <4>1, <3>1, <3>3, <2>1, <1>1, ActiveIsUnique DEF Succeeds
        <4> QED
          BY <4>1, <4>2, <3>1 DEF Succeeds
      <3> QED
        BY <3>2, <3>3, <1>4
    <2>2. ASSUME NEW j \in 1..K, c = N + j, New(j)
          PROVE  d <= c
      <3>1. CASE d \in Created("Credential") /\ d \in 1..N
        BY <3>1, <2>2, <1>1
      <3>2. ASSUME NEW i \in 1..K, d = N + i, New(i)
            PROVE  d <= c
        <4>1. i = j
          BY <3>2, <2>2, <1>1, <1>9
        <4> QED
          BY <4>1, <3>2, <2>2, <1>1
      <3> QED
        BY <3>1, <3>2, <1>4
    <2> QED
      BY <2>1, <2>2, <1>4
  <1>13. RevocationIsPermanent'
    <2> SUFFICES ASSUME NEW c \in Created("Credential")',
                        NEW d \in Created("Credential")', origin'[d] = origin'[c],
                        c < d, ledger'[c].revokeReason # Absent
                 PROVE  ledger'[d].revokeReason # Absent
      BY DEF RevocationIsPermanent, Lineage, Revoked
    <2>1. CASE d \in Created("Credential") /\ d \in 1..N
      <3>1. c \in Created("Credential") /\ c \in 1..N
        BY <2>1, <1>1, <1>4
      <3> QED
        BY <3>1, <2>1, <1>1 DEF IInv, RevocationIsPermanent, Lineage, Revoked
    <2>2. ASSUME NEW i \in 1..K, d = N + i, New(i)
          PROVE  ledger'[d].revokeReason # Absent
      <3>1. ASSUME NEW j \in 1..K, c = N + j, New(j)
            PROVE  FALSE
        BY <3>1, <2>2, <1>1, <1>9
      <3>2. CASE c \in Created("Credential") /\ c \in 1..N
        <4> DEFINE e == from[i]
        <4>1. Succeeds(i, e, consumed, produced, origins)
          BY <3>2, <2>2, <1>1, <1>10
        <4>2. /\ e \in Active("Credential") /\ e \in Created("Credential")
              /\ e \in 1..N /\ origin[e] = origin[c]
          BY <4>1, <3>2, <2>2, <1>1, <1>8 DEF Succeeds
        <4>3. c <= e
          BY <4>2, <3>2 DEF IInv, ActiveIsLatest, Lineage
        <4>4. Revoked(e)
          BY <4>2, <4>3, <3>2, <1>1
             DEF IInv, RevocationIsPermanent, Lineage, Revoked
        <4> QED
          BY <4>1, <4>4, <2>2, <1>1 DEF Succeeds
      <3> QED
        BY <3>1, <3>2, <1>4
    <2> QED
      BY <2>1, <2>2, <1>4
  <1> QED
    BY <1>1, <1>11, <1>12, <1>13 DEF IInv

-----------------------------------------------------------------------------
(* Theorems.                                                               *)

LEMMA Invariance == Spec => []IInv
  <1>1. Init => IInv
    BY DEF Init, IInv, TypeOK, OriginIsEarlier, ActiveIsLatest,
           RevocationIsPermanent, Created, Active, Lineage
  <1>2. IInv /\ [Next]_vars => IInv'
    <2> SUFFICES ASSUME IInv, [Next]_vars
                 PROVE  IInv'
      OBVIOUS
    <2>1. CASE Next
      BY <2>1, StepIsTransaction, TransactionKeepsIInv DEF IInv
    <2>2. CASE UNCHANGED vars
      BY <2>2 DEF vars, IInv, TypeOK, OriginIsEarlier, ActiveIsLatest,
                  RevocationIsPermanent, Created, Active, Lineage, Revoked,
                  InScope
    <2> QED
      BY <2>1, <2>2
  <1> QED
    BY <1>1, <1>2, PTL DEF Spec

\* Every reachable ledger is well typed: only contracts the templates allow
\* are ever created, credentials without claims among the ones they do not.
THEOREM TypeCorrect == Spec => []TypeOK
  BY Invariance, PTL DEF IInv

\* A minted credential has at most one active sibling, whatever sequence of
\* revokes, updates, bulk updates and archives is applied to it.
THEOREM NoFork == Spec => []OneLivePerLineage
  <1>1. IInv => OneLivePerLineage
    <2> SUFFICES ASSUME IInv, NEW c \in Active("Credential")
                 PROVE  Lineage(c) \cap active = {c}
      BY DEF OneLivePerLineage
    <2>1. c \in Lineage(c) \cap active
      BY DEF Active, Lineage
    <2>2. ASSUME NEW d \in Lineage(c) \cap active
          PROVE  d = c
      BY ActiveIsUnique DEF Active, Lineage
    <2> QED
      BY <2>1, <2>2
  <1> QED
    BY <1>1, Invariance, PTL

\* Siblings keep the admin, the issuer and the holder of their mint.
THEOREM PartiesNeverChange == Spec => []LineageKeepsItsParties
  <1>1. IInv => LineageKeepsItsParties
    BY DEF IInv, OriginIsEarlier, LineageKeepsItsParties
  <1> QED
    BY <1>1, Invariance, PTL

\* No sibling of a revoked credential is ever without the revoke stamp.
THEOREM RevocationNeverWashesOff == Spec => []RevocationIsPermanent
  BY Invariance, PTL DEF IInv

-----------------------------------------------------------------------------
(***************************************************************************)
(* The action properties: what a single transaction may never do, whoever  *)
(* submits it.                                                             *)
(*                                                                         *)
(* Each is proved choice by choice: Archives says which contracts a        *)
(* transaction takes out of the active set, and a contract's template      *)
(* tells which of them it can be.                                          *)
(***************************************************************************)

\* The properties, without the box.
StaysInScope ==
  \A f \in Active("CredentialFactory"), c \in Active("Credential") :
    f \notin active' /\ c \notin active' => InScope(ledger[c], ledger[f])

BurnsOnlyItsOwn ==
  \A n \in Active("KycNFT") :
    n \notin active' =>
      /\ \A c \in Active("Credential") \ active' :
           ledger[n].boundCredentialId = c
      /\ \/ ledger[n].issuer \in actAs'
         \/ ledger[n].issuer
              \in Signatories(ledger[ledger[n].boundCredentialId])

OnlyWithHolder ==
  \A c \in Active("Credential") :
    Lineage(c)' \cap active' = {} => ledger[c].holder \in actAs'

ConsentedOrStamped ==
  \A c \in Active("Credential") : \A d \in Lineage(c)' \cap active' :
    \/ ledger'[d].claims = ledger[c].claims
       /\ ledger'[d].expiresAt = ledger[c].expiresAt
    \/ ledger[c].holder \in actAs'
    \/ ledger'[d].updateReason \notin {Absent, NoText}

-----------------------------------------------------------------------------
(* What a transaction takes out and puts in.                               *)

\* A contract that is no longer active is one of those consumed.
LEMMA Archives ==
  ASSUME NEW act, NEW consumed, NEW produced, NEW origins,
         Commit(act, consumed, produced, origins), NEW c \in active,
         c \notin active'
  PROVE  c \in consumed
  BY DEF Commit

\* A contract has one template.
LEMMA ActiveTemplate ==
  ASSUME NEW t, NEW c \in Active(t)
  PROVE  c \in active /\ ledger[c].template = t
  BY DEF Active, Created

LEMMA ActiveIsNumbered ==
  ASSUME TypeOK, NEW c \in active
  PROVE  c \in 1..Len(ledger) /\ c # NoContract
  BY DEF TypeOK, NoContract

LEMMA CommitIsBySubmitters ==
  ASSUME NEW act, NEW consumed, NEW produced, NEW origins,
         Commit(act, consumed, produced, origins)
  PROVE  actAs' = act
  BY DEF Commit

\* What an appended contract and an old one look like after a transaction that
\* creates one contract.
LEMMA OneCreated ==
  ASSUME TypeOK, NEW act, NEW consumed, NEW k, NEW o,
         Commit(act, consumed, << k >>, << o >>)
  PROVE  /\ Len(ledger) \in Nat
         /\ Len(ledger') = Len(ledger) + 1
         /\ Len(ledger) + 1 \in active'
         /\ active' = (active \ consumed) \cup {Len(ledger) + 1}
         /\ ledger'[Len(ledger) + 1] = k
         /\ origin'[Len(ledger) + 1] = o
         /\ \A c \in 1..Len(ledger) :
              ledger'[c] = ledger[c] /\ origin'[c] = origin[c]
  <1>1. /\ ledger \in Seq(Contract) /\ origin \in Seq(Nat)
        /\ Len(origin) = Len(ledger)
        /\ ledger' = Append(ledger, k) /\ origin' = Append(origin, o)
        /\ Len(<< k >>) = 1
        /\ active' = (active \ consumed)
                       \cup (Len(ledger) + 1 .. Len(ledger) + 1)
    BY DEF TypeOK, Commit
  <1>2. Len(ledger) \in Nat
    BY <1>1
  <1>3. Len(ledger) + 1 .. Len(ledger) + 1 = {Len(ledger) + 1}
    BY <1>2
  <1> QED
    BY <1>1, <1>2, <1>3

-----------------------------------------------------------------------------
(* Factories and NFTs.                                                     *)

\* Of a transaction that archives one contract besides an NFT it may burn.
LEMMA FactoryUpdateStays ==
  ASSUME TypeOK, NEW act \in SUBSET Party,
         NEW g \in Active("CredentialFactory"), NEW updates \in BulkUpdates,
         FactoryUpdateCredentials(act, g, updates),
         NEW c \in Active("Credential"), c \notin active'
  PROVE  /\ InScope(ledger[c], ledger[g])
         /\ ledger[c].holder \in act
         /\ \E i \in 1..Len(updates) :
              updates[i].credentialId = c /\ Accepts(g, updates, i)
  <1>1. c \in {g} \cup {updates[i].credentialId : i \in 1..Len(updates)}
    BY Archives, ActiveTemplate DEF FactoryUpdateCredentials
  <1>2. c # g
    BY ActiveTemplate
  <1>3. PICK i \in 1..Len(updates) : updates[i].credentialId = c
    BY <1>1, <1>2
  <1>4. Accepts(g, updates, i)
    BY DEF FactoryUpdateCredentials
  <1>5. InScope(ledger[c], ledger[g]) /\ {ledger[g].issuer, ledger[g].holder} \subseteq act
    BY <1>3, <1>4 DEF Accepts, FactoryUpdateCredentials
  <1> QED
    BY <1>3, <1>4, <1>5 DEF InScope

LEMMA StepStaysInScope ==
  ASSUME TypeOK, Next
  PROVE  StaysInScope
  <1> SUFFICES ASSUME NEW f \in Active("CredentialFactory"),
                      NEW c \in Active("Credential"),
                      f \notin active', c \notin active'
               PROVE  InScope(ledger[c], ledger[f])
    BY DEF StaysInScope
  <1>1. PICK act \in SUBSET Party :
          \/ CredentialNext(act)
          \/ FactoryNext(act)
          \/ NftNext(act)
          \/ \E x \in active : Archive(act, x)
    BY DEF Next
  <1>2. /\ f \in active /\ ledger[f].template = "CredentialFactory"
        /\ c \in active /\ ledger[c].template = "Credential"
    BY ActiveTemplate
  <1>3. CASE CredentialNext(act)
    <2>1. ASSUME NEW s \in Scope, NEW cl \in ClaimMap, NEW ex \in Expiry,
                 CreateCredential(act, s, cl, ex)
          PROVE  FALSE
      BY <2>1, <1>2, Archives DEF CreateCredential
    <2>2. ASSUME NEW x \in Active("Credential"),
                 NEW nft \in Created("KycNFT") \cup {NoContract}, NEW r \in Text,
                 RevokeCredential(act, x, nft, r)
          PROVE  FALSE
      <3>1. f \in {x, nft}
        BY <2>2, <1>2, Archives DEF RevokeCredential
      <3>2. ledger[x].template = "Credential"
        BY ActiveTemplate
      <3>3. f = nft /\ nft \in Created("KycNFT")
        BY <3>1, <3>2, <1>2, ActiveIsNumbered
      <3> QED
        BY <3>3, <1>2 DEF Created
    <2>3. ASSUME NEW x \in Active("Credential"), NEW cl \in ClaimMap,
                 NEW ex \in Expiry, NEW r \in Text,
                 UpdateCredentials(act, x, cl, ex, r)
          PROVE  FALSE
      BY <2>3, <1>2, Archives, ActiveTemplate DEF UpdateCredentials
    <2>4. ASSUME NEW x \in Active("Credential"), ArchiveAsHolder(act, x)
          PROVE  FALSE
      BY <2>4, <1>2, Archives, ActiveTemplate DEF ArchiveAsHolder
    <2> QED
      BY <1>3, <2>1, <2>2, <2>3, <2>4 DEF CredentialNext
  <1>4. CASE FactoryNext(act)
    <2>1. ASSUME NEW s \in Scope, CreateFactory(act, s)
          PROVE  FALSE
      BY <2>1, <1>2, Archives DEF CreateFactory
    <2>2. ASSUME NEW g \in Active("CredentialFactory"),
                 NEW updates \in BulkUpdates,
                 FactoryUpdateCredentials(act, g, updates)
          PROVE  InScope(ledger[c], ledger[f])
      <3>1. f \in {g} \cup {updates[i].credentialId : i \in 1..Len(updates)}
        BY <2>2, <1>2, Archives DEF FactoryUpdateCredentials
      <3>2. \A i \in 1..Len(updates) :
              ledger[updates[i].credentialId].template = "Credential"
        BY <2>2, ActiveTemplate DEF FactoryUpdateCredentials, Accepts
      <3>3. f = g
        BY <3>1, <3>2, <1>2
      <3> QED
        BY <3>3, <2>2, FactoryUpdateStays
    <2> QED
      BY <1>4, <2>1, <2>2 DEF FactoryNext
  <1>5. CASE NftNext(act)
    <2>1. ASSUME NEW p \in Party, NEW x \in Created("Credential"),
                 CreateKycNft(act, p, x)
          PROVE  FALSE
      BY <2>1, <1>2, Archives DEF CreateKycNft
    <2>2. ASSUME NEW n \in Active("KycNFT"), BurnNft(act, n)
          PROVE  FALSE
      BY <2>2, <1>2, Archives, ActiveTemplate DEF BurnNft
    <2> QED
      BY <1>5, <2>1, <2>2 DEF NftNext
  <1>6. CASE \E x \in active : Archive(act, x)
    BY <1>6, <1>2, Archives DEF Archive
  <1> QED
    BY <1>1, <1>3, <1>4, <1>5, <1>6

LEMMA StepBurnsOnlyItsOwn ==
  ASSUME TypeOK, Next
  PROVE  BurnsOnlyItsOwn
  <1> SUFFICES ASSUME NEW n \in Active("KycNFT"), n \notin active'
               PROVE  /\ \A c \in Active("Credential") \ active' :
                           ledger[n].boundCredentialId = c
                      /\ \/ ledger[n].issuer \in actAs'
                         \/ ledger[n].issuer
                              \in Signatories(ledger[ledger[n].boundCredentialId])
    BY DEF BurnsOnlyItsOwn
  <1>1. PICK act \in SUBSET Party :
          \/ CredentialNext(act)
          \/ FactoryNext(act)
          \/ NftNext(act)
          \/ \E x \in active : Archive(act, x)
    BY DEF Next
  <1>2. n \in active /\ ledger[n].template = "KycNFT"
    BY ActiveTemplate
  <1> DEFINE Gone == Active("Credential") \ active'
  <1>3. \A c \in Gone : c \in active /\ c \notin active'
                        /\ ledger[c].template = "Credential"
    BY ActiveTemplate
  <1> HIDE DEF Gone
  <1>4. CASE CredentialNext(act)
    <2>1. ASSUME NEW s \in Scope, NEW cl \in ClaimMap, NEW ex \in Expiry,
                 CreateCredential(act, s, cl, ex)
          PROVE  FALSE
      BY <2>1, <1>2, Archives DEF CreateCredential
    <2>2. ASSUME NEW x \in Active("Credential"),
                 NEW nft \in Created("KycNFT") \cup {NoContract}, NEW r \in Text,
                 RevokeCredential(act, x, nft, r)
          PROVE  /\ \A c \in Gone : ledger[n].boundCredentialId = c
                 /\ ledger[n].issuer
                      \in Signatories(ledger[ledger[n].boundCredentialId])
      <3>1. \A c \in active : c \notin active' => c \in {x, nft}
        BY <2>2, Archives DEF RevokeCredential
      <3>2. ledger[x].template = "Credential"
        BY ActiveTemplate
      <3>3. n = nft /\ nft # NoContract
        BY <3>1, <3>2, <1>2, ActiveIsNumbered
      <3>4. Cascades(nft, x)
        BY <3>3, <2>2 DEF RevokeCredential
      <3>5. /\ ledger[n].boundCredentialId = x
            /\ ledger[n].issuer \in Signatories(ledger[x])
        BY <3>3, <3>4 DEF Cascades
      <3>6. \A c \in Gone : c = x
        BY <3>1, <3>3, <1>2, <1>3
      <3> QED
        BY <3>5, <3>6
    <2>3. ASSUME NEW x \in Active("Credential"), NEW cl \in ClaimMap,
                 NEW ex \in Expiry, NEW r \in Text,
                 UpdateCredentials(act, x, cl, ex, r)
          PROVE  FALSE
      BY <2>3, <1>2, Archives, ActiveTemplate DEF UpdateCredentials
    <2>4. ASSUME NEW x \in Active("Credential"), ArchiveAsHolder(act, x)
          PROVE  FALSE
      BY <2>4, <1>2, Archives, ActiveTemplate DEF ArchiveAsHolder
    <2> QED
      BY <1>4, <2>1, <2>2, <2>3, <2>4 DEF CredentialNext, Gone
  <1>5. CASE FactoryNext(act)
    <2>1. ASSUME NEW s \in Scope, CreateFactory(act, s)
          PROVE  FALSE
      BY <2>1, <1>2, Archives DEF CreateFactory
    <2>2. ASSUME NEW g \in Active("CredentialFactory"),
                 NEW updates \in BulkUpdates,
                 FactoryUpdateCredentials(act, g, updates)
          PROVE  FALSE
      <3>1. n \in {g} \cup {updates[i].credentialId : i \in 1..Len(updates)}
        BY <2>2, <1>2, Archives DEF FactoryUpdateCredentials
      <3>2. \A i \in 1..Len(updates) :
              ledger[updates[i].credentialId].template = "Credential"
        BY <2>2, ActiveTemplate DEF FactoryUpdateCredentials, Accepts
      <3> QED
        BY <3>1, <3>2, <1>2, ActiveTemplate
    <2> QED
      BY <1>5, <2>1, <2>2 DEF FactoryNext
  <1>6. CASE NftNext(act)
    <2>1. ASSUME NEW p \in Party, NEW x \in Created("Credential"),
                 CreateKycNft(act, p, x)
          PROVE  FALSE
      BY <2>1, <1>2, Archives DEF CreateKycNft
    <2>2. ASSUME NEW x \in Active("KycNFT"), BurnNft(act, x)
          PROVE  Gone = {} /\ ledger[n].issuer \in actAs'
      <3>1. /\ \A c \in active : c \notin active' => c \in {x}
            /\ actAs' = act
        BY <2>2, Archives, CommitIsBySubmitters DEF BurnNft
      <3>2. ledger[x].template = "KycNFT" /\ ledger[x].issuer \in act
        BY <2>2, ActiveTemplate DEF BurnNft
      <3> QED
        BY <3>1, <3>2, <1>2, <1>3
    <2> QED
      BY <1>6, <2>1, <2>2 DEF NftNext, Gone
  <1>7. CASE \E x \in active : Archive(act, x)
    <2>1. PICK x \in active : Archive(act, x)
      BY <1>7
    <2>2. /\ \A c \in active : c \notin active' => c \in {x}
          /\ actAs' = act /\ Signatories(ledger[x]) \subseteq act
      BY <2>1, Archives, CommitIsBySubmitters DEF Archive
    <2>3. n = x /\ Gone = {}
      BY <2>2, <1>2, <1>3
    <2>4. ledger[n].issuer \in Signatories(ledger[n])
      BY <1>2 DEF Signatories
    <2> QED
      BY <2>2, <2>3, <2>4 DEF Gone
  <1> QED
    BY <1>1, <1>4, <1>5, <1>6, <1>7
-----------------------------------------------------------------------------
(* Consent.                                                                *)

\* After a transaction that archives credential c and appends its sibling, the
\* sibling is the active credential of c's lineage.
LEMMA SiblingFollows ==
  ASSUME TypeOK, NEW c \in Active("Credential"), NEW act, NEW consumed, NEW k,
         k.template = "Credential", Commit(act, consumed, << k >>, << origin[c] >>)
  PROVE  Len(ledger) + 1 \in Lineage(c)' \cap active'
  <1>1. /\ Len(ledger) \in Nat /\ Len(ledger') = Len(ledger) + 1
        /\ Len(ledger) + 1 \in active'
        /\ ledger'[Len(ledger) + 1] = k
        /\ origin'[Len(ledger) + 1] = origin[c]
        /\ origin'[c] = origin[c]
    BY OneCreated, ActiveCredential
  <1>2. Len(ledger) + 1 \in Created("Credential")'
    BY <1>1 DEF Created
  <1> QED
    BY <1>1, <1>2 DEF Lineage

LEMMA StepIsOnlyWithHolder ==
  ASSUME TypeOK, Next
  PROVE  OnlyWithHolder
  <1> SUFFICES ASSUME NEW c \in Active("Credential"),
                      Lineage(c)' \cap active' = {}
               PROVE  ledger[c].holder \in actAs'
    BY DEF OnlyWithHolder
  <1>1. PICK act \in SUBSET Party :
          \/ CredentialNext(act)
          \/ FactoryNext(act)
          \/ NftNext(act)
          \/ \E x \in active : Archive(act, x)
    BY DEF Next
  <1>2. c \in active /\ ledger[c].template = "Credential"
    BY ActiveTemplate
  <1>3. c \notin active'
    <2>1. PICK by, consumed, produced, origins :
            Transaction(by, consumed, produced, origins)
      BY StepIsTransaction
    <2>2. c \in 1..Len(ledger) /\ c \in 1..Len(ledger')
          /\ ledger'[c] = ledger[c]
      BY <2>1, LedgerAfter, ActiveCredential
    <2>3. c \in Lineage(c)'
      BY <2>2, <1>2 DEF Lineage, Created
    <2> QED
      BY <2>3
  <1>4. CASE CredentialNext(act)
    <2>1. ASSUME NEW s \in Scope, NEW cl \in ClaimMap, NEW ex \in Expiry,
                 CreateCredential(act, s, cl, ex)
          PROVE  FALSE
      BY <2>1, <1>2, <1>3, Archives DEF CreateCredential
    <2>2. ASSUME NEW x \in Active("Credential"),
                 NEW nft \in Created("KycNFT") \cup {NoContract}, NEW r \in Text,
                 RevokeCredential(act, x, nft, r)
          PROVE  FALSE
      <3>1. c \in {x, nft}
        BY <2>2, <1>2, <1>3, Archives DEF RevokeCredential
      <3>2. c # nft
        BY <1>2, ActiveIsNumbered DEF Created
      <3>3. ledger[c] \in Credential
        BY ActiveCredential
      <3> DEFINE k == [ledger[c] EXCEPT !.revokeReason = r]
      <3>4. k.template = "Credential"
        BY <3>3, <1>2 DEF Credential
      <3>5. Commit(act, {x, nft}, << k >>, << origin[c] >>)
        BY <2>2, <3>1, <3>2 DEF RevokeCredential
      <3> HIDE DEF k
      <3> QED
        BY <3>4, <3>5, SiblingFollows
    <2>3. ASSUME NEW x \in Active("Credential"), NEW cl \in ClaimMap,
                 NEW ex \in Expiry, NEW r \in Text,
                 UpdateCredentials(act, x, cl, ex, r)
          PROVE  FALSE
      <3>1. c = x
        BY <2>3, <1>2, <1>3, Archives DEF UpdateCredentials
      <3>2. ledger[c] \in Credential
        BY ActiveCredential
      <3> DEFINE k == [ledger[c] EXCEPT !.claims = cl, !.expiresAt = ex,
                                        !.updateReason = r]
      <3>3. k.template = "Credential"
        BY <3>2, <1>2 DEF Credential
      <3>4. Commit(act, {x}, << k >>, << origin[c] >>)
        BY <2>3, <3>1 DEF UpdateCredentials
      <3> HIDE DEF k
      <3> QED
        BY <3>3, <3>4, SiblingFollows
    <2>4. ASSUME NEW x \in Active("Credential"), ArchiveAsHolder(act, x)
          PROVE  ledger[c].holder \in actAs'
      BY <2>4, <1>2, <1>3, Archives, CommitIsBySubmitters DEF ArchiveAsHolder
    <2> QED
      BY <1>4, <2>1, <2>2, <2>3, <2>4 DEF CredentialNext
  <1>5. CASE FactoryNext(act)
    <2>1. ASSUME NEW s \in Scope, CreateFactory(act, s)
          PROVE  FALSE
      BY <2>1, <1>2, <1>3, Archives DEF CreateFactory
    <2>2. ASSUME NEW g \in Active("CredentialFactory"),
                 NEW updates \in BulkUpdates,
                 FactoryUpdateCredentials(act, g, updates)
          PROVE  ledger[c].holder \in actAs'
      <3>1. actAs' = act
        BY <2>2, CommitIsBySubmitters DEF FactoryUpdateCredentials
      <3> QED
        BY <2>2, <3>1, <1>3, FactoryUpdateStays
    <2> QED
      BY <1>5, <2>1, <2>2 DEF FactoryNext
  <1>6. CASE NftNext(act)
    <2>1. ASSUME NEW p \in Party, NEW x \in Created("Credential"),
                 CreateKycNft(act, p, x)
          PROVE  FALSE
      BY <2>1, <1>2, <1>3, Archives DEF CreateKycNft
    <2>2. ASSUME NEW n \in Active("KycNFT"), BurnNft(act, n)
          PROVE  FALSE
      BY <2>2, <1>2, <1>3, Archives, ActiveTemplate DEF BurnNft
    <2> QED
      BY <1>6, <2>1, <2>2 DEF NftNext
  <1>7. CASE \E x \in active : Archive(act, x)
    <2>1. PICK x \in active : Archive(act, x)
      BY <1>7
    <2>2. /\ c = x
          /\ actAs' = act /\ Signatories(ledger[x]) \subseteq act
      BY <2>1, <1>2, <1>3, Archives, CommitIsBySubmitters DEF Archive
    <2> QED
      BY <2>2, <1>2 DEF Signatories
  <1> QED
    BY <1>1, <1>4, <1>5, <1>6, <1>7

\* An active credential of c's lineage that was there before is c itself.
LEMMA OldSiblingIsItself ==
  ASSUME IInv, NEW act, NEW consumed, NEW produced, NEW origins,
         Transaction(act, consumed, produced, origins),
         NEW c \in Active("Credential"), NEW d \in Lineage(c)' \cap active',
         d \in 1..Len(ledger)
  PROVE  d = c /\ ledger'[d] = ledger[c]
  <1>1. /\ Len(ledger) \in Nat /\ Len(produced) \in Nat
        /\ \A x \in 1..Len(ledger) :
             ledger'[x] = ledger[x] /\ origin'[x] = origin[x]
    BY LedgerAfter DEF IInv
  <1>2. c \in 1..Len(ledger)
    BY ActiveCredential DEF IInv
  <1>3. d \in active
    <2>1. d \notin Len(ledger) + 1 .. Len(ledger) + Len(produced)
      BY <1>1
    <2> QED
      BY <2>1 DEF Transaction, Commit
  <1>4. d \in Created("Credential") /\ origin[d] = origin[c]
    BY <1>1, <1>2 DEF Lineage, Created
  <1> QED
    BY <1>1, <1>3, <1>4, ActiveIsUnique DEF Active

\* The one contract a transaction creates is of c's lineage only if it is the
\* sibling of c.
LEMMA NewSibling ==
  ASSUME IInv, NEW c \in Active("Credential"), NEW act, NEW consumed, NEW k, NEW o,
         Commit(act, consumed, << k >>, << o >>),
         NEW d \in Lineage(c)' \cap active', d \notin 1..Len(ledger)
  PROVE  /\ ledger'[d] = k /\ k.template = "Credential"
         /\ o = origin[c]
         /\ origin[c] \in 1..Len(ledger)
  <1>1. /\ Len(ledger) \in Nat /\ Len(ledger') = Len(ledger) + 1
        /\ ledger'[Len(ledger) + 1] = k
        /\ origin'[Len(ledger) + 1] = o
        /\ origin'[c] = origin[c]
    BY OneCreated, ActiveCredential DEF IInv
  <1>2. d \in 1..Len(ledger') /\ ledger'[d].template = "Credential"
        /\ origin'[d] = origin'[c]
    BY DEF Lineage, Created
  <1>3. d = Len(ledger) + 1
    BY <1>1, <1>2
  <1>4. origin[c] \in 1..Len(ledger)
    BY DEF IInv, OriginIsEarlier, Created, Active
  <1> QED
    BY <1>1, <1>2, <1>3, <1>4

LEMMA StepIsConsentedOrStamped ==
  ASSUME IInv, Next
  PROVE  ConsentedOrStamped
  <1> SUFFICES ASSUME NEW c \in Active("Credential"),
                      NEW d \in Lineage(c)' \cap active'
               PROVE  \/ ledger'[d].claims = ledger[c].claims
                         /\ ledger'[d].expiresAt = ledger[c].expiresAt
                      \/ ledger[c].holder \in actAs'
                      \/ ledger'[d].updateReason \notin {Absent, NoText}
    BY DEF ConsentedOrStamped
  <1>1. PICK act \in SUBSET Party :
          \/ CredentialNext(act)
          \/ FactoryNext(act)
          \/ NftNext(act)
          \/ \E x \in active : Archive(act, x)
    BY DEF Next
  <1>2. c \in active /\ ledger[c] \in Credential
    BY ActiveCredential DEF IInv
  <1>3. CASE d \in 1..Len(ledger)
    BY <1>3, StepIsTransaction, OldSiblingIsItself DEF IInv
  <1>4. d \in 1..Len(ledger') /\ ledger'[d].template = "Credential"
    BY DEF Lineage, Created
  <1> SUFFICES ASSUME d \notin 1..Len(ledger)
               PROVE  \/ ledger'[d].claims = ledger[c].claims
                         /\ ledger'[d].expiresAt = ledger[c].expiresAt
                      \/ ledger[c].holder \in actAs'
                      \/ ledger'[d].updateReason \notin {Absent, NoText}
    BY <1>3
  <1>5. ASSUME NEW consumed, Commit(act, consumed, << >>, << >>)
        PROVE  FALSE
    BY <1>4, <1>5 DEF Commit, IInv, TypeOK
  <1>6. CASE CredentialNext(act)
    <2>1. ASSUME NEW s \in Scope, NEW cl \in ClaimMap, NEW ex \in Expiry,
                 CreateCredential(act, s, cl, ex)
          PROVE  FALSE
      <3>1. Len(ledger) + 1 = origin[c] /\ origin[c] \in 1..Len(ledger)
        BY <2>1, NewSibling DEF CreateCredential
      <3> QED
        BY <3>1 DEF IInv, TypeOK
    <2>2. ASSUME NEW x \in Active("Credential"),
                 NEW nft \in Created("KycNFT") \cup {NoContract}, NEW r \in Text,
                 RevokeCredential(act, x, nft, r)
          PROVE  /\ ledger'[d].claims = ledger[c].claims
                 /\ ledger'[d].expiresAt = ledger[c].expiresAt
      <3> DEFINE k == [ledger[x] EXCEPT !.revokeReason = r]
      <3>1. Commit(act, {x, nft}, << k >>, << origin[x] >>)
        BY <2>2 DEF RevokeCredential
      <3>2. ledger[x] \in Credential
        BY ActiveCredential DEF IInv
      <3>3. k.claims = ledger[x].claims /\ k.expiresAt = ledger[x].expiresAt
        BY <3>2 DEF Credential
      <3> HIDE DEF k
      <3>4. ledger'[d] = k /\ origin[x] = origin[c]
        BY <3>1, NewSibling
      <3>5. x = c
        BY <3>4, ActiveIsUnique
      <3> QED
        BY <3>3, <3>4, <3>5
    <2>3. ASSUME NEW x \in Active("Credential"), NEW cl \in ClaimMap,
                 NEW ex \in Expiry, NEW r \in Text,
                 UpdateCredentials(act, x, cl, ex, r)
          PROVE  ledger'[d].updateReason \notin {Absent, NoText}
      <3> DEFINE k == [ledger[x] EXCEPT !.claims = cl, !.expiresAt = ex,
                                        !.updateReason = r]
      <3>1. Commit(act, {x}, << k >>, << origin[x] >>) /\ r # NoText
        BY <2>3 DEF UpdateCredentials
      <3>2. ledger[x] \in Credential
        BY ActiveCredential DEF IInv
      <3>3. k.updateReason = r
        BY <3>2 DEF Credential
      <3> HIDE DEF k
      <3>4. ledger'[d] = k
        BY <3>1, NewSibling
      <3> QED
        BY <3>1, <3>3, <3>4, TextAssumption
    <2>4. ASSUME NEW x \in Active("Credential"), ArchiveAsHolder(act, x)
          PROVE  FALSE
      BY <2>4, <1>5 DEF ArchiveAsHolder
    <2> QED
      BY <1>6, <2>1, <2>2, <2>3, <2>4 DEF CredentialNext
  <1>7. CASE FactoryNext(act)
    <2>1. ASSUME NEW s \in Scope, CreateFactory(act, s)
          PROVE  FALSE
      <3> DEFINE k == [template |-> "CredentialFactory", admin |-> s.admin,
                       issuer |-> s.issuer, holder |-> s.holder]
      <3>1. Commit(act, {}, << k >>, << 0 >>) /\ k.template # "Credential"
        BY <2>1 DEF CreateFactory
      <3> HIDE DEF k
      <3> QED
        BY <3>1, NewSibling
    <2>2. ASSUME NEW g \in Active("CredentialFactory"),
                 NEW updates \in BulkUpdates,
                 FactoryUpdateCredentials(act, g, updates)
          PROVE  ledger[c].holder \in actAs'
      <3> DEFINE K == Len(updates)
                 consumed == {g} \cup {updates[i].credentialId : i \in 1..K}
                 produced == [i \in 1..K |-> Rewritten(updates[i])]
                 origins == [i \in 1..K |-> origin[updates[i].credentialId]]
      <3>1. /\ K \in Nat /\ Len(produced) = K
            /\ Transaction(act, consumed, produced, origins)
        <4>1. TypeOK /\ act \in SUBSET Party
          BY DEF IInv
        <4>2. /\ updates \in Seq(Update)
              /\ Transaction(act, consumed, produced, origins)
          BY <2>2, <4>1, FactoryUpdateIsTransaction
        <4>3. K \in Nat
          BY <4>2, LenProperties
        <4> QED
          BY <4>2, <4>3
      <3>2. /\ Len(ledger) \in Nat /\ Len(ledger') = Len(ledger) + K
            /\ \A x \in 1..Len(ledger) : origin'[x] = origin[x]
            /\ \A i \in 1..K : origin'[Len(ledger) + i] = origins[i]
        <4> HIDE DEF K, consumed, produced, origins
        <4> QED
          BY <3>1, LedgerAfter DEF IInv
      <3>3. PICK i \in 1..K : d = Len(ledger) + i
        <4>1. d - Len(ledger) \in 1..K /\ d = Len(ledger) + (d - Len(ledger))
          BY <3>1, <3>2, <1>4
        <4> QED
          BY <4>1
      <3>4. origin'[d] = origin[updates[i].credentialId]
        BY <3>2, <3>3
      <3>5. origin'[d] = origin[c]
        BY <3>2, ActiveCredential DEF Lineage, IInv
      <3>6. Accepts(g, updates, i) /\ {ledger[g].issuer, ledger[g].holder} \subseteq act
        BY <2>2 DEF FactoryUpdateCredentials
      <3>7. updates[i].credentialId = c
        BY <3>4, <3>5, <3>6, ActiveIsUnique DEF Accepts
      <3>8. actAs' = act
        BY <2>2, CommitIsBySubmitters DEF FactoryUpdateCredentials
      <3> QED
        BY <3>6, <3>7, <3>8 DEF Accepts, InScope
    <2> QED
      BY <1>7, <2>1, <2>2 DEF FactoryNext
  <1>8. CASE NftNext(act)
    <2>1. ASSUME NEW p \in Party, NEW x \in Created("Credential"),
                 CreateKycNft(act, p, x)
          PROVE  FALSE
      <3> DEFINE k == [template |-> "KycNFT", issuer |-> p,
                       boundCredentialId |-> x]
      <3>1. Commit(act, {}, << k >>, << 0 >>) /\ k.template # "Credential"
        BY <2>1 DEF CreateKycNft
      <3> HIDE DEF k
      <3> QED
        BY <3>1, NewSibling
    <2>2. ASSUME NEW n \in Active("KycNFT"), BurnNft(act, n)
          PROVE  FALSE
      BY <2>2, <1>5 DEF BurnNft
    <2> QED
      BY <1>8, <2>1, <2>2 DEF NftNext
  <1>9. CASE \E x \in active : Archive(act, x)
    BY <1>9, <1>5 DEF Archive
  <1> QED
    BY <1>1, <1>6, <1>7, <1>8, <1>9

-----------------------------------------------------------------------------
(* Theorems.                                                               *)

\* Whatever a transaction does with a factory, the credentials it archives
\* besides are of the factory's scope.
THEOREM FactoryKeepsToItsScope == Spec => FactoryStaysInScope
  <1>1. TypeOK /\ [Next]_vars => [StaysInScope]_vars
    BY StepStaysInScope
  <1> QED
    BY <1>1, TypeCorrect, PTL DEF Spec, FactoryStaysInScope, StaysInScope

\* An NFT is burned by its issuer, or in the revoke of the credential it is
\* bound to by the issuer who signed that credential.
THEOREM CascadeKeepsToItsOwn == Spec => CascadeBurnsOnlyItsOwn
  <1>1. TypeOK /\ [Next]_vars => [BurnsOnlyItsOwn]_vars
    BY StepBurnsOnlyItsOwn
  <1> QED
    BY <1>1, TypeCorrect, PTL DEF Spec, CascadeBurnsOnlyItsOwn, BurnsOnlyItsOwn

\* No choice the issuer exercises alone leaves a lineage without an active
\* credential.
THEOREM OnlyTheHolderEnds == Spec => DisappearsOnlyWithHolder
  <1>1. TypeOK /\ [Next]_vars => [OnlyWithHolder]_vars
    BY StepIsOnlyWithHolder
  <1> QED
    BY <1>1, TypeCorrect, PTL DEF Spec, DisappearsOnlyWithHolder, OnlyWithHolder

\* What a credential says changes with its holder's signature, or visibly.
THEOREM RewritesAreSignedOrStamped == Spec => RewriteIsConsentedOrStamped
  <1>1. IInv /\ [Next]_vars => [ConsentedOrStamped]_vars
    BY StepIsConsentedOrStamped
  <1> QED
    BY <1>1, Invariance, PTL
       DEF Spec, RewriteIsConsentedOrStamped, ConsentedOrStamped

-----------------------------------------------------------------------------
(***************************************************************************)
(* CredentialLedger implements CredentialStandard.                         *)
(*                                                                         *)
(* The refinement mapping reads an entry of the registry off the latest    *)
(* sibling of a lineage.  RInv adds to IInv that this sibling exists and   *)
(* that exactly the credentials belong to a lineage.  The step proof has   *)
(* two halves: what a commit does to the registry when the new contracts   *)
(* start or continue lineages, no two of them the same one (Continues);    *)
(* and, choice by choice, which step of the standard that is.              *)
(***************************************************************************)

-----------------------------------------------------------------------------
(* The mapping, named.                                                     *)

Registry == [m \in Mints |-> Standing(m)]

\* The entry whose latest sibling has payload k, active or archived.
Entry(k) ==
  [admin |-> k.admin, issuer |-> k.issuer, holder |-> k.holder,
   live |-> TRUE,
   claims |-> k.claims, expiresAt |-> k.expiresAt,
   revoked |-> k.revokeReason # Absent,
   stamped |-> k.updateReason # Absent]

EndedEntry(k) ==
  [admin |-> k.admin, issuer |-> k.issuer, holder |-> k.holder,
   live |-> FALSE,
   claims |-> k.claims, expiresAt |-> k.expiresAt,
   revoked |-> k.revokeReason # Absent,
   stamped |-> k.updateReason # Absent]

IsLatest(m, c) ==
  /\ c \in m..Len(origin)
  /\ origin[c] = m
  /\ \A d \in (c + 1)..Len(origin) : origin[d] # m

-----------------------------------------------------------------------------
(* The inductive invariant.                                                *)

\* Credentials descend from mints, and nothing else does.
OnlyCredentialsDescend ==
  \A c \in 1..Len(ledger) :
    /\ ledger[c].template = "Credential" => origin[c] \in Mints
    /\ ledger[c].template # "Credential" => origin[c] = 0

EachHasALatest == \A m \in Mints : \E c \in 1..Len(ledger) : IsLatest(m, c)

RInv ==
  /\ IInv
  /\ OnlyCredentialsDescend
  /\ EachHasALatest

-----------------------------------------------------------------------------
(* Lineages.                                                               *)

LEMMA LatestIs ==
  ASSUME NEW s, Len(s) \in Nat, NEW m \in Nat, NEW c \in m..Len(s), s[c] = m,
         \A d \in (c + 1)..Len(s) : s[d] # m
  PROVE  (CHOOSE x \in m..Len(s) :
            s[x] = m /\ \A d \in (x + 1)..Len(s) : s[d] # m) = c
  <1>1. ASSUME NEW x \in m..Len(s), s[x] = m,
               \A d \in (x + 1)..Len(s) : s[d] # m
        PROVE  x = c
    <2>1. ~(c < x)
      BY <1>1
    <2>2. ~(x < c)
      BY <1>1
    <2> QED
      BY <1>1, <2>1, <2>2
  <1> QED
    BY <1>1

\* The latest sibling of a mint is a credential.
LEMMA LatestOfMint ==
  ASSUME RInv, NEW m \in Mints
  PROVE  /\ m \in Nat /\ m # 0
         /\ IsLatest(m, Latest(m))
         /\ Latest(m) \in Created("Credential")
         /\ Latest(m) \in 1..Len(ledger)
         /\ origin[Latest(m)] = m
  <1>1. m \in Nat /\ m # 0 /\ m \in 1..Len(ledger) /\ Len(origin) = Len(ledger)
        /\ Len(origin) \in Nat
    BY DEF Mints, RInv, IInv, TypeOK
  <1>2. PICK c \in 1..Len(ledger) : IsLatest(m, c)
    BY DEF RInv, EachHasALatest
  <1>3. Latest(m) = c
    BY <1>1, <1>2, LatestIs DEF Latest, IsLatest
  <1>4. origin[c] = m
    BY <1>2 DEF IsLatest
  <1>5. c \in Created("Credential")
    BY <1>1, <1>4 DEF RInv, OnlyCredentialsDescend, Created
  <1> QED
    BY <1>1, <1>2, <1>3, <1>4, <1>5

\* An entry is live when the latest sibling is active.
LEMMA StandingIs ==
  ASSUME NEW m
  PROVE  /\ Latest(m) \in active => Standing(m) = Entry(ledger[Latest(m)])
         /\ Latest(m) \notin active => Standing(m) = EndedEntry(ledger[Latest(m)])
  <1>1. CASE Latest(m) \in active
    <2>1. (Latest(m) \in active) = TRUE
      BY <1>1
    <2> QED
      BY <1>1, <2>1 DEF Standing, Entry
  <1>2. CASE Latest(m) \notin active
    <2>1. (Latest(m) \in active) = FALSE
      BY <1>2
    <2> QED
      BY <1>2, <2>1 DEF Standing, EndedEntry
  <1> QED
    BY <1>1, <1>2

\* The active sibling of a lineage is what the standard knows of it.
LEMMA ActiveStands ==
  ASSUME RInv, NEW c \in Active("Credential")
  PROVE  /\ origin[c] \in Mints
         /\ Latest(origin[c]) = c
         /\ Standing(origin[c]) = Entry(ledger[c])
  <1>1. c \in active /\ c \in 1..Len(ledger) /\ c \in Created("Credential")
    BY ActiveCredential DEF RInv, IInv, Active
  <1>2. origin[c] \in Mints
    BY <1>1 DEF RInv, OnlyCredentialsDescend, Created
  <1> DEFINE l == Latest(origin[c])
  <1>3. /\ IsLatest(origin[c], l) /\ l \in Created("Credential")
        /\ l \in 1..Len(ledger) /\ origin[l] = origin[c]
    BY <1>2, LatestOfMint
  <1> HIDE DEF l
  <1>4. l <= c
    BY <1>1, <1>3 DEF RInv, IInv, ActiveIsLatest, Lineage
  <1>5. ~(l < c)
    <2>1. Len(origin) = Len(ledger) /\ Len(ledger) \in Nat
      BY DEF RInv, IInv, TypeOK
    <2>2. l < c => c \in (l + 1)..Len(origin)
      BY <1>1, <1>3, <2>1
    <2> QED
      BY <1>3, <2>2 DEF IsLatest
  <1>6. l = c
    BY <1>1, <1>3, <1>4, <1>5
  <1> QED
    BY <1>1, <1>2, <1>6, StandingIs DEF l

\* The entry of a mint is live when its latest sibling is active.
LEMMA LiveStands ==
  ASSUME RInv, NEW m \in Mints, Latest(m) \in active
  PROVE  Latest(m) \in Active("Credential")
  BY LatestOfMint DEF Active

-----------------------------------------------------------------------------
(* What a commit does to the registry.                                     *)

\* The contracts a transaction creates start lineages or continue them, no two
\* of them the same one.
Continues(act, consumed, produced, origins) ==
  /\ act \subseteq Party
  /\ produced \in Seq(Contract)
  /\ origins \in Seq(Nat)
  /\ Len(origins) = Len(produced)
  /\ Commit(act, consumed, produced, origins)
  /\ \A i \in 1..Len(produced) :
       /\ produced[i].template = "Credential"
            => origins[i] = Len(ledger) + i \/ origins[i] \in Mints
       /\ produced[i].template # "Credential" => origins[i] = 0
  /\ \A i, j \in 1..Len(produced) :
       i # j => origins[i] = 0 \/ origins[i] # origins[j]

LEMMA ContinuesAfter ==
  ASSUME RInv, NEW act, NEW consumed, NEW produced, NEW origins,
         Continues(act, consumed, produced, origins)
  PROVE  /\ Len(ledger) \in Nat /\ Len(produced) \in Nat
         /\ Len(origin) = Len(ledger)
         /\ Len(ledger') = Len(ledger) + Len(produced)
         /\ Len(origin') = Len(ledger')
         /\ \A c \in 1..Len(ledger) :
              ledger'[c] = ledger[c] /\ origin'[c] = origin[c]
         /\ \A i \in 1..Len(produced) :
              /\ ledger'[Len(ledger) + i] = produced[i]
              /\ origin'[Len(ledger) + i] = origins[i]
              /\ origins[i] \in Nat
  <1>1. /\ act \in SUBSET Party /\ produced \in Seq(Contract)
        /\ origins \in Seq(Nat) /\ Len(origins) = Len(produced)
        /\ Commit(act, consumed, produced, origins)
    BY DEF Continues
  <1>2. TypeOK
    BY DEF RInv, IInv
  <1>3. \A i \in 1..Len(origins) : origins[i] \in Nat
    BY <1>1, ElementOfSeq
  <1>4. /\ Len(ledger) \in Nat /\ Len(produced) \in Nat
        /\ TypeOK'
        /\ Len(ledger') = Len(ledger) + Len(produced)
        /\ \A c \in 1..Len(ledger) :
             ledger'[c] = ledger[c] /\ origin'[c] = origin[c]
        /\ \A i \in 1..Len(produced) :
             /\ ledger'[Len(ledger) + i] = produced[i]
             /\ origin'[Len(ledger) + i] = origins[i]
    BY <1>1, <1>2, CommitAfter
  <1>5. Len(origin) = Len(ledger) /\ Len(origin') = Len(ledger')
    BY <1>2, <1>4 DEF TypeOK
  <1> QED
    BY <1>1, <1>3, <1>4, <1>5

\* A position of the new ledger is an old one or that of a new contract.
LEMMA OldOrNew ==
  ASSUME NEW N \in Nat, NEW K \in Nat, NEW c \in 1..(N + K)
  PROVE  c \in 1..N \/ \E i \in 1..K : c = N + i
  <1>1. CASE c <= N
    BY <1>1
  <1>2. CASE ~(c <= N)
    <2>1. c - N \in 1..K /\ c = N + (c - N)
      BY <1>2
    <2> QED
      BY <2>1
  <1> QED
    BY <1>1, <1>2

\* The mints after a commit: the ones before it, and the contracts it creates
\* that are their own origin.
LEMMA MintsAfter ==
  ASSUME RInv, NEW act, NEW consumed, NEW produced, NEW origins,
         Continues(act, consumed, produced, origins)
  PROVE  \A c : c \in Mints' <=>
                \/ c \in Mints
                \/ \E i \in 1..Len(produced) :
                     c = Len(ledger) + i /\ origins[i] = c
  <1> DEFINE N == Len(ledger)
             K == Len(produced)
  <1>1. /\ N \in Nat /\ K \in Nat /\ Len(origin) = N /\ Len(origin') = N + K
        /\ \A c \in 1..N : origin'[c] = origin[c]
        /\ \A i \in 1..K : origin'[N + i] = origins[i]
    BY ContinuesAfter
  <1> HIDE DEF N, K
  <1>2. ASSUME NEW c \in Mints'
        PROVE  c \in Mints \/ \E i \in 1..K : c = N + i /\ origins[i] = c
    <2>1. c \in 1..(N + K) /\ origin'[c] = c
      BY <1>1 DEF Mints
    <2>2. CASE c \in 1..N
      BY <2>1, <2>2, <1>1 DEF Mints
    <2>3. ASSUME NEW i \in 1..K, c = N + i
          PROVE  c = N + i /\ origins[i] = c
      BY <2>1, <2>3, <1>1
    <2> QED
      BY <1>1, <2>1, <2>2, <2>3, OldOrNew
  <1>3. ASSUME NEW c \in Mints
        PROVE  c \in Mints'
    BY <1>1 DEF Mints
  <1>4. ASSUME NEW i \in 1..K, origins[i] = N + i
        PROVE  N + i \in Mints'
    BY <1>1, <1>4 DEF Mints
  <1> QED
    BY <1>2, <1>3, <1>4 DEF N, K

\* A lineage nothing is added to keeps its latest sibling.
LEMMA LatestStays ==
  ASSUME RInv, NEW act, NEW consumed, NEW produced, NEW origins,
         Continues(act, consumed, produced, origins),
         NEW m \in Mints, \A i \in 1..Len(produced) : origins[i] # m
  PROVE  IsLatest(m, Latest(m))' /\ Latest(m)' = Latest(m)
  <1> DEFINE N == Len(ledger)
             K == Len(produced)
             c == Latest(m)
  <1>1. /\ N \in Nat /\ K \in Nat /\ Len(origin) = N /\ Len(origin') = N + K
        /\ \A x \in 1..N : origin'[x] = origin[x]
        /\ \A i \in 1..K : origin'[N + i] = origins[i]
    BY ContinuesAfter
  <1>2. m \in Nat /\ m # 0 /\ IsLatest(m, c) /\ c \in 1..N
    BY LatestOfMint
  <1> HIDE DEF N, K, c
  <1>3. /\ c \in m..Len(origin') /\ origin'[c] = m
        /\ \A d \in (c + 1)..Len(origin') : origin'[d] # m
    <2>1. c \in m..N /\ origin[c] = m /\ \A d \in (c + 1)..N : origin[d] # m
      BY <1>1, <1>2 DEF IsLatest
    <2>2. c \in m..(N + K) /\ origin'[c] = m
      BY <1>1, <1>2, <2>1
    <2>3. ASSUME NEW d \in (c + 1)..(N + K)
          PROVE  origin'[d] # m
      <3>1. d \in 1..(N + K)
        BY <1>1, <1>2
      <3>2. CASE d \in 1..N
        BY <3>2, <2>1, <1>1, <1>2
      <3>3. ASSUME NEW i \in 1..K, d = N + i
            PROVE  origin'[d] # m
        BY <3>3, <1>1 DEF K
      <3> QED
        BY <3>1, <3>2, <3>3, <1>1, OldOrNew
    <2> QED
      BY <1>1, <2>2, <2>3
  <1>4. Len(origin') \in Nat
    BY <1>1
  <1>5. Latest(m)' = c
    BY <1>2, <1>3, <1>4, LatestIs DEF Latest
  <1> QED
    BY <1>3, <1>5 DEF IsLatest, c

\* A contract added to a lineage is its latest sibling.
LEMMA LatestIsAdded ==
  ASSUME RInv, NEW act, NEW consumed, NEW produced, NEW origins,
         Continues(act, consumed, produced, origins),
         NEW i \in 1..Len(produced), NEW m, m = origins[i], m # 0
  PROVE  /\ m \in Mints'
         /\ \E c \in 1..Len(ledger') : IsLatest(m, c)'
         /\ Latest(m)' = Len(ledger) + i
  <1> DEFINE N == Len(ledger)
             K == Len(produced)
             c == N + i
  <1>1. /\ N \in Nat /\ K \in Nat /\ Len(origin') = N + K
        /\ Len(ledger') = N + K /\ Len(origin) = N
        /\ \A x \in 1..N : origin'[x] = origin[x]
        /\ \A j \in 1..K : origin'[N + j] = origins[j]
        /\ m \in Nat
    BY ContinuesAfter
  <1>2. /\ m = N + i \/ m \in Mints
        /\ \A j \in 1..K : j # i => origins[j] # m
    BY DEF Continues
  <1>3. m \in Mints'
    BY <1>2, MintsAfter
  <1>4. m \in 1..(N + i)
    BY <1>1, <1>2 DEF Mints
  <1> HIDE DEF N, K
  <1>5. /\ c \in m..Len(origin') /\ origin'[c] = m
        /\ \A d \in (c + 1)..Len(origin') : origin'[d] # m
    <2>1. i \in 1..K /\ c \in m..(N + K)
      BY <1>1, <1>4 DEF K
    <2>2. origin'[c] = m
      BY <1>1, <2>1
    <2>3. ASSUME NEW d \in (c + 1)..(N + K)
          PROVE  origin'[d] # m
      <3>1. d - N \in 1..K /\ d = N + (d - N) /\ d - N # i
        BY <1>1, <2>1
      <3> QED
        BY <3>1, <1>1, <1>2
    <2> QED
      BY <1>1, <2>1, <2>2, <2>3
  <1>6. Len(origin') \in Nat
    BY <1>1
  <1>7. Latest(m)' = c
    BY <1>1, <1>5, <1>6, LatestIs DEF Latest
  <1>8. c \in 1..Len(ledger')
    BY <1>1 DEF K
  <1> QED
    BY <1>3, <1>5, <1>7, <1>8 DEF IsLatest, N

LEMMA ContinuesKeepsRInv ==
  ASSUME RInv, IInv', NEW act, NEW consumed, NEW produced, NEW origins,
         Continues(act, consumed, produced, origins)
  PROVE  RInv'
  <1> DEFINE N == Len(ledger)
             K == Len(produced)
  <1>1. /\ N \in Nat /\ K \in Nat /\ Len(origin) = N
        /\ Len(ledger') = N + K /\ Len(origin') = N + K
        /\ \A c \in 1..N : ledger'[c] = ledger[c] /\ origin'[c] = origin[c]
        /\ \A i \in 1..K : ledger'[N + i] = produced[i] /\ origin'[N + i] = origins[i]
    BY ContinuesAfter
  <1>2. \A c : c \in Mints' <=>
               \/ c \in Mints
               \/ \E i \in 1..K : c = N + i /\ origins[i] = c
    BY MintsAfter
  <1>3. OnlyCredentialsDescend'
    <2> SUFFICES ASSUME NEW c \in 1..(N + K)
                 PROVE  /\ ledger'[c].template = "Credential" => origin'[c] \in Mints'
                        /\ ledger'[c].template # "Credential" => origin'[c] = 0
      BY <1>1 DEF OnlyCredentialsDescend
    <2>1. CASE c \in 1..N
      BY <2>1, <1>1, <1>2 DEF RInv, OnlyCredentialsDescend
    <2>2. ASSUME NEW i \in 1..K, c = N + i
          PROVE  /\ ledger'[c].template = "Credential" => origin'[c] \in Mints'
                 /\ ledger'[c].template # "Credential" => origin'[c] = 0
      BY <2>2, <1>1, <1>2 DEF Continues
    <2> QED
      BY <2>1, <2>2, <1>1, OldOrNew
  <1>4. EachHasALatest'
    <2> SUFFICES ASSUME NEW m \in Mints'
                 PROVE  \E c \in 1..Len(ledger') : IsLatest(m, c)'
      BY DEF EachHasALatest
    <2>1. CASE \E i \in 1..K : origins[i] = m
      <3>1. PICK i \in 1..K : origins[i] = m
        BY <2>1
      <3>2. m # 0
        BY <1>1 DEF Mints
      <3> QED
        BY <3>1, <3>2, LatestIsAdded
    <2>2. CASE \A i \in 1..K : origins[i] # m
      <3>1. m \in Mints
        BY <2>2, <1>2
      <3>2. IsLatest(m, Latest(m))'
        BY <2>2, <3>1, LatestStays
      <3>3. Latest(m) \in 1..Len(ledger')
        BY <1>1, <3>1, LatestOfMint
      <3> QED
        BY <3>2, <3>3, LatestStays, <3>1, <2>2
    <2> QED
      BY <2>1, <2>2
  <1> QED
    BY <1>3, <1>4 DEF RInv

LEMMA StandingIsAfter ==
  ASSUME NEW m, NEW c, c = Latest(m)'
  PROVE  /\ c \in active' => Standing(m)' = Entry(ledger'[c])
         /\ c \notin active' => Standing(m)' = EndedEntry(ledger'[c])
  <1>1. CASE c \in active'
    <2>1. (Latest(m)' \in active') = TRUE
      BY <1>1
    <2> QED
      BY <1>1, <2>1 DEF Standing, Entry
  <1>2. CASE c \notin active'
    <2>1. (Latest(m)' \in active') = FALSE
      BY <1>2
    <2> QED
      BY <1>2, <2>1 DEF Standing, EndedEntry
  <1> QED
    BY <1>1, <1>2

\* Entries after a commit: of a lineage it continues, of one it leaves alone.
LEMMA AddedStands ==
  ASSUME RInv, NEW act, NEW consumed, NEW produced, NEW origins,
         Continues(act, consumed, produced, origins),
         NEW i \in 1..Len(produced), NEW m, m = origins[i], m # 0
  PROVE  Standing(m)' = Entry(produced[i])
  <1> DEFINE N == Len(ledger)
             K == Len(produced)
  <1>1. /\ N \in Nat /\ K \in Nat
        /\ \A j \in 1..K : ledger'[N + j] = produced[j]
    BY ContinuesAfter
  <1>2. Latest(m)' = N + i
    BY LatestIsAdded
  <1>3. N + i \in active'
    <2>1. active' = (active \ consumed) \cup (N + 1 .. N + K)
      BY DEF Continues, Commit
    <2>2. N + i \in N + 1 .. N + K
      BY <1>1
    <2> QED
      BY <2>1, <2>2
  <1>4. ledger'[N + i] = produced[i]
    BY <1>1
  <1> QED
    BY <1>2, <1>3, <1>4, StandingIsAfter

LEMMA OtherStands ==
  ASSUME RInv, NEW act, NEW consumed, NEW produced, NEW origins,
         Continues(act, consumed, produced, origins),
         NEW m \in Mints, \A i \in 1..Len(produced) : origins[i] # m
  PROVE  /\ Latest(m) \in active \ consumed
              => Standing(m)' = Entry(ledger[Latest(m)])
         /\ Latest(m) \notin active \ consumed
              => Standing(m)' = EndedEntry(ledger[Latest(m)])
  <1> DEFINE N == Len(ledger)
  <1>0. PICK c : c = Latest(m)
    OBVIOUS
  <1>1. /\ N \in Nat /\ Len(produced) \in Nat
        /\ \A x \in 1..N : ledger'[x] = ledger[x]
    BY ContinuesAfter
  <1>2. c \in 1..N
    BY <1>0, LatestOfMint
  <1>3. Latest(m)' = c
    BY <1>0, LatestStays
  <1>4. c \in active' <=> c \in active \ consumed
    <2>1. active' = (active \ consumed) \cup (N + 1 .. N + Len(produced))
      BY DEF Continues, Commit
    <2>2. c \notin N + 1 .. N + Len(produced)
      BY <1>1, <1>2
    <2> QED
      BY <2>1, <2>2
  <1>5. ledger'[c] = ledger[c]
    BY <1>1, <1>2
  <1> QED
    BY <1>0, <1>3, <1>4, <1>5, StandingIsAfter

LEMMA UntouchedStands ==
  ASSUME RInv, NEW act, NEW consumed, NEW produced, NEW origins,
         Continues(act, consumed, produced, origins),
         NEW m \in Mints, \A i \in 1..Len(produced) : origins[i] # m,
         Latest(m) \notin active \/ Latest(m) \notin consumed
  PROVE  Standing(m)' = Standing(m)
  <1>1. Latest(m) \in active \ consumed <=> Latest(m) \in active
    OBVIOUS
  <1> QED
    BY <1>1, OtherStands, StandingIs

-----------------------------------------------------------------------------
(* Which commits continue lineages.                                        *)

\* Commits of one contract and of none, and steps that keep to lineages.
CommitsOne(act, consumed, k, o) == Commit(act, consumed, << k >>, << o >>)

CommitsNone(act, consumed) == Commit(act, consumed, << >>, << >>)

NextId == Len(ledger) + 1

KeepsLineages(act) ==
  \E consumed, produced, origins : Continues(act, consumed, produced, origins)

Single(produced) == 1..Len(produced) = {1}

AddsMint(o) == Mints' = Mints \cup {o}

\* What a commit that creates one contract does to the registry.
LEMMA OneAdded ==
  ASSUME RInv, NEW act, NEW consumed, NEW produced, NEW origins,
         Continues(act, consumed, produced, origins), Single(produced),
         NEW k, k = produced[1], NEW o, o = origins[1]
  PROVE  /\ o = NextId => AddsMint(o)
         /\ o # NextId => Mints' = Mints
         /\ o # 0 => Standing(o)' = Entry(k)
         /\ \A m \in Mints :
              /\ m # o
              /\ Latest(m) \notin active \/ Latest(m) \notin consumed
              => Standing(m)' = Standing(m)
  <1>1. 1..Len(produced) = {1}
    BY DEF Single
  <1>2. \A c : c \in Mints' <=> c \in Mints \/ (c = Len(ledger) + 1 /\ o = c)
    <2>1. \A c : c \in Mints' <=>
                   \/ c \in Mints
                   \/ \E i \in 1..Len(produced) :
                        c = Len(ledger) + i /\ origins[i] = c
      BY MintsAfter
    <2> QED
      BY <1>1, <2>1
  <1>3. o = NextId => AddsMint(o)
    BY <1>2 DEF NextId, AddsMint
  <1>4. o # NextId => Mints' = Mints
    BY <1>2 DEF NextId
  <1>5. ASSUME o # 0
        PROVE  Standing(o)' = Entry(k)
    <2>1. 1 \in 1..Len(produced)
      BY <1>1
    <2> QED
      BY <1>5, <2>1, AddedStands
  <1>6. ASSUME NEW m \in Mints, m # o,
               Latest(m) \notin active \/ Latest(m) \notin consumed
        PROVE  Standing(m)' = Standing(m)
    <2>1. \A i \in 1..Len(produced) : origins[i] # m
      BY <1>1, <1>6
    <2> QED
      BY <1>6, <2>1, UntouchedStands
  <1> QED
    BY <1>3, <1>4, <1>5, <1>6

LEMMA SingleContinues ==
  ASSUME RInv, NEW act \in SUBSET Party, NEW consumed, NEW k \in Contract,
         NEW o, o \in Nat, CommitsOne(act, consumed, k, o),
         k.template = "Credential" => o = NextId \/ o \in Mints,
         k.template # "Credential" => o = 0
  PROVE  /\ KeepsLineages(act)
         /\ NextId <= MaxContracts
         /\ o = NextId => AddsMint(o)
         /\ o # NextId => Mints' = Mints
         /\ o # 0 => Standing(o)' = Entry(k)
         /\ \A m \in Mints :
              /\ m # o
              /\ Latest(m) \notin active \/ Latest(m) \notin consumed
              => Standing(m)' = Standing(m)
  <1>0. PICK produced, origins : produced = << k >> /\ origins = << o >>
    OBVIOUS
  <1>1. /\ produced \in Seq(Contract) /\ Len(produced) = 1 /\ produced[1] = k
        /\ origins \in Seq(Nat) /\ Len(origins) = 1 /\ origins[1] = o
    BY <1>0
  <1>2. \A i \in 1..Len(produced) : i = 1
    BY <1>1
  <1>3. Single(produced) /\ produced[1] = k /\ origins[1] = o
    BY <1>1 DEF Single
  <1>4. Commit(act, consumed, produced, origins)
    BY <1>0 DEF CommitsOne
  <1>5. Continues(act, consumed, produced, origins)
    BY <1>1, <1>2, <1>4 DEF Continues, NextId
  <1>6. KeepsLineages(act)
    BY <1>5 DEF KeepsLineages
  <1>7. NextId <= MaxContracts
    BY <1>1, <1>4 DEF Commit, NextId
  <1>8. /\ o = NextId => AddsMint(o)
        /\ o # NextId => Mints' = Mints
        /\ o # 0 => Standing(o)' = Entry(k)
        /\ \A m \in Mints :
             /\ m # o
             /\ Latest(m) \notin active \/ Latest(m) \notin consumed
             => Standing(m)' = Standing(m)
    BY <1>3, <1>5, OneAdded
  <1> QED
    BY <1>6, <1>7, <1>8

\* What a commit that only archives does to it.
LEMMA NoneContinues ==
  ASSUME RInv, NEW act \in SUBSET Party, NEW consumed,
         CommitsNone(act, consumed)
  PROVE  /\ KeepsLineages(act)
         /\ Mints' = Mints
         /\ \A m \in Mints :
              /\ Latest(m) \in consumed
                   => Standing(m)' = EndedEntry(ledger[Latest(m)])
              /\ Latest(m) \notin active \/ Latest(m) \notin consumed
                   => Standing(m)' = Standing(m)
  <1> DEFINE none == << >>
  <1>1. none \in Seq(Contract) /\ none \in Seq(Nat) /\ Len(none) = 0
    OBVIOUS
  <1>2. Commit(act, consumed, none, none)
    BY DEF CommitsNone
  <1> HIDE DEF none
  <1>3. Continues(act, consumed, none, none)
    BY <1>1, <1>2 DEF Continues
  <1>4. \A i \in 1..Len(none) : FALSE
    BY <1>1
  <1>5. Mints' = Mints
    BY <1>3, <1>4, MintsAfter
  <1>6. ASSUME NEW m \in Mints, Latest(m) \in consumed
        PROVE  Standing(m)' = EndedEntry(ledger[Latest(m)])
    BY <1>3, <1>4, <1>6, OtherStands
  <1>7. ASSUME NEW m \in Mints,
               Latest(m) \notin active \/ Latest(m) \notin consumed
        PROVE  Standing(m)' = Standing(m)
    BY <1>3, <1>4, <1>7, UntouchedStands
  <1>8. KeepsLineages(act)
    BY <1>3 DEF KeepsLineages
  <1> QED
    BY <1>5, <1>6, <1>7, <1>8

-----------------------------------------------------------------------------
(* Entries.                                                                *)

\* A revoke marks an entry revoked, an update stamps it with new contents, a
\* bulk update gives it new contents, an archive ends it.  The truth values go
\* by a name while a prover compares the records.
Marked(e) == [e EXCEPT !.revoked = TRUE]

LEMMA EntryRevoked ==
  ASSUME NEW k \in Credential, NEW r \in Text
  PROVE  Entry([k EXCEPT !.revokeReason = r]) = Marked(Entry(k))
  <1> DEFINE n == [k EXCEPT !.revokeReason = r]
             nStamped == n.updateReason # Absent
             nRevoked == n.revokeReason # Absent
             stamped == k.updateReason # Absent
             revoked == k.revokeReason # Absent
             yes == TRUE
  <1>1. /\ n.admin = k.admin /\ n.issuer = k.issuer /\ n.holder = k.holder
        /\ n.claims = k.claims /\ n.expiresAt = k.expiresAt
        /\ n.updateReason = k.updateReason /\ n.revokeReason = r
    BY DEF Credential
  <1>2. nStamped = stamped /\ nRevoked = yes
    <2> HIDE DEF n
    <2> QED
      BY <1>1, TextAssumption
  <1>3. [admin |-> n.admin, issuer |-> n.issuer, holder |-> n.holder,
         live |-> yes, claims |-> n.claims, expiresAt |-> n.expiresAt,
         revoked |-> nRevoked, stamped |-> nStamped]
        = [[admin |-> k.admin, issuer |-> k.issuer, holder |-> k.holder,
            live |-> yes, claims |-> k.claims, expiresAt |-> k.expiresAt,
            revoked |-> revoked, stamped |-> stamped] EXCEPT !.revoked = yes]
    <2> HIDE DEF n, yes, stamped, revoked, nStamped, nRevoked
    <2> QED
      BY <1>1, <1>2
  <1> QED
    BY <1>3 DEF Entry, Marked

LEMMA EntryRewritten ==
  ASSUME NEW k, NEW n, NEW cl, NEW ex,
         n.admin = k.admin, n.issuer = k.issuer, n.holder = k.holder,
         n.claims = cl, n.expiresAt = ex,
         n.updateReason = k.updateReason, n.revokeReason = k.revokeReason
  PROVE  Entry(n) = Standard!Rewritten(Entry(k), cl, ex)
  <1> DEFINE nStamped == n.updateReason # Absent
             nRevoked == n.revokeReason # Absent
             stamped == k.updateReason # Absent
             revoked == k.revokeReason # Absent
             yes == TRUE
             old == [admin |-> k.admin, issuer |-> k.issuer,
                     holder |-> k.holder, live |-> yes,
                     claims |-> k.claims, expiresAt |-> k.expiresAt,
                     revoked |-> revoked, stamped |-> stamped]
             mid == [admin |-> k.admin, issuer |-> k.issuer,
                     holder |-> k.holder, live |-> yes,
                     claims |-> cl, expiresAt |-> k.expiresAt,
                     revoked |-> revoked, stamped |-> stamped]
             new == [admin |-> n.admin, issuer |-> n.issuer,
                     holder |-> n.holder, live |-> yes,
                     claims |-> n.claims, expiresAt |-> n.expiresAt,
                     revoked |-> nRevoked, stamped |-> nStamped]
  <1>1. nStamped = stamped /\ nRevoked = revoked
    OBVIOUS
  <1>2. new = [old EXCEPT !.claims = cl, !.expiresAt = ex]
    <2> HIDE DEF yes, stamped, revoked, nStamped, nRevoked
    <2>1. mid = [old EXCEPT !.claims = cl]
      OBVIOUS
    <2>2. new = [mid EXCEPT !.expiresAt = ex]
      BY <1>1
    <2> HIDE DEF old, mid, new
    <2> QED
      BY <2>1, <2>2
  <1> QED
    BY <1>2 DEF Entry, Standard!Rewritten

LEMMA EntryStamped ==
  ASSUME NEW k, NEW n, NEW cl, NEW ex,
         n.admin = k.admin, n.issuer = k.issuer, n.holder = k.holder,
         n.claims = cl, n.expiresAt = ex,
         n.updateReason # Absent, n.revokeReason = k.revokeReason
  PROVE  Entry(n) = Standard!Stamped(Entry(k), cl, ex)
  <1> DEFINE nStamped == n.updateReason # Absent
             nRevoked == n.revokeReason # Absent
             stamped == k.updateReason # Absent
             revoked == k.revokeReason # Absent
             yes == TRUE
             old == [admin |-> k.admin, issuer |-> k.issuer,
                     holder |-> k.holder, live |-> yes,
                     claims |-> k.claims, expiresAt |-> k.expiresAt,
                     revoked |-> revoked, stamped |-> stamped]
             mid == [admin |-> k.admin, issuer |-> k.issuer,
                     holder |-> k.holder, live |-> yes,
                     claims |-> cl, expiresAt |-> k.expiresAt,
                     revoked |-> revoked, stamped |-> stamped]
             then == [admin |-> k.admin, issuer |-> k.issuer,
                      holder |-> k.holder, live |-> yes,
                      claims |-> cl, expiresAt |-> ex,
                      revoked |-> revoked, stamped |-> stamped]
             new == [admin |-> n.admin, issuer |-> n.issuer,
                     holder |-> n.holder, live |-> yes,
                     claims |-> n.claims, expiresAt |-> n.expiresAt,
                     revoked |-> nRevoked, stamped |-> nStamped]
  <1>1. nStamped = yes /\ nRevoked = revoked
    OBVIOUS
  <1>2. new = [old EXCEPT !.claims = cl, !.expiresAt = ex, !.stamped = yes]
    <2> HIDE DEF yes, stamped, revoked, nStamped, nRevoked
    <2>1. mid = [old EXCEPT !.claims = cl]
      OBVIOUS
    <2>2. then = [mid EXCEPT !.expiresAt = ex]
      OBVIOUS
    <2>3. new = [then EXCEPT !.stamped = yes]
      BY <1>1
    <2> HIDE DEF old, mid, then, new
    <2> QED
      BY <2>1, <2>2, <2>3
  <1> QED
    BY <1>2 DEF Entry, Standard!Stamped

LEMMA EntryEnded ==
  ASSUME NEW k
  PROVE  EndedEntry(k) = [Entry(k) EXCEPT !.live = FALSE]
  <1> DEFINE stamped == k.updateReason # Absent
             revoked == k.revokeReason # Absent
             yes == TRUE
             no == FALSE
  <1>1. [admin |-> k.admin, issuer |-> k.issuer, holder |-> k.holder,
         live |-> no, claims |-> k.claims, expiresAt |-> k.expiresAt,
         revoked |-> revoked, stamped |-> stamped]
        = [[admin |-> k.admin, issuer |-> k.issuer, holder |-> k.holder,
            live |-> yes, claims |-> k.claims, expiresAt |-> k.expiresAt,
            revoked |-> revoked, stamped |-> stamped] EXCEPT !.live = no]
    <2> HIDE DEF yes, no, stamped, revoked
    <2> QED
      OBVIOUS
  <1> QED
    BY <1>1 DEF Entry, EndedEntry

-----------------------------------------------------------------------------
(* Steps of the registry.                                                  *)

LEMMA LiveEntry ==
  ASSUME RInv, NEW c \in Active("Credential")
  PROVE  /\ origin[c] \in Standard!LiveIds
         /\ origin[c] \in Mints
         /\ Registry[origin[c]] = Entry(ledger[c])
  <1>1. origin[c] \in Mints /\ Standing(origin[c]) = Entry(ledger[c])
    BY ActiveStands
  <1> QED
    BY <1>1 DEF Standard!LiveIds, Registry, Entry

EntryBecomes(x, e) == Registry' = [Registry EXCEPT ![x] = e]

LEMMA OneEntryChanges ==
  ASSUME NEW x \in Mints, Mints' = Mints, NEW e, Standing(x)' = e,
         \A m \in Mints : m # x => Standing(m)' = Standing(m)
  PROVE  EntryBecomes(x, e)
  BY DEF Registry, EntryBecomes

LEMMA NoEntryChanges ==
  ASSUME Mints' = Mints, \A m \in Mints : Standing(m)' = Standing(m)
  PROVE  Registry' = Registry
  BY DEF Registry

LEMMA EntryAfter ==
  ASSUME NEW m \in Mints'
  PROVE  Registry'[m] = Standing(m)'
  BY DEF Registry

\* A commit that replaces the active credential c by k, and archives nothing
\* else but an NFT.
LEMMA SiblingStep ==
  ASSUME RInv, NEW act \in SUBSET Party, NEW c \in Active("Credential"),
         NEW nft \in Created("KycNFT") \cup {NoContract}, NEW consumed,
         consumed \subseteq {c, nft},
         NEW k \in Credential, CommitsOne(act, consumed, k, origin[c])
  PROVE  /\ KeepsLineages(act)
         /\ EntryBecomes(origin[c], Entry(k))
  <1>0. PICK o : o = origin[c]
    OBVIOUS
  <1>1. o \in Mints /\ o \in Nat /\ o # 0 /\ CommitsOne(act, consumed, k, o)
    BY <1>0, ActiveStands, LatestOfMint
  <1>2. k \in Contract /\ k.template = "Credential"
    BY DEF Contract, Credential
  <1>3. o # NextId
    BY <1>1 DEF Mints, RInv, IInv, TypeOK, NextId
  <1>4. /\ KeepsLineages(act)
        /\ Mints' = Mints
        /\ Standing(o)' = Entry(k)
        /\ \A m \in Mints :
             /\ m # o
             /\ Latest(m) \notin active \/ Latest(m) \notin consumed
             => Standing(m)' = Standing(m)
    <2>1. /\ k.template = "Credential" => o = NextId \/ o \in Mints
          /\ k.template # "Credential" => o = 0
      BY <1>1, <1>2
    <2>2. /\ KeepsLineages(act)
          /\ o # NextId => Mints' = Mints
          /\ o # 0 => Standing(o)' = Entry(k)
          /\ \A m \in Mints :
               /\ m # o
               /\ Latest(m) \notin active \/ Latest(m) \notin consumed
               => Standing(m)' = Standing(m)
      BY <1>1, <1>2, <2>1, SingleContinues
    <2> QED
      BY <1>1, <1>3, <2>2
  <1>5. ASSUME NEW m \in Mints, m # o
        PROVE  Standing(m)' = Standing(m)
    <2>1. /\ origin[Latest(m)] = m /\ Latest(m) \in Created("Credential")
          /\ Latest(m) \in 1..Len(ledger)
      BY LatestOfMint
    <2>2. Latest(m) # c
      BY <1>0, <1>5, <2>1
    <2>3. Latest(m) # nft
      BY <2>1 DEF Created, NoContract
    <2>4. Latest(m) \notin consumed
      BY <2>2, <2>3
    <2> QED
      BY <1>4, <1>5, <2>4
  <1>6. EntryBecomes(o, Entry(k))
    BY <1>1, <1>4, <1>5, OneEntryChanges
  <1> QED
    BY <1>0, <1>4, <1>6

LEMMA CreateCredentialIsMint ==
  ASSUME RInv, NEW act \in SUBSET Party, NEW s \in Scope,
         NEW cl \in ClaimMap, NEW ex \in Expiry,
         CreateCredential(act, s, cl, ex)
  PROVE  KeepsLineages(act) /\ Standard!Mint
  <1> DEFINE k == [template |-> "Credential", admin |-> s.admin,
                   issuer |-> s.issuer, holder |-> s.holder,
                   claims |-> cl, expiresAt |-> ex,
                   revokeReason |-> Absent, updateReason |-> Absent]
  <1>0. PICK n : n = NextId
    OBVIOUS
  <1>1. /\ k \in Contract /\ k.template = "Credential"
        /\ Entry(k) \in Standard!Fresh
        /\ {k.issuer, k.holder} \subseteq act
    BY ScopeAssumption
       DEF CreateCredential, Contract, Credential, Entry, Standard!Fresh
  <1>2. CommitsOne(act, {}, k, n)
    BY <1>0 DEF CreateCredential, CommitsOne, NextId
  <1>3. Len(ledger) \in Nat /\ n \in Nat /\ n # 0 /\ Len(origin) = Len(ledger)
    BY <1>0 DEF RInv, IInv, TypeOK, NextId
  <1>4. n \notin Mints
    BY <1>0, <1>3 DEF Mints, NextId
  <1>6. /\ KeepsLineages(act)
        /\ n <= MaxContracts
        /\ Mints' = Mints \cup {n}
        /\ Standing(n)' = Entry(k)
        /\ \A m \in Mints : m # n => Standing(m)' = Standing(m)
    <2>1. PICK none, new : none = {} /\ new = k
      OBVIOUS
    <2>2. CommitsOne(act, none, new, n) /\ \A m \in Mints : Latest(m) \notin none
      BY <1>2, <2>1
    <2>3. /\ n \in Nat /\ new \in Contract
          /\ new.template = "Credential" => n = NextId \/ n \in Mints
          /\ new.template # "Credential" => n = 0
      BY <1>0, <1>1, <1>3, <2>1
    <2> HIDE DEF k
    <2>4. /\ KeepsLineages(act)
          /\ NextId <= MaxContracts
          /\ n = NextId => AddsMint(n)
          /\ n # 0 => Standing(n)' = Entry(new)
          /\ \A m \in Mints :
               /\ m # n
               /\ Latest(m) \notin active \/ Latest(m) \notin none
               => Standing(m)' = Standing(m)
      BY <2>2, <2>3, SingleContinues
    <2> QED
      BY <1>0, <1>3, <2>1, <2>2, <2>4 DEF AddsMint
  <1>7. n \in 1..MaxContracts
    BY <1>3, <1>6, BoundAssumption
  <1>8. DOMAIN Registry = Mints /\ DOMAIN Registry' = Mints'
    BY DEF Registry
  <1>9. ASSUME NEW m \in Mints
        PROVE  Registry'[m] = Registry[m]
    <2>1. Registry[m] = Standing(m)
      BY DEF Registry
    <2>2. Registry'[m] = Standing(m)'
      BY <1>6, EntryAfter
    <2> QED
      BY <1>4, <1>6, <2>1, <2>2
  <1>10. Registry'[n] = Entry(k)
    BY <1>6, EntryAfter
  <1>11. Registry'[n] \in Standard!Fresh
    BY <1>1, <1>10
  <1>12. {Registry'[n].issuer, Registry'[n].holder} \subseteq actAs'
    <2>1. actAs' = act
      BY <1>2, CommitIsBySubmitters DEF CommitsOne
    <2> QED
      BY <1>1, <1>10, <2>1 DEF Entry
  <1>13. \E i \in (1..MaxContracts) \ DOMAIN Registry :
           /\ DOMAIN Registry' = DOMAIN Registry \cup {i}
           /\ \A j \in DOMAIN Registry : Registry'[j] = Registry[j]
           /\ Registry'[i] \in Standard!Fresh
           /\ {Registry'[i].issuer, Registry'[i].holder} \subseteq actAs'
    BY <1>4, <1>6, <1>7, <1>8, <1>9, <1>11, <1>12
  <1>14. Standard!Mint
    BY <1>13, Zenon DEF Standard!Mint, Registry
  <1> QED
    BY <1>6, <1>14

LEMMA RevokeCredentialIsRevoke ==
  ASSUME RInv, NEW act \in SUBSET Party, NEW c \in Active("Credential"),
         NEW nft \in Created("KycNFT") \cup {NoContract}, NEW r \in Text,
         RevokeCredential(act, c, nft, r)
  PROVE  KeepsLineages(act) /\ Standard!Revoke
  <1> DEFINE k == [ledger[c] EXCEPT !.revokeReason = r]
  <1>1. ledger[c] \in Credential
    BY ActiveCredential DEF RInv, IInv
  <1>2. /\ k \in Credential
        /\ Entry(k) = Marked(Entry(ledger[c]))
    BY <1>1, EntryRevoked DEF Credential
  <1>3. CommitsOne(act, {c, nft}, k, origin[c]) /\ ledger[c].issuer \in act
    BY DEF RevokeCredential, CommitsOne
  <1> HIDE DEF k
  <1>4. /\ KeepsLineages(act)
        /\ EntryBecomes(origin[c], Entry(k))
    <2>1. PICK consumed : consumed = {c, nft}
      OBVIOUS
    <2>2. consumed \subseteq {c, nft} /\ CommitsOne(act, consumed, k, origin[c])
      BY <1>3, <2>1
    <2> QED
      BY <1>2, <2>2, SiblingStep
  <1>5. /\ origin[c] \in Standard!LiveIds
        /\ Registry[origin[c]] = Entry(ledger[c])
    BY LiveEntry
  <1>6. Registry[origin[c]].issuer \in actAs'
    BY <1>3, <1>5, CommitIsBySubmitters DEF Entry, CommitsOne
  <1>7. Registry' = [Registry EXCEPT ![origin[c]].revoked = TRUE]
    <2>1. EntryBecomes(origin[c], Marked(Registry[origin[c]]))
      BY <1>2, <1>4, <1>5
    <2> QED
      BY <2>1 DEF EntryBecomes, Marked
  <1>8. Standard!Revoke
    BY <1>5, <1>6, <1>7 DEF Standard!Revoke, Registry
  <1> QED
    BY <1>4, <1>8

LEMMA UpdateCredentialsIsStampedRewrite ==
  ASSUME RInv, NEW act \in SUBSET Party, NEW c \in Active("Credential"),
         NEW cl \in ClaimMap, NEW ex \in Expiry, NEW r \in Text,
         UpdateCredentials(act, c, cl, ex, r)
  PROVE  KeepsLineages(act) /\ Standard!StampedRewrite
  <1> DEFINE k == [ledger[c] EXCEPT !.claims = cl, !.expiresAt = ex,
                                    !.updateReason = r]
  <1>1. ledger[c] \in Credential /\ cl \in ClaimMap \ {NoClaims}
    BY ActiveCredential DEF RInv, IInv, UpdateCredentials
  <1>2. k \in Credential
    BY <1>1 DEF Credential
  <1>3. Entry(k) = Standard!Stamped(Entry(ledger[c]), cl, ex)
    <2>1. /\ k.admin = ledger[c].admin /\ k.issuer = ledger[c].issuer
          /\ k.holder = ledger[c].holder /\ k.claims = cl /\ k.expiresAt = ex
          /\ k.updateReason = r /\ k.revokeReason = ledger[c].revokeReason
      BY <1>1 DEF Credential
    <2>2. k.updateReason # Absent
      BY <2>1, TextAssumption
    <2>3. PICK old, new : old = ledger[c] /\ new = k
      OBVIOUS
    <2> HIDE DEF k
    <2> QED
      BY <2>1, <2>2, <2>3, EntryStamped
  <1>4. CommitsOne(act, {c}, k, origin[c]) /\ ledger[c].issuer \in act
    BY DEF UpdateCredentials, CommitsOne
  <1> HIDE DEF k
  <1>5. /\ KeepsLineages(act)
        /\ EntryBecomes(origin[c], Entry(k))
    <2>1. PICK consumed : consumed = {c}
      OBVIOUS
    <2>2. /\ NoContract \in Created("KycNFT") \cup {NoContract}
          /\ consumed \subseteq {c, NoContract}
          /\ CommitsOne(act, consumed, k, origin[c])
      BY <1>4, <2>1
    <2> QED
      BY <1>2, <2>2, SiblingStep
  <1>6. /\ origin[c] \in Standard!LiveIds
        /\ origin[c] \in DOMAIN Registry
        /\ Registry[origin[c]] = Entry(ledger[c])
    BY LiveEntry DEF Registry
  <1>7. Registry[origin[c]].issuer \in actAs'
    BY <1>4, <1>6, CommitIsBySubmitters DEF Entry, CommitsOne
  <1>8. Registry' = [Registry EXCEPT
                       ![origin[c]] = Standard!Stamped(@, cl, ex)]
    BY <1>3, <1>5, <1>6 DEF EntryBecomes
  <1>9. Standard!StampedRewrite
    BY <1>1, <1>6, <1>7, <1>8 DEF Standard!StampedRewrite, Registry
  <1> QED
    BY <1>5, <1>9

\* Archiving a credential, by whichever choice, ends its entry.
LEMMA ArchiveIsEnd ==
  ASSUME RInv, NEW act \in SUBSET Party, NEW c \in Active("Credential"),
         ledger[c].holder \in act, CommitsNone(act, {c})
  PROVE  KeepsLineages(act) /\ Standard!End
  <1>1. /\ KeepsLineages(act)
        /\ Mints' = Mints
        /\ \A m \in Mints :
             /\ Latest(m) \in {c}
                  => Standing(m)' = EndedEntry(ledger[Latest(m)])
             /\ Latest(m) \notin active \/ Latest(m) \notin {c}
                  => Standing(m)' = Standing(m)
    BY NoneContinues
  <1>2. /\ origin[c] \in Mints /\ Latest(origin[c]) = c
        /\ origin[c] \in Standard!LiveIds
        /\ Registry[origin[c]] = Entry(ledger[c])
    BY ActiveStands, LiveEntry
  <1>0. PICK o : o = origin[c]
    OBVIOUS
  <1>3. Standing(o)' = EndedEntry(ledger[c])
    BY <1>0, <1>1, <1>2
  <1>4. ASSUME NEW m \in Mints, m # o
        PROVE  Standing(m)' = Standing(m)
    <2>1. origin[Latest(m)] = m
      BY LatestOfMint
    <2>2. Latest(m) \notin {c}
      BY <1>0, <1>4, <2>1
    <2> QED
      BY <1>1, <2>2
  <1>5. EntryBecomes(o, EndedEntry(ledger[c]))
    BY <1>0, <1>1, <1>2, <1>3, <1>4, OneEntryChanges
  <1>6. Registry' = [Registry EXCEPT ![origin[c]].live = FALSE]
    <2>1. EndedEntry(ledger[c]) = [Registry[origin[c]] EXCEPT !.live = FALSE]
      BY <1>2, EntryEnded
    <2> QED
      BY <1>0, <1>5, <2>1 DEF EntryBecomes
  <1>7. Registry[origin[c]].holder \in actAs'
    BY <1>2, CommitIsBySubmitters DEF Entry, CommitsNone
  <1>8. Standard!End
    BY <1>2, <1>6, <1>7 DEF Standard!End, Registry
  <1> QED
    BY <1>1, <1>8

\* What creates or archives no credential leaves the registry alone.
LEMMA ArchiveOfOtherIsUnseen ==
  ASSUME RInv, NEW act \in SUBSET Party, NEW n \in active,
         ledger[n].template # "Credential", CommitsNone(act, {n})
  PROVE  KeepsLineages(act) /\ Registry' = Registry
  <1>1. /\ KeepsLineages(act)
        /\ Mints' = Mints
        /\ \A m \in Mints :
             Latest(m) \notin active \/ Latest(m) \notin {n}
               => Standing(m)' = Standing(m)
    BY NoneContinues
  <1>2. ASSUME NEW m \in Mints
        PROVE  Standing(m)' = Standing(m)
    <2>1. Latest(m) \notin {n}
      BY LatestOfMint DEF Created
    <2> QED
      BY <1>1, <2>1
  <1>3. Registry' = Registry
    BY <1>1, <1>2, NoEntryChanges
  <1> QED
    BY <1>1, <1>3

LEMMA CreateOfOtherIsUnseen ==
  ASSUME RInv, NEW act \in SUBSET Party, NEW k \in Contract,
         k.template # "Credential", NEW o \in {0}, CommitsOne(act, {}, k, o)
  PROVE  KeepsLineages(act) /\ Registry' = Registry
  <1>1. o # NextId /\ o \in Nat /\ o = 0
    BY DEF RInv, IInv, TypeOK, NextId
  <1>2. /\ KeepsLineages(act)
        /\ Mints' = Mints
        /\ \A m \in Mints : m # o => Standing(m)' = Standing(m)
    <2>1. /\ k.template = "Credential" => o = NextId \/ o \in Mints
          /\ k.template # "Credential" => o = 0
      BY <1>1
    <2>2. PICK none : none = {}
      OBVIOUS
    <2>3. CommitsOne(act, none, k, o) /\ \A m \in Mints : Latest(m) \notin none
      BY <2>2
    <2> QED
      BY <1>1, <2>1, <2>3, SingleContinues
  <1>3. Registry' = Registry
    BY <1>1, <1>2, LatestOfMint, NoEntryChanges
  <1> QED
    BY <1>2, <1>3

-----------------------------------------------------------------------------
(* The bulk update.                                                        *)

\* What a factory checks of the entries makes them continue distinct lineages
\* of its scope.
LEMMA BulkContinues ==
  ASSUME RInv, NEW act \in SUBSET Party,
         NEW f \in Active("CredentialFactory"), NEW updates \in BulkUpdates,
         FactoryUpdateCredentials(act, f, updates)
  PROVE  \E consumed, produced, origins :
           /\ Continues(act, consumed, produced, origins)
           /\ Len(produced) \in Nat /\ Len(produced) # 0
           /\ Len(produced) = Len(updates)
           /\ \A n \in consumed :
                n = f \/ \E i \in 1..Len(updates) : n = updates[i].credentialId
           /\ \A i \in 1..Len(updates) :
                /\ produced[i] = Rewritten(updates[i])
                /\ origins[i] = origin[updates[i].credentialId]
                /\ updates[i] \in Update
                /\ Accepts(f, updates, i)
  <1> DEFINE targets == {updates[i].credentialId : i \in 1..Len(updates)}
  <1>1. PICK consumed, produced, origins :
          /\ consumed = {f} \cup targets
          /\ produced = [i \in 1..Len(updates) |-> Rewritten(updates[i])]
          /\ origins =
               [i \in 1..Len(updates) |-> origin[updates[i].credentialId]]
    OBVIOUS
  <1>2. updates \in Seq(Update) /\ Transaction(act, consumed, produced, origins)
    BY <1>1, FactoryUpdateIsTransaction DEF RInv, IInv
  <1>3. /\ produced \in Seq(Contract) /\ origins \in Seq(Nat)
        /\ Len(origins) = Len(produced)
        /\ Commit(act, consumed, produced, origins)
    BY <1>2 DEF Transaction
  <1>4. /\ Len(updates) \in Nat /\ Len(updates) # 0
        /\ \A i \in 1..Len(updates) : updates[i] \in Update
    BY <1>2, LenProperties, ElementOfSeq, EmptySeq
       DEF FactoryUpdateCredentials
  <1>5. Len(produced) = Len(updates)
    BY <1>1, <1>3, <1>4, LenProperties
  <1>6. \A i \in 1..Len(updates) :
          /\ produced[i] = Rewritten(updates[i])
          /\ origins[i] = origin[updates[i].credentialId]
    BY <1>1
  <1>7. \A i \in 1..Len(updates) : Accepts(f, updates, i)
    BY DEF FactoryUpdateCredentials
  <1>8. ASSUME NEW i \in 1..Len(updates)
        PROVE  /\ updates[i].credentialId \in Active("Credential")
               /\ origins[i] \in Mints
               /\ origins[i] # 0
               /\ produced[i].template = "Credential"
    <2>1. updates[i].credentialId \in Active("Credential")
      BY <1>7 DEF Accepts
    <2>2. ledger[updates[i].credentialId] \in Credential
      BY <2>1, ActiveCredential DEF RInv, IInv
    <2>3. origins[i] \in Mints
      BY <1>6, <2>1, ActiveStands
    <2>4. produced[i].template = "Credential"
      BY <1>6, <2>2 DEF Rewritten, Credential
    <2> QED
      BY <2>1, <2>3, <2>4, LatestOfMint
  <1>9. ASSUME NEW i \in 1..Len(updates), NEW j \in 1..Len(updates), i # j
        PROVE  origins[i] # origins[j]
    <2>1. updates[i].credentialId # updates[j].credentialId
      <3>1. CASE i < j
        BY <3>1, <1>4, <1>7 DEF Accepts
      <3>2. CASE j < i
        BY <3>2, <1>4, <1>7 DEF Accepts
      <3> QED
        BY <1>4, <1>9, <3>1, <3>2
    <2> QED
      BY <2>1, <1>6, <1>8, ActiveIsUnique DEF RInv
  <1>10. Continues(act, consumed, produced, origins)
    BY <1>3, <1>5, <1>8, <1>9 DEF Continues
  <1>11. \A n \in consumed :
           n = f \/ \E i \in 1..Len(updates) : n = updates[i].credentialId
    BY <1>1
  <1> QED
    BY <1>4, <1>5, <1>6, <1>7, <1>10, <1>11

\* What becomes of the entry of one credential of the list.
LEMMA BulkEntry ==
  ASSUME RInv, NEW f, NEW updates, NEW i, updates[i] \in Update,
         Accepts(f, updates, i),
         NEW m, m = origin[updates[i].credentialId]
  PROVE  /\ m \in Standard!LiveIds
         /\ m \in Mints /\ m # 0
         /\ InScope(Registry[m], ledger[f])
         /\ updates[i].newClaims \in ClaimMap \ {NoClaims}
         /\ updates[i].newExpiresAt \in Expiry
         /\ Entry(Rewritten(updates[i])).claims = updates[i].newClaims
         /\ Entry(Rewritten(updates[i])).expiresAt = updates[i].newExpiresAt
         /\ Entry(Rewritten(updates[i]))
              = Standard!Rewritten(Registry[m], updates[i].newClaims,
                                   updates[i].newExpiresAt)
  <1>1. PICK c, cl, ex : /\ c = updates[i].credentialId
                         /\ cl = updates[i].newClaims
                         /\ ex = updates[i].newExpiresAt
    OBVIOUS
  <1>2. /\ c \in Active("Credential") /\ InScope(ledger[c], ledger[f])
        /\ cl \in ClaimMap \ {NoClaims} /\ ex \in Expiry
    BY <1>1 DEF Accepts, Update
  <1>3. PICK old, new : /\ old = ledger[c]
                        /\ new = [old EXCEPT !.claims = cl, !.expiresAt = ex]
    OBVIOUS
  <1>4. old \in Credential
    BY <1>2, <1>3, ActiveCredential DEF RInv, IInv
  <1>5. /\ new.admin = old.admin /\ new.issuer = old.issuer
        /\ new.holder = old.holder /\ new.claims = cl /\ new.expiresAt = ex
        /\ new.updateReason = old.updateReason
        /\ new.revokeReason = old.revokeReason
    BY <1>3, <1>4 DEF Credential
  <1>6. Entry(new) = Standard!Rewritten(Entry(old), cl, ex)
    BY <1>5, EntryRewritten
  <1>7. Rewritten(updates[i]) = new
    BY <1>1, <1>3 DEF Rewritten
  <1>8. /\ m \in Standard!LiveIds /\ m \in Mints
        /\ Registry[m] = Entry(old)
    BY <1>1, <1>2, <1>3, LiveEntry
  <1>9. m # 0
    BY <1>8, LatestOfMint
  <1>10. InScope(Registry[m], ledger[f])
    BY <1>2, <1>3, <1>8 DEF InScope, Entry
  <1>11. Entry(new).claims = cl /\ Entry(new).expiresAt = ex
    BY <1>5 DEF Entry
  <1> QED
    BY <1>1, <1>2, <1>6, <1>7, <1>8, <1>9, <1>10, <1>11

LEMMA FactoryUpdateIsRewrite ==
  ASSUME RInv, NEW act \in SUBSET Party,
         NEW f \in Active("CredentialFactory"), NEW updates \in BulkUpdates,
         FactoryUpdateCredentials(act, f, updates)
  PROVE  KeepsLineages(act) /\ Standard!Rewrite
  <1>1. PICK consumed, produced, origins :
           /\ Continues(act, consumed, produced, origins)
           /\ Len(produced) \in Nat /\ Len(produced) # 0
           /\ Len(produced) = Len(updates)
           /\ \A n \in consumed :
                n = f \/ \E i \in 1..Len(updates) : n = updates[i].credentialId
           /\ \A i \in 1..Len(updates) :
                /\ produced[i] = Rewritten(updates[i])
                /\ origins[i] = origin[updates[i].credentialId]
                /\ updates[i] \in Update
                /\ Accepts(f, updates, i)
    BY BulkContinues
  <1>2. PICK ids : ids = {origins[i] : i \in 1..Len(updates)}
    OBVIOUS
  <1>3. PICK claims, expiresAt :
          /\ claims = [m \in ids |-> Standing(m)'.claims]
          /\ expiresAt = [m \in ids |-> Standing(m)'.expiresAt]
    OBVIOUS
  <1>4. ASSUME NEW m \in ids
        PROVE  /\ m \in Standard!LiveIds /\ m \in Mints
               /\ InScope(Registry[m], ledger[f])
               /\ claims[m] \in ClaimMap \ {NoClaims}
               /\ expiresAt[m] \in Expiry
               /\ Standing(m)' = Standard!Rewritten(Registry[m], claims[m],
                                                    expiresAt[m])
    <2>1. PICK i \in 1..Len(updates) : m = origins[i]
      BY <1>2
    <2>2. /\ i \in 1..Len(produced)
          /\ produced[i] = Rewritten(updates[i])
          /\ m = origin[updates[i].credentialId]
          /\ updates[i] \in Update
          /\ Accepts(f, updates, i)
      BY <1>1, <2>1
    <2>3. /\ m \in Standard!LiveIds
          /\ m \in Mints /\ m # 0
          /\ InScope(Registry[m], ledger[f])
          /\ updates[i].newClaims \in ClaimMap \ {NoClaims}
          /\ updates[i].newExpiresAt \in Expiry
          /\ Entry(Rewritten(updates[i])).claims = updates[i].newClaims
          /\ Entry(Rewritten(updates[i])).expiresAt = updates[i].newExpiresAt
          /\ Entry(Rewritten(updates[i]))
               = Standard!Rewritten(Registry[m], updates[i].newClaims,
                                    updates[i].newExpiresAt)
      BY <2>2, BulkEntry
    <2>4. Standing(m)' = Entry(produced[i])
      BY <1>1, <2>1, <2>2, <2>3, AddedStands
    <2>5. /\ claims[m] = updates[i].newClaims
          /\ expiresAt[m] = updates[i].newExpiresAt
      BY <1>3, <2>2, <2>3, <2>4
    <2> QED
      BY <2>2, <2>3, <2>4, <2>5
  <1>5. ASSUME NEW m \in Mints, m \notin ids
        PROVE  Standing(m)' = Standing(m)
    <2>1. \A i \in 1..Len(produced) : origins[i] # m
      BY <1>1, <1>2, <1>5
    <2>2. origin[Latest(m)] = m /\ Latest(m) # f
      BY LatestOfMint DEF Active, Created
    <2>3. Latest(m) \notin consumed
      BY <1>1, <2>1, <2>2
    <2> QED
      BY <1>1, <2>1, <2>3, UntouchedStands
  <1>6. Mints' = Mints
    <2>1. \A c : c \in Mints' <=>
                 \/ c \in Mints
                 \/ \E i \in 1..Len(produced) :
                      c = Len(ledger) + i /\ origins[i] = c
      BY <1>1, MintsAfter
    <2>2. ASSUME NEW i \in 1..Len(produced)
          PROVE  origins[i] # Len(ledger) + i
      <3>1. origins[i] \in Mints
        BY <1>1, <1>2, <1>4
      <3>2. Len(ledger) \in Nat /\ Len(origin) = Len(ledger)
        BY DEF RInv, IInv, TypeOK
      <3> QED
        BY <1>1, <3>1, <3>2 DEF Mints
    <2> QED
      BY <2>1, <2>2
  <1>7. ids \in SUBSET Standard!LiveIds /\ ids # {}
    <2>1. origins[1] \in ids
      BY <1>1, <1>2
    <2> QED
      BY <1>4, <2>1
  <1>8. /\ claims \in [ids -> ClaimMap \ {NoClaims}]
        /\ expiresAt \in [ids -> Expiry]
    BY <1>3, <1>4
  <1>9. ASSUME NEW i \in ids, NEW j \in ids
        PROVE  Standard!SameScope(i, j)
    BY <1>4 DEF InScope, Standard!SameScope, Registry
  <1>10. ASSUME NEW i \in ids
         PROVE  {Registry[i].issuer, Registry[i].holder} \subseteq actAs'
    <2>1. actAs' = act /\ {ledger[f].issuer, ledger[f].holder} \subseteq act
      BY <1>1 DEF Continues, Commit, FactoryUpdateCredentials
    <2> QED
      BY <1>4, <2>1 DEF InScope
  <1>11. Registry' = Standard!WithContents(ids, claims, expiresAt)
    <2>1. \A m \in Mints : Registry[m] = Standing(m)
      BY DEF Registry
    <2>2. DOMAIN Registry = Mints
      BY DEF Registry
    <2>3. ASSUME NEW m \in Mints
          PROVE  Registry'[m] = IF m \in ids
                                THEN Standard!Rewritten(Registry[m], claims[m],
                                                        expiresAt[m])
                                ELSE Registry[m]
      <3>1. Registry'[m] = Standing(m)'
        BY <1>6, EntryAfter
      <3> QED
        BY <1>4, <1>5, <2>1, <3>1
    <2>4. PICK new : new = Registry'
      OBVIOUS
    <2>5. DOMAIN new = Mints /\ new = [m \in DOMAIN new |-> new[m]]
      BY <1>6, <2>4 DEF Registry
    <2>6. PICK next : next = Standard!WithContents(ids, claims, expiresAt)
      OBVIOUS
    <2>7. DOMAIN next = Mints /\ next = [m \in DOMAIN next |-> next[m]]
      BY <2>2, <2>6 DEF Standard!WithContents, Registry
    <2>8. \A m \in Mints : new[m] = next[m]
      BY <2>2, <2>3, <2>4, <2>6 DEF Standard!WithContents, Registry
    <2>9. new = next
      BY <2>5, <2>7, <2>8
    <2> QED
      BY <2>4, <2>6, <2>9
  <1>12. Standard!Rewrite
    BY <1>7, <1>8, <1>9, <1>10, <1>11
       DEF Standard!Rewrite, Registry
  <1>13. KeepsLineages(act)
    BY <1>1 DEF KeepsLineages
  <1> QED
    BY <1>12, <1>13

-----------------------------------------------------------------------------
(* Steps.                                                                  *)

Unseen == Registry' = Registry

Allowed ==
  \/ Standard!Mint
  \/ Standard!Rewrite
  \/ Standard!StampedRewrite
  \/ Standard!Revoke
  \/ Standard!End
  \/ Unseen

LEMMA CredentialStep ==
  ASSUME RInv, NEW act \in SUBSET Party, CredentialNext(act)
  PROVE  KeepsLineages(act) /\ Allowed
  <1>1. ASSUME NEW c \in Active("Credential"), ArchiveAsHolder(act, c)
        PROVE  KeepsLineages(act) /\ Standard!End
    <2>1. ledger[c].holder \in act /\ CommitsNone(act, {c})
      BY <1>1 DEF ArchiveAsHolder, CommitsNone
    <2> QED
      BY <2>1, ArchiveIsEnd
  <1> QED
    BY <1>1, CreateCredentialIsMint, RevokeCredentialIsRevoke,
       UpdateCredentialsIsStampedRewrite DEF CredentialNext, Allowed

LEMMA FactoryStep ==
  ASSUME RInv, NEW act \in SUBSET Party, FactoryNext(act)
  PROVE  KeepsLineages(act) /\ Allowed
  <1>1. ASSUME NEW s \in Scope, CreateFactory(act, s)
        PROVE  KeepsLineages(act) /\ Unseen
    <2> DEFINE k == [template |-> "CredentialFactory", admin |-> s.admin,
                     issuer |-> s.issuer, holder |-> s.holder]
    <2>1. k \in Contract /\ k.template # "Credential"
      BY ScopeAssumption DEF Contract, CredentialFactory
    <2>2. CommitsOne(act, {}, k, 0)
      BY <1>1 DEF CreateFactory, CommitsOne
    <2> HIDE DEF k
    <2>3. PICK o \in {0} : CommitsOne(act, {}, k, o)
      BY <2>2
    <2> QED
      BY <2>1, <2>3, CreateOfOtherIsUnseen DEF Unseen
  <1> QED
    BY <1>1, FactoryUpdateIsRewrite DEF FactoryNext, Allowed

LEMMA NftStep ==
  ASSUME RInv, NEW act \in SUBSET Party, NftNext(act)
  PROVE  KeepsLineages(act) /\ Unseen
  <1>1. ASSUME NEW p \in Party, NEW c \in Created("Credential"),
               CreateKycNft(act, p, c)
        PROVE  KeepsLineages(act) /\ Unseen
    <2> DEFINE k == [template |-> "KycNFT", issuer |-> p,
                     boundCredentialId |-> c]
    <2>1. k \in Contract /\ k.template # "Credential"
      BY DEF Contract, KycNFT, Created
    <2>2. CommitsOne(act, {}, k, 0)
      BY <1>1 DEF CreateKycNft, CommitsOne
    <2> HIDE DEF k
    <2>3. PICK o \in {0} : CommitsOne(act, {}, k, o)
      BY <2>2
    <2> QED
      BY <2>1, <2>3, CreateOfOtherIsUnseen DEF Unseen
  <1>2. ASSUME NEW n \in Active("KycNFT"), BurnNft(act, n)
        PROVE  KeepsLineages(act) /\ Unseen
    <2>1. n \in active /\ ledger[n].template # "Credential"
      BY DEF Active, Created
    <2>2. CommitsNone(act, {n})
      BY <1>2 DEF BurnNft, CommitsNone
    <2> QED
      BY <2>1, <2>2, ArchiveOfOtherIsUnseen DEF Unseen
  <1> QED
    BY <1>1, <1>2 DEF NftNext

LEMMA ArchiveStep ==
  ASSUME RInv, NEW act \in SUBSET Party, NEW c \in active, Archive(act, c)
  PROVE  KeepsLineages(act) /\ Allowed
  <1>1. CommitsNone(act, {c}) /\ Signatories(ledger[c]) \subseteq act
    BY DEF Archive, CommitsNone
  <1>2. CASE ledger[c].template = "Credential"
    <2>1. c \in Active("Credential")
      BY <1>2 DEF RInv, IInv, TypeOK, Active, Created
    <2>2. ledger[c].holder \in act
      BY <1>1, <1>2 DEF Signatories
    <2> QED
      BY <1>1, <2>1, <2>2, ArchiveIsEnd DEF Allowed
  <1>3. CASE ledger[c].template # "Credential"
    BY <1>1, <1>3, ArchiveOfOtherIsUnseen DEF Allowed, Unseen
  <1> QED
    BY <1>2, <1>3

\* Every step keeps the lineages and is a step of the standard, or unseen.
LEMMA StepIsAllowed ==
  ASSUME RInv, Next
  PROVE  RInv' /\ actAs' \in SUBSET Party /\ Allowed
  <1>1. PICK act \in SUBSET Party : KeepsLineages(act) /\ Allowed
    BY CredentialStep, FactoryStep, NftStep, ArchiveStep DEF Next, Allowed
  <1>2. IInv'
    BY StepIsTransaction, TransactionKeepsIInv DEF RInv, IInv
  <1>3. RInv'
    BY <1>1, <1>2, ContinuesKeepsRInv DEF KeepsLineages
  <1>4. actAs' \in SUBSET Party
    BY <1>2 DEF IInv, TypeOK
  <1> QED
    BY <1>1, <1>3, <1>4

LEMMA StutterIsUnseen ==
  ASSUME RInv, UNCHANGED vars
  PROVE  RInv' /\ Unseen
  <1>1. RInv'
    BY DEF vars, RInv, IInv, TypeOK, OriginIsEarlier, ActiveIsLatest,
           RevocationIsPermanent, Created, Active, Lineage, Revoked, InScope,
           OnlyCredentialsDescend, EachHasALatest, IsLatest, Mints
  <1>2. Unseen
    BY DEF vars, Unseen, Registry, Mints, Standing, Latest
  <1> QED
    BY <1>1, <1>2

-----------------------------------------------------------------------------
(* The theorem.                                                            *)

\* The credential package keeps the promise of the standard, at every size of
\* the ledger: each transaction on credentials is a mint signed by issuer and
\* holder, a rewrite they sign together, the issuer's stamped rewrite or
\* revoke, or an end the holder submits, and no other transaction changes
\* what a verifier can see.
THEOREM LedgerImplementsStandard == Spec => ImplementsStandard
  <1>1. Init => RInv /\ Standard!Init
    <2> SUFFICES ASSUME Init
                 PROVE  RInv /\ Standard!Init
      OBVIOUS
    <2>1. IInv
      BY DEF Init, IInv, TypeOK, OriginIsEarlier, ActiveIsLatest,
             RevocationIsPermanent, Created, Active, Lineage
    <2>2. Mints = {} /\ 1..Len(ledger) = {}
      BY DEF Init, Mints
    <2>3. [m \in Mints |-> Standing(m)] = << >>
      BY <2>2
    <2> QED
      BY <2>1, <2>2, <2>3
         DEF RInv, OnlyCredentialsDescend, EachHasALatest, Standard!Init
  <1>2. RInv /\ [Next]_vars
          => RInv' /\ [Standard!Next]_([m \in Mints |-> Standing(m)])
    <2> SUFFICES ASSUME RInv, [Next]_vars
                 PROVE  RInv' /\ [Standard!Next]_([m \in Mints |-> Standing(m)])
      OBVIOUS
    <2>1. CASE Next
      <3>1. RInv' /\ actAs' \in SUBSET Party /\ Allowed
        BY <2>1, StepIsAllowed
      <3>2. CASE Unseen
        BY <3>1, <3>2 DEF Unseen, Registry
      <3>3. CASE ~Unseen
        BY <3>1, <3>3 DEF Allowed, Standard!Next
      <3> QED
        BY <3>2, <3>3
    <2>2. CASE UNCHANGED vars
      BY <2>2, StutterIsUnseen DEF Unseen, Registry
    <2> QED
      BY <2>1, <2>2
  <1> QED
    BY <1>1, <1>2, PTL DEF Spec, Standard!Spec, ImplementsStandard
=============================================================================
