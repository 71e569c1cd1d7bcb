----------------------------- MODULE EndToEndProofs -----------------------------
(***************************************************************************)
(* Proofs about EndToEnd, for any scripts, number of runs, polls and hours *)
(* and any bound on the ledger: the scripts implement CredentialLedger,    *)
(* and their assertions fail for one reason only.                          *)
(*                                                                         *)
(* The inductive invariant says, step of the program by step, which        *)
(* contracts of the run's issuer are active; of earlier runs it says only  *)
(* what their contracts may be.  Every step at the ledger comes down to    *)
(* Writes(consumed, created): the answered ones go on (GoesOnStep), the    *)
(* others stop (StopsStep), and both leave what other runs own unharmed.   *)
(***************************************************************************)
EXTENDS EndToEnd, CredentialLedgerProofs

-----------------------------------------------------------------------------
(* The inductive invariant.                                                *)

Names == {"A", "B", "C", "D", "nftA", "nftB", "D2"}

Place ==
  {"start", "source", "approve", "decision", "health", "parties", "ledger",
   "passed", "failed"}

RunField ==
  {"script", "at", "polls", "pc", "now", "validUntil", "id", "factory", "error"}

RunTypes ==
  /\ clock \in 0..MaxClock
  /\ runs \in 0..MaxRuns
  /\ DOMAIN run = RunField
  /\ run.script \in {"none", "persona", "sumsub", "didit", "firm"}
  /\ run.at \in Place
  /\ run.pc \in 1..19
  /\ run.now \in 0..MaxClock
  /\ run.validUntil \in 0..MaxClock
  /\ DOMAIN run.id = Names
  /\ runs = 0 => run.at = "passed" /\ run.script = "none" /\ active = {}
  /\ runs > 0 => run.script \in Script
  /\ run.at = "ledger" => run.pc \in 1..Len(Program) /\ run.now <= clock
  /\ run.at = "passed" /\ runs > 0 => run.pc = Len(Program) + 1
  /\ run.at \notin {"ledger", "passed", "failed"} => run.pc = 1
  /\ run.error = "assertion" => run.at = "failed"

\* Every contract is of some run's issuer.
OfARun == \A c \in active : \E r \in 1..runs : ledger[c].issuer = scopeOf[r].issuer

\* An NFT is bound to an active credential of its own issuer.
NftsAreBound ==
  \A n \in Active("KycNFT") :
    LET c == ledger[n].boundCredentialId
    IN c \in Active("Credential") /\ ledger[c].issuer = ledger[n].issuer

\* A factory is of an earlier run, or this one stopped with it.
FactoriesAreLeft ==
  \A f \in Active("CredentialFactory") :
    \/ InScope(ledger[f], Scp) /\ Program[run.pc].do \in {"factory", "update"}
    \/ \E r \in 1..(runs - 1) : InScope(ledger[f], scopeOf[r])

\* The credential the script minted under a name.
Mint(name) ==
  [template |-> "Credential", admin |-> Scp.admin, issuer |-> Scp.issuer,
   holder |-> Scp.holder, claims |-> Claims(name, 95),
   expiresAt |-> run.validUntil, revokeReason |-> Absent, updateReason |-> Absent]

Minted(name) == run.id[name] \in active /\ ledger[run.id[name]] = Mint(name)

NftOf(nft, name) ==
  /\ run.id[nft] \in active
  /\ ledger[run.id[nft]] =
       [template |-> "KycNFT", issuer |-> Scp.issuer,
        boundCredentialId |-> run.id[name]]

\* The credential is archived.
Gone(name) == run.id[name] \in 1..Len(ledger) /\ run.id[name] \notin active

\* The credential the revoke left behind.
Sibling == run.id["nftB"] + 1

Stamped ==
  /\ Sibling \in active
  /\ \E reason \in Text :
       ledger[Sibling] = [Mint("B") EXCEPT !.revokeReason = reason]
  /\ origin[Sibling] = run.id["B"]

FactoryOfRun ==
  /\ run.factory \in active
  /\ ledger[run.factory] =
       [template |-> "CredentialFactory", admin |-> Scp.admin,
        issuer |-> Scp.issuer, holder |-> Scp.holder]

Refreshed ==
  /\ run.id["D2"] \in active
  /\ ledger[run.id["D2"]] =
       [Mint("D") EXCEPT !.claims = Claims("D", 99), !.expiresAt = MaxClock]

\* What the run has on the ledger before step pc.
Holds ==
  /\ run.pc >= 2 => Minted("A")
  /\ run.pc = 5 => NftOf("nftA", "A")
  /\ run.pc \in 8..9 => Minted("B") /\ origin[run.id["B"]] = run.id["B"]
  /\ run.pc = 9 => NftOf("nftB", "B") /\ run.id["nftB"] = Len(ledger)
  /\ run.pc >= 10 => Stamped /\ Gone("B")
  /\ run.pc = 12 => Minted("C")
  /\ run.pc >= 13 => Gone("C")
  /\ run.pc \in 15..16 => Minted("D")
  /\ run.pc = 16 => FactoryOfRun
  /\ run.pc >= 17 => Gone("D") /\ Refreshed

\* And that it has nothing else.
Accounted(c) ==
  \/ run.pc >= 2 /\ c = run.id["A"]
  \/ run.pc = 5 /\ c = run.id["nftA"]
  \/ run.pc \in 8..9 /\ c = run.id["B"]
  \/ run.pc = 9 /\ c = run.id["nftB"]
  \/ run.pc >= 10 /\ c = Sibling
  \/ run.pc = 12 /\ c = run.id["C"]
  \/ run.pc \in 15..16 /\ c = run.id["D"]
  \/ run.pc = 16 /\ c = run.factory
  \/ run.pc >= 17 /\ c = run.id["D2"]

OwnIsAccounted ==
  \A c \in active : ledger[c].issuer = Scp.issuer => Accounted(c)

OnTrack == run.at # "failed" /\ runs > 0 => Holds /\ OwnIsAccounted

Global == OfARun /\ NftsAreBound /\ FactoriesAreLeft

E2EInv == TypeOK /\ RunTypes /\ Global /\ OnTrack /\ AssertsHold

-----------------------------------------------------------------------------
(* The program.                                                            *)

LEMMA Table ==
  /\ run.script = "firm" =>
       /\ Len(Program) = 2
       /\ Program[1] = Does("mint", "A") /\ Program[2] = Does("verify", "A")
  /\ run.script # "firm" =>
       /\ Len(Program) = 18
       /\ Program[1] = Does("mint", "A") /\ Program[2] = Does("verify", "A")
       /\ Program[3] = Does("wrong admin", "A")
       /\ Program[4] = Does("nft", "A") /\ Program[5] = Does("burn", "A")
       /\ Program[6] = Does("burnt", "A") /\ Program[7] = Does("mint", "B")
       /\ Program[8] = Does("nft", "B") /\ Program[9] = Does("revoke", "B")
       /\ Program[10] = Does("revoked", "B") /\ Program[11] = Does("mint", "C")
       /\ Program[12] = Does("archive", "C") /\ Program[13] = Does("gone", "C")
       /\ Program[14] = Does("mint", "D") /\ Program[15] = Does("factory", "D")
       /\ Program[16] = Does("update", "D") /\ Program[17] = Does("gone", "D")
       /\ Program[18] = Does("refreshed", "D2")
  <1>1. CASE run.script = "firm"
    BY <1>1 DEF Program
  <1>2. CASE run.script # "firm"
    <2>1. Len(Program) = 18
      BY <1>2 DEF Program
    <2> QED
      BY <1>2, <2>1 DEF Program
  <1> QED
    BY <1>1, <1>2

\* Where in the program a step is.
IsNext(what, name) == Program[run.pc].do = what /\ Program[run.pc].name = name

LEMMA PlacedAt ==
  ASSUME NEW p, NEW what, NEW name, run.pc = p, Program[p] = Does(what, name)
  PROVE  IsNext(what, name)
  <1>1. Does(what, name).do = what /\ Does(what, name).name = name
    BY DEF Does
  <1> QED
    BY <1>1 DEF IsNext

LEMMA Positions ==
  ASSUME RunTypes, At("ledger")
  PROVE  /\ runs \in 1..MaxRuns /\ runs > 0
         /\ Scp \in Scope
         /\ \/ run.pc = 1 /\ IsNext("mint", "A")
            \/ run.pc = 2 /\ IsNext("verify", "A")
            \/ run.pc = 3 /\ IsNext("wrong admin", "A")
            \/ run.pc = 4 /\ IsNext("nft", "A")
            \/ run.pc = 5 /\ IsNext("burn", "A")
            \/ run.pc = 6 /\ IsNext("burnt", "A")
            \/ run.pc = 7 /\ IsNext("mint", "B")
            \/ run.pc = 8 /\ IsNext("nft", "B")
            \/ run.pc = 9 /\ IsNext("revoke", "B")
            \/ run.pc = 10 /\ IsNext("revoked", "B")
            \/ run.pc = 11 /\ IsNext("mint", "C")
            \/ run.pc = 12 /\ IsNext("archive", "C")
            \/ run.pc = 13 /\ IsNext("gone", "C")
            \/ run.pc = 14 /\ IsNext("mint", "D")
            \/ run.pc = 15 /\ IsNext("factory", "D")
            \/ run.pc = 16 /\ IsNext("update", "D")
            \/ run.pc = 17 /\ IsNext("gone", "D")
            \/ run.pc = 18 /\ IsNext("refreshed", "D2")
  <1>1. /\ runs \in 1..MaxRuns /\ runs > 0
        /\ run.pc \in 1..Len(Program)
    BY RunsAssumption DEF RunTypes, At
  <1>2. Scp \in Scope
    BY <1>1, RunsAssumption DEF Scp
  <1>3. CASE run.script = "firm"
    <2>1. Len(Program) = 2
      BY <1>3, Table, Zenon
    <2>2. run.pc \in 1..2
      BY <1>1, <2>1, Zenon
    <2>3. run.pc = 1 \/ run.pc = 2
      BY <2>2
    <2> QED
      BY <1>1, <1>2, <1>3, <2>3, Table, PlacedAt, Zenon
  <1>4. CASE run.script # "firm"
    <2>1. Len(Program) = 18
      BY <1>4, Table, Zenon
    <2>2. run.pc \in 1..18
      BY <1>1, <2>1, Zenon
    <2>3. \/ run.pc = 1 \/ run.pc = 2 \/ run.pc = 3 \/ run.pc = 4
          \/ run.pc = 5 \/ run.pc = 6 \/ run.pc = 7 \/ run.pc = 8
          \/ run.pc = 9 \/ run.pc = 10 \/ run.pc = 11 \/ run.pc = 12
          \/ run.pc = 13 \/ run.pc = 14 \/ run.pc = 15 \/ run.pc = 16
          \/ run.pc = 17 \/ run.pc = 18
      BY <2>2
    <2>5. \A p, what, name : Program[p] = Does(what, name) /\ run.pc = p
                               => IsNext(what, name)
      BY PlacedAt, Zenon
    <2>6. /\ Program[1] = Does("mint", "A")
          /\ Program[2] = Does("verify", "A")
          /\ Program[3] = Does("wrong admin", "A")
          /\ Program[4] = Does("nft", "A")
          /\ Program[5] = Does("burn", "A")
          /\ Program[6] = Does("burnt", "A")
          /\ Program[7] = Does("mint", "B")
          /\ Program[8] = Does("nft", "B")
          /\ Program[9] = Does("revoke", "B")
          /\ Program[10] = Does("revoked", "B")
          /\ Program[11] = Does("mint", "C")
          /\ Program[12] = Does("archive", "C")
          /\ Program[13] = Does("gone", "C")
          /\ Program[14] = Does("mint", "D")
          /\ Program[15] = Does("factory", "D")
          /\ Program[16] = Does("update", "D")
          /\ Program[17] = Does("gone", "D")
          /\ Program[18] = Does("refreshed", "D2")
      BY <1>4, Table, Zenon
    <2>11. run.pc = 1 => IsNext("mint", "A")
      BY <2>5, <2>6, Zenon
    <2>12. run.pc = 2 => IsNext("verify", "A")
      BY <2>5, <2>6, Zenon
    <2>13. run.pc = 3 => IsNext("wrong admin", "A")
      BY <2>5, <2>6, Zenon
    <2>14. run.pc = 4 => IsNext("nft", "A")
      BY <2>5, <2>6, Zenon
    <2>15. run.pc = 5 => IsNext("burn", "A")
      BY <2>5, <2>6, Zenon
    <2>16. run.pc = 6 => IsNext("burnt", "A")
      BY <2>5, <2>6, Zenon
    <2>17. run.pc = 7 => IsNext("mint", "B")
      BY <2>5, <2>6, Zenon
    <2>18. run.pc = 8 => IsNext("nft", "B")
      BY <2>5, <2>6, Zenon
    <2>19. run.pc = 9 => IsNext("revoke", "B")
      BY <2>5, <2>6, Zenon
    <2>20. run.pc = 10 => IsNext("revoked", "B")
      BY <2>5, <2>6, Zenon
    <2>21. run.pc = 11 => IsNext("mint", "C")
      BY <2>5, <2>6, Zenon
    <2>22. run.pc = 12 => IsNext("archive", "C")
      BY <2>5, <2>6, Zenon
    <2>23. run.pc = 13 => IsNext("gone", "C")
      BY <2>5, <2>6, Zenon
    <2>24. run.pc = 14 => IsNext("mint", "D")
      BY <2>5, <2>6, Zenon
    <2>25. run.pc = 15 => IsNext("factory", "D")
      BY <2>5, <2>6, Zenon
    <2>26. run.pc = 16 => IsNext("update", "D")
      BY <2>5, <2>6, Zenon
    <2>27. run.pc = 17 => IsNext("gone", "D")
      BY <2>5, <2>6, Zenon
    <2>28. run.pc = 18 => IsNext("refreshed", "D2")
      BY <2>5, <2>6, Zenon
    <2> QED
      BY <1>1, <1>2, <2>3, <2>11, <2>12, <2>13, <2>14, <2>15, <2>16, <2>17,
         <2>18, <2>19, <2>20, <2>21, <2>22, <2>23, <2>24, <2>25, <2>26, <2>27,
         <2>28, Zenon
  <1> QED
    BY <1>3, <1>4, Zenon

\* What is done at which step, and under which name.
LEMMA DueAt ==
  ASSUME RunTypes
  PROVE  /\ Due("mint") => \/ run.pc = 1 /\ Name = "A"
                           \/ run.pc = 7 /\ Name = "B"
                           \/ run.pc = 11 /\ Name = "C"
                           \/ run.pc = 14 /\ Name = "D"
         /\ Due("verify") => run.pc = 2 /\ Name = "A"
         /\ Due("wrong admin") => run.pc = 3 /\ Name = "A"
         /\ Due("nft") => (run.pc = 4 /\ Name = "A") \/ (run.pc = 8 /\ Name = "B")
         /\ Due("burn") => run.pc = 5 /\ Name = "A"
         /\ Due("burnt") => run.pc = 6 /\ Name = "A"
         /\ Due("revoke") => run.pc = 9 /\ Name = "B"
         /\ Due("revoked") => run.pc = 10 /\ Name = "B"
         /\ Due("archive") => run.pc = 12 /\ Name = "C"
         /\ Due("gone") => (run.pc = 13 /\ Name = "C") \/ (run.pc = 17 /\ Name = "D")
         /\ Due("factory") => run.pc = 15 /\ Name = "D"
         /\ Due("update") => run.pc = 16 /\ Name = "D"
         /\ Due("refreshed") => run.pc = 18 /\ Name = "D2"
  <1>2. Due("mint") => \/ run.pc = 1 /\ Name = "A"
                       \/ run.pc = 7 /\ Name = "B"
                       \/ run.pc = 11 /\ Name = "C"
                       \/ run.pc = 14 /\ Name = "D"
    BY Positions DEF Due, IsNext, Name
  <1>3. Due("nft") => (run.pc = 4 /\ Name = "A") \/ (run.pc = 8 /\ Name = "B")
    BY Positions DEF Due, IsNext, Name
  <1>4. Due("gone") => (run.pc = 13 /\ Name = "C") \/ (run.pc = 17 /\ Name = "D")
    BY Positions DEF Due, IsNext, Name
  <1>5. /\ Due("verify") => run.pc = 2 /\ Name = "A"
        /\ Due("wrong admin") => run.pc = 3 /\ Name = "A"
        /\ Due("burn") => run.pc = 5 /\ Name = "A"
        /\ Due("burnt") => run.pc = 6 /\ Name = "A"
    BY Positions DEF Due, IsNext, Name
  <1>6. /\ Due("revoke") => run.pc = 9 /\ Name = "B"
        /\ Due("revoked") => run.pc = 10 /\ Name = "B"
        /\ Due("archive") => run.pc = 12 /\ Name = "C"
    BY Positions DEF Due, IsNext, Name
  <1>7. /\ Due("factory") => run.pc = 15 /\ Name = "D"
        /\ Due("update") => run.pc = 16 /\ Name = "D"
        /\ Due("refreshed") => run.pc = 18 /\ Name = "D2"
    BY Positions DEF Due, IsNext, Name
  <1> QED
    BY <1>2, <1>3, <1>4, <1>5, <1>6, <1>7, Zenon

-----------------------------------------------------------------------------
(* What a transaction of a script does to the ledger.                      *)

Writes(consumed, created) ==
  /\ TypeOK'
  /\ Len(ledger) \in Nat
  /\ active' = (active \ consumed) \cup created
  /\ created \subseteq {NewId}
  /\ Len(ledger') >= Len(ledger)
  /\ created # {} => Len(ledger') = NewId
  /\ \A c \in 1..Len(ledger) : ledger'[c] = ledger[c] /\ origin'[c] = origin[c]

LEMMA WritesOne ==
  ASSUME TypeOK, NEW act \in SUBSET Party, NEW consumed,
         NEW k \in Contract, NEW o \in Nat,
         Commit(act, consumed, << k >>, << o >>)
  PROVE  /\ Writes(consumed, {NewId})
         /\ ledger'[NewId] = k /\ origin'[NewId] = o
  <1>1. /\ << k >> \in Seq(Contract) /\ Len(<< k >>) = 1 /\ << k >>[1] = k
        /\ << o >> \in Seq(Nat) /\ Len(<< o >>) = 1 /\ << o >>[1] = o
    OBVIOUS
  <1>2. /\ Len(ledger) \in Nat
        /\ TypeOK'
        /\ Len(ledger') = Len(ledger) + 1
        /\ \A c \in 1..Len(ledger) :
             ledger'[c] = ledger[c] /\ origin'[c] = origin[c]
        /\ ledger'[Len(ledger) + 1] = k /\ origin'[Len(ledger) + 1] = o
    <2> DEFINE produced == << k >>
               origins == << o >>
    <2>1. /\ produced \in Seq(Contract) /\ Len(produced) = 1 /\ produced[1] = k
          /\ origins \in Seq(Nat) /\ origins[1] = o
          /\ Len(origins) = Len(produced)
          /\ Commit(act, consumed, produced, origins)
      BY <1>1
    <2> HIDE DEF produced, origins
    <2>2. /\ Len(ledger) \in Nat
          /\ TypeOK'
          /\ Len(ledger') = Len(ledger) + Len(produced)
          /\ \A c \in 1..Len(ledger) :
               ledger'[c] = ledger[c] /\ origin'[c] = origin[c]
          /\ \A i \in 1..Len(produced) :
               /\ ledger'[Len(ledger) + i] = produced[i]
               /\ origin'[Len(ledger) + i] = origins[i]
      BY <2>1, CommitAfter, Zenon
    <2>3. 1 \in 1..Len(produced)
      BY <2>1
    <2>4. ledger'[Len(ledger) + 1] = k /\ origin'[Len(ledger) + 1] = o
      BY <2>1, <2>2, <2>3, Zenon
    <2> QED
      BY <2>1, <2>2, <2>4, Zenon
  <1>3. active' = (active \ consumed) \cup {NewId}
    BY <1>1, <1>2 DEF Commit, NewId
  <1> QED
    BY <1>2, <1>3 DEF Writes, NewId

LEMMA WritesNone ==
  ASSUME TypeOK, NEW act \in SUBSET Party, NEW consumed,
         Commit(act, consumed, << >>, << >>)
  PROVE  Writes(consumed, {})
  <1>1. << >> \in Seq(Contract) /\ << >> \in Seq(Nat) /\ Len(<< >>) = 0
    OBVIOUS
  <1>2. /\ Len(ledger) \in Nat
        /\ TypeOK'
        /\ Len(ledger') = Len(ledger) + Len(<< >>)
        /\ \A c \in 1..Len(ledger) :
             ledger'[c] = ledger[c] /\ origin'[c] = origin[c]
    BY <1>1, CommitAfter, Zenon
  <1>3. Len(ledger') = Len(ledger)
    BY <1>1, <1>2
  <1>4. active' = active \ consumed
    BY <1>1, <1>2 DEF Commit
  <1> QED
    BY <1>2, <1>3, <1>4 DEF Writes

\* The parties and the windows of a run are ones of the ledger.
LEMMA PartiesOfRun ==
  ASSUME RunTypes, At("ledger")
  PROVE  /\ runs \in 1..MaxRuns /\ Scp \in Scope
         /\ Scp.admin \in Party /\ Scp.issuer \in Party /\ Scp.holder \in Party
         /\ Both \in SUBSET Party /\ {Scp.issuer, Scp.holder} \subseteq Both
         /\ {Scp.issuer} \in SUBSET Party /\ {Scp.holder} \in SUBSET Party
         /\ run.validUntil \in Expiry /\ MaxClock \in Expiry
  <1>1. runs \in 1..MaxRuns /\ Scp \in Scope
    BY Positions, Zenon
  <1>2. Scp.admin \in Party /\ Scp.issuer \in Party /\ Scp.holder \in Party
    BY <1>1, ScopeAssumption
  <1>3. MaxClock \in 0..MaxClock
    BY RunsAssumption
  <1>4. run.validUntil \in Expiry /\ MaxClock \in Expiry
    BY <1>3, RunsAssumption, Zenon DEF RunTypes
  <1> QED
    BY <1>1, <1>2, <1>4 DEF Both

LEMMA ClaimsAreMaps ==
  ASSUME NEW name \in {"A", "B", "C", "D"}, NEW score \in {95, 99}
  PROVE  Claims(name, score) \in ClaimMap
  BY RunsAssumption DEF Claims

LEMMA MintWrites ==
  ASSUME TypeOK, RunTypes, Due("mint"),
         CreateCredential(Both, Scp, Claims(Name, 95), run.validUntil)
  PROVE  /\ Next
         /\ Writes({}, {NewId})
         /\ ledger'[NewId] = Mint(Name) /\ origin'[NewId] = NewId
  <1>1. At("ledger") /\ Name \in {"A", "B", "C", "D"}
    BY DueAt DEF Due
  <1> DEFINE claims == Claims(Name, 95)
  <1>2. claims \in ClaimMap
    BY <1>1, ClaimsAreMaps
  <1>3. claims # NoClaims
    BY DEF CreateCredential
  <1>4. Mint(Name) \in Contract
    <2>1. Mint(Name) =
            [template |-> "Credential", admin |-> Scp.admin,
             issuer |-> Scp.issuer, holder |-> Scp.holder, claims |-> claims,
             expiresAt |-> run.validUntil, revokeReason |-> Absent,
             updateReason |-> Absent]
      BY DEF Mint
    <2> HIDE DEF claims
    <2> QED
      BY <1>1, <1>2, <1>3, <2>1, PartiesOfRun DEF Contract, Credential
  <1>5. Commit(Both, {}, << Mint(Name) >>, << NewId >>)
    BY DEF CreateCredential, Mint, NewId
  <1>6. NewId \in Nat
    BY DEF TypeOK, NewId
  <1>7. Next
    <2> HIDE DEF claims
    <2>1. CreateCredential(Both, Scp, claims, run.validUntil)
      BY DEF claims
    <2> QED
      BY <1>1, <1>2, <2>1, PartiesOfRun, Zenon DEF Next, CredentialNext
  <1> QED
    BY <1>1, <1>4, <1>5, <1>6, <1>7, PartiesOfRun, WritesOne, Zenon

LEMMA NftWrites ==
  ASSUME TypeOK, RunTypes, Due("nft"), run.id[Name] \in Created("Credential"),
         CreateKycNft({Scp.issuer}, Scp.issuer, run.id[Name])
  PROVE  /\ Next
         /\ Writes({}, {NewId})
         /\ ledger'[NewId] =
              [template |-> "KycNFT", issuer |-> Scp.issuer,
               boundCredentialId |-> run.id[Name]]
  <1>1. At("ledger")
    BY DEF Due
  <1> DEFINE k == [template |-> "KycNFT", issuer |-> Scp.issuer,
                   boundCredentialId |-> run.id[Name]]
  <1>2. k \in Contract
    BY <1>1, PartiesOfRun DEF Contract, KycNFT, Created
  <1>3. Commit({Scp.issuer}, {}, << k >>, << 0 >>)
    BY DEF CreateKycNft
  <1>4. Next
    BY <1>1, PartiesOfRun, Zenon DEF Next, NftNext
  <1> HIDE DEF k
  <1>5. 0 \in Nat
    OBVIOUS
  <1>6. Writes({}, {NewId}) /\ ledger'[NewId] = k
    BY <1>1, <1>2, <1>3, <1>5, PartiesOfRun, WritesOne, Zenon
  <1> QED
    BY <1>4, <1>6 DEF k

LEMMA FactoryWrites ==
  ASSUME TypeOK, RunTypes, Due("factory"), CreateFactory(Both, Scp)
  PROVE  /\ Next
         /\ Writes({}, {NewId})
         /\ ledger'[NewId] =
              [template |-> "CredentialFactory", admin |-> Scp.admin,
               issuer |-> Scp.issuer, holder |-> Scp.holder]
  <1>1. At("ledger")
    BY DEF Due
  <1> DEFINE k == [template |-> "CredentialFactory", admin |-> Scp.admin,
                   issuer |-> Scp.issuer, holder |-> Scp.holder]
  <1>2. k \in Contract
    BY <1>1, PartiesOfRun DEF Contract, CredentialFactory
  <1>3. Commit(Both, {}, << k >>, << 0 >>)
    BY DEF CreateFactory
  <1>4. Next
    BY <1>1, PartiesOfRun, Zenon DEF Next, FactoryNext
  <1> HIDE DEF k
  <1>5. 0 \in Nat
    OBVIOUS
  <1>6. Writes({}, {NewId}) /\ ledger'[NewId] = k
    BY <1>1, <1>2, <1>3, <1>5, PartiesOfRun, WritesOne, Zenon
  <1> QED
    BY <1>4, <1>6 DEF k

LEMMA BurnWrites ==
  ASSUME TypeOK, RunTypes, Due("burn"), NEW n, BurnNft({Scp.issuer}, n)
  PROVE  Next /\ Writes({n}, {})
  <1>1. At("ledger")
    BY DEF Due
  <1>2. n \in Active("KycNFT") /\ Commit({Scp.issuer}, {n}, << >>, << >>)
    BY DEF BurnNft
  <1>3. Next
    BY <1>1, <1>2, PartiesOfRun, Zenon DEF Next, NftNext
  <1> QED
    BY <1>1, <1>2, <1>3, PartiesOfRun, WritesNone, Zenon

LEMMA ArchiveWrites ==
  ASSUME TypeOK, RunTypes, Due("archive"), NEW c,
         ArchiveAsHolder({Scp.holder}, c)
  PROVE  Next /\ Writes({c}, {})
  <1>1. At("ledger")
    BY DEF Due
  <1>2. /\ c \in Active("Credential")
        /\ Commit({Scp.holder}, {c}, << >>, << >>)
    BY DEF ArchiveAsHolder
  <1>3. Next
    BY <1>1, <1>2, PartiesOfRun, Zenon DEF Next, CredentialNext
  <1> QED
    BY <1>1, <1>2, <1>3, PartiesOfRun, WritesNone, Zenon

LEMMA RevokeWrites ==
  ASSUME TypeOK, RunTypes, Due("revoke"), NEW c, NEW n, n # NoContract,
         NEW reason \in Text, RevokeCredential({Scp.issuer}, c, n, reason)
  PROVE  /\ Next
         /\ Writes({c, n}, {NewId})
         /\ ledger'[NewId] = [ledger[c] EXCEPT !.revokeReason = reason]
         /\ origin'[NewId] = origin[c]
  <1>1. At("ledger")
    BY DEF Due
  <1>2. /\ c \in Active("Credential") /\ n \in Created("KycNFT")
        /\ Commit({Scp.issuer}, {c, n},
                  << [ledger[c] EXCEPT !.revokeReason = reason] >>,
                  << origin[c] >>)
    BY DEF RevokeCredential, Cascades, Active
  <1>3. Next
    BY <1>1, <1>2, PartiesOfRun, Zenon DEF Next, CredentialNext
  <1> DEFINE k == [ledger[c] EXCEPT !.revokeReason = reason]
  <1>4. ledger[c] \in Credential /\ origin[c] \in Nat
    BY <1>2, ActiveCredential
  <1>5. k \in Contract
    BY <1>4 DEF Contract, Credential
  <1> HIDE DEF k
  <1>6. Commit({Scp.issuer}, {c, n}, << k >>, << origin[c] >>)
    BY <1>2 DEF k
  <1>7. /\ Writes({c, n}, {NewId})
        /\ ledger'[NewId] = k /\ origin'[NewId] = origin[c]
    BY <1>1, <1>4, <1>5, <1>6, PartiesOfRun, WritesOne, Zenon
  <1> QED
    BY <1>3, <1>7 DEF k

LEMMA UpdateWrites ==
  ASSUME TypeOK, RunTypes, Due("update"), NEW f, NEW c,
         FactoryUpdateCredentials(Both, f,
           <<[credentialId |-> c, newClaims |-> Claims(Name, 99),
              newExpiresAt |-> MaxClock]>>)
  PROVE  /\ Next
         /\ Writes({f, c}, {NewId})
         /\ ledger'[NewId] = [ledger[c] EXCEPT !.claims = Claims(Name, 99),
                                               !.expiresAt = MaxClock]
  <1>1. At("ledger") /\ Name \in {"A", "B", "C", "D"}
    BY DueAt DEF Due
  <1> DEFINE u == [credentialId |-> c, newClaims |-> Claims(Name, 99),
                   newExpiresAt |-> MaxClock]
             updates == << u >>
  <1>2. /\ Len(updates) = 1 /\ updates[1] = u
        /\ u.credentialId = c /\ u.newClaims = Claims(Name, 99)
        /\ u.newExpiresAt = MaxClock
    OBVIOUS
  <1>3. Accepts(f, updates, 1) /\ f \in Active("CredentialFactory")
    BY <1>2 DEF FactoryUpdateCredentials
  <1>4. c \in Active("Credential") /\ c \in Created("Credential")
    BY <1>2, <1>3 DEF Accepts, Active
  <1>5. u \in Update
    <2>1. Claims(Name, 99) \in ClaimMap
      BY <1>1, ClaimsAreMaps
    <2> QED
      BY <1>1, <1>4, <2>1, PartiesOfRun DEF Update
  <1> HIDE DEF u
  <1>6. updates \in BulkUpdates
    <2>1. updates \in [1..1 -> Update] /\ 1 \in 1..MaxUpdates
      BY <1>5, RunsAssumption, BoundAssumption
    <2> HIDE DEF updates
    <2> QED
      BY <2>1 DEF BulkUpdates
  <1>7. FactoryUpdateCredentials(Both, f, updates)
    BY DEF u
  <1> DEFINE consumed == {f} \cup {updates[i].credentialId : i \in 1..Len(updates)}
             produced == [i \in 1..Len(updates) |-> Rewritten(updates[i])]
             origins == [i \in 1..Len(updates) |-> origin[updates[i].credentialId]]
  <1>8. /\ consumed = {f, c}
        /\ 1 \in DOMAIN produced /\ produced[1] = Rewritten(u)
    BY <1>2
  <1> HIDE DEF updates
  <1>9. Transaction(Both, consumed, produced, origins)
    BY <1>1, <1>3, <1>6, <1>7, PartiesOfRun, FactoryUpdateIsTransaction, Zenon
  <1>10. Next
    BY <1>1, <1>3, <1>6, <1>7, PartiesOfRun, Zenon DEF Next, FactoryNext
  <1>11. Len(produced) = 1
    <2>1. produced \in Seq(Contract)
      BY <1>9, Zenon DEF Transaction
    <2>2. DOMAIN produced = 1..1
      BY <1>2
    <2> HIDE DEF produced
    <2> QED
      BY <2>1, <2>2, LenProperties
  <1> HIDE DEF consumed, produced, origins
  <1>12. /\ Len(ledger) \in Nat
         /\ TypeOK'
         /\ Len(ledger') = Len(ledger) + Len(produced)
         /\ \A d \in 1..Len(ledger) :
              ledger'[d] = ledger[d] /\ origin'[d] = origin[d]
         /\ \A i \in 1..Len(produced) :
              /\ ledger'[Len(ledger) + i] = produced[i]
              /\ origin'[Len(ledger) + i] = origins[i]
    BY <1>9, LedgerAfter
  <1>13. ledger'[NewId] = Rewritten(u) /\ Len(ledger') = NewId
    BY <1>8, <1>11, <1>12 DEF NewId
  <1>14. active' = (active \ consumed) \cup {NewId}
    <2>1. active' = (active \ consumed)
                     \cup (Len(ledger) + 1 .. Len(ledger) + Len(produced))
      BY <1>9 DEF Transaction, Commit
    <2> QED
      BY <2>1, <1>11, <1>12 DEF NewId
  <1>15. Writes({f, c}, {NewId})
    BY <1>8, <1>12, <1>13, <1>14 DEF Writes, NewId
  <1> QED
    BY <1>2, <1>10, <1>13, <1>15 DEF Rewritten

-----------------------------------------------------------------------------
(* What stays.                                                             *)

\* The run goes on with the parties and the window it has.
SameRun ==
  /\ runs' = runs
  /\ run'.script = run.script
  /\ run'.validUntil = run.validUntil
  /\ run'.now = run.now

\* A contract that is not consumed stays as it is.
LEMMA Stays ==
  ASSUME TypeOK, NEW consumed, NEW created, Writes(consumed, created)
  PROVE  /\ TypeOK'
         /\ active \subseteq 1..Len(ledger)
         /\ \A c \in active :
              /\ c \in 1..Len(ledger) /\ c \in 1..Len(ledger')
              /\ ledger'[c] = ledger[c] /\ origin'[c] = origin[c]
              /\ c \notin consumed => c \in active'
         /\ \A c \in 1..Len(ledger) :
              /\ c \notin active \/ c \in consumed => c \notin active'
              /\ c \in 1..Len(ledger')
              /\ c \notin created
         /\ \A c \in active' : (c \in active /\ c \notin consumed) \/ c \in created
  BY DEF TypeOK, Writes, NewId

LEMMA MintedStays ==
  ASSUME TypeOK, NEW consumed, NEW created, Writes(consumed, created), SameRun,
         NEW name \in Names, Minted(name), run.id[name] \notin consumed,
         run'.id[name] = run.id[name]
  PROVE  Minted(name)'
  <1>1. Scp' = Scp /\ run'.validUntil = run.validUntil
    BY DEF SameRun, Scp
  <1>2. Mint(name)' = Mint(name)
    BY <1>1 DEF Mint, Claims
  <1>3. run.id[name] \in active /\ ledger[run.id[name]] = Mint(name)
    BY DEF Minted
  <1>4. run.id[name] \in active' /\ ledger'[run.id[name]] = Mint(name)
    BY <1>3, Stays
  <1> QED
    BY <1>2, <1>4 DEF Minted

LEMMA NftStays ==
  ASSUME TypeOK, NEW consumed, NEW created, Writes(consumed, created), SameRun,
         NEW nft \in Names, NEW name \in Names, NftOf(nft, name),
         run.id[nft] \notin consumed,
         run'.id[nft] = run.id[nft], run'.id[name] = run.id[name]
  PROVE  NftOf(nft, name)'
  <1>1. Scp' = Scp
    BY DEF SameRun, Scp
  <1>2. /\ run.id[nft] \in active' 
        /\ ledger'[run.id[nft]] = ledger[run.id[nft]]
    BY Stays DEF NftOf
  <1> QED
    BY <1>1, <1>2 DEF NftOf

LEMMA GoneStays ==
  ASSUME TypeOK, NEW consumed, NEW created, Writes(consumed, created),
         NEW name \in Names,
         Gone(name) \/ (run.id[name] \in active /\ run.id[name] \in consumed),
         run'.id[name] = run.id[name]
  PROVE  Gone(name)'
  <1>1. /\ run.id[name] \in 1..Len(ledger)
        /\ run.id[name] \notin active \/ run.id[name] \in consumed
    BY Stays DEF Gone
  <1>2. run.id[name] \in 1..Len(ledger') /\ run.id[name] \notin active'
    BY <1>1, Stays
  <1> QED
    BY <1>2 DEF Gone

LEMMA StampedStays ==
  ASSUME TypeOK, NEW consumed, NEW created, Writes(consumed, created), SameRun,
         Stamped, Sibling \notin consumed,
         run'.id["nftB"] = run.id["nftB"], run'.id["B"] = run.id["B"]
  PROVE  Stamped' /\ Sibling' = Sibling
  <1>1. Scp' = Scp /\ run'.validUntil = run.validUntil /\ Sibling' = Sibling
    BY DEF SameRun, Scp, Sibling
  <1>2. Mint("B")' = Mint("B")
    BY <1>1 DEF Mint, Claims
  <1>3. /\ Sibling \in active
        /\ \E reason \in Text :
             ledger[Sibling] = [Mint("B") EXCEPT !.revokeReason = reason]
        /\ origin[Sibling] = run.id["B"]
    BY DEF Stamped
  <1>4. /\ Sibling \in active' /\ ledger'[Sibling] = ledger[Sibling]
        /\ origin'[Sibling] = run.id["B"]
    BY <1>3, Stays
  <1> QED
    BY <1>1, <1>2, <1>3, <1>4 DEF Stamped

LEMMA FactoryStays ==
  ASSUME TypeOK, NEW consumed, NEW created, Writes(consumed, created), SameRun,
         FactoryOfRun, run.factory \notin consumed, run'.factory = run.factory
  PROVE  FactoryOfRun'
  <1>1. Scp' = Scp
    BY DEF SameRun, Scp
  <1>2. run.factory \in active' /\ ledger'[run.factory] = ledger[run.factory]
    BY Stays DEF FactoryOfRun
  <1> QED
    BY <1>1, <1>2 DEF FactoryOfRun

LEMMA RefreshedStays ==
  ASSUME TypeOK, NEW consumed, NEW created, Writes(consumed, created), SameRun,
         Refreshed, run.id["D2"] \notin consumed,
         run'.id["D2"] = run.id["D2"]
  PROVE  Refreshed'
  <1>1. Scp' = Scp /\ run'.validUntil = run.validUntil
    BY DEF SameRun, Scp
  <1>2. Mint("D")' = Mint("D")
    BY <1>1 DEF Mint, Claims
  <1>3. /\ run.id["D2"] \in active'
        /\ ledger'[run.id["D2"]] = ledger[run.id["D2"]]
    BY Stays DEF Refreshed
  <1> QED
    BY <1>2, <1>3 DEF Refreshed, Claims

\* What is true of the ledger whether or not the script hears of the
\* transaction.
LEMMA GlobalStays ==
  ASSUME TypeOK, RunTypes, OfARun, NftsAreBound,
         NEW consumed, NEW created, Writes(consumed, created), runs' = runs,
         runs > 0, \A c \in created : ledger'[c].issuer = Scp.issuer,
         \A n \in Active("KycNFT") :
           ledger[n].boundCredentialId \in consumed => n \in consumed,
         \A n \in created : ledger'[n].template = "KycNFT" =>
           LET c == ledger'[n].boundCredentialId
           IN /\ c \in Active("Credential") /\ c \notin consumed
              /\ ledger[c].issuer = Scp.issuer
  PROVE  OfARun' /\ NftsAreBound'
  <1>1. runs \in 1..runs
    BY DEF RunTypes
  <1>2. OfARun'
    <2> SUFFICES ASSUME NEW c \in active'
                 PROVE  \E r \in 1..runs' : ledger'[c].issuer = scopeOf[r].issuer
      BY DEF OfARun
    <2>1. CASE c \in active /\ c \notin consumed
      BY <2>1, Stays DEF OfARun
    <2>2. CASE c \in created
      BY <2>2, <1>1 DEF Scp
    <2> QED
      BY <2>1, <2>2, Stays
  <1>3. \A c \in Active("Credential") :
          c \notin consumed =>
            c \in Active("Credential")' /\ ledger'[c] = ledger[c]
    BY Stays DEF Active, Created
  <1>4. NftsAreBound'
    <2> SUFFICES ASSUME NEW n \in active', ledger'[n].template = "KycNFT"
                 PROVE  LET c == ledger'[n].boundCredentialId
                        IN /\ c \in Active("Credential")'
                           /\ ledger'[c].issuer = ledger'[n].issuer
      BY DEF NftsAreBound, Active, Created
    <2>1. CASE n \in active /\ n \notin consumed
      <3>1. ledger'[n] = ledger[n] /\ n \in Active("KycNFT")
        BY <2>1, Stays DEF Active, Created
      <3> DEFINE c == ledger[n].boundCredentialId
      <3>2. /\ c \in Active("Credential") /\ ledger[c].issuer = ledger[n].issuer
            /\ c \notin consumed
        BY <3>1, <2>1 DEF NftsAreBound
      <3> QED
        BY <3>1, <3>2, <1>3
    <2>2. CASE n \in created
      BY <2>2, <1>3
    <2> QED
      BY <2>1, <2>2, Stays
  <1> QED
    BY <1>2, <1>4

\* The NFTs of the run's issuer are the ones the script knows of.
LEMMA NftsOfRun ==
  ASSUME TypeOK, Holds, OwnIsAccounted, run.pc \in 1..19,
         NEW n \in Active("KycNFT"), ledger[n].issuer = Scp.issuer
  PROVE  \/ run.pc = 5 /\ n = run.id["nftA"]
         \/ run.pc = 9 /\ n = run.id["nftB"]
  <1>1. n \in active /\ ledger[n].template = "KycNFT" /\ Accounted(n)
    BY DEF Active, Created, OwnIsAccounted
  <1>2. \A name \in Names : Minted(name) => n # run.id[name]
    BY <1>1 DEF Minted, Mint
  <1>3. Stamped => n # Sibling
    <2> SUFFICES ASSUME Stamped PROVE n # Sibling
      OBVIOUS
    <2>1. PICK reason \in Text :
            ledger[Sibling] = [Mint("B") EXCEPT !.revokeReason = reason]
      BY DEF Stamped
    <2> QED
      BY <2>1, <1>1 DEF Mint
  <1>4. FactoryOfRun => n # run.factory
    BY <1>1 DEF FactoryOfRun
  <1>5. Refreshed => n # run.id["D2"]
    BY <1>1 DEF Refreshed, Mint
  <1>6. "A" \in Names /\ "B" \in Names /\ "C" \in Names /\ "D" \in Names
    BY DEF Names
  <1> QED
    BY <1>1, <1>2, <1>3, <1>4, <1>5, <1>6 DEF Holds, Accounted

\* So are its factories.
LEMMA FactoriesOfRun ==
  ASSUME TypeOK, Holds, OwnIsAccounted, run.pc \in 1..19,
         NEW f \in Active("CredentialFactory"), ledger[f].issuer = Scp.issuer
  PROVE  run.pc = 16 /\ f = run.factory
  <1>1. f \in active /\ ledger[f].template = "CredentialFactory" /\ Accounted(f)
    BY DEF Active, Created, OwnIsAccounted
  <1>2. \A name \in Names : Minted(name) => f # run.id[name]
    BY <1>1 DEF Minted, Mint
  <1>3. Stamped => f # Sibling
    <2> SUFFICES ASSUME Stamped PROVE f # Sibling
      OBVIOUS
    <2>1. PICK reason \in Text :
            ledger[Sibling] = [Mint("B") EXCEPT !.revokeReason = reason]
      BY DEF Stamped
    <2> QED
      BY <2>1, <1>1 DEF Mint
  <1>4. \A nft, name \in Names : NftOf(nft, name) => f # run.id[nft]
    BY <1>1 DEF NftOf
  <1>5. Refreshed => f # run.id["D2"]
    BY <1>1 DEF Refreshed, Mint
  <1>6. /\ "A" \in Names /\ "B" \in Names /\ "C" \in Names /\ "D" \in Names
        /\ "nftA" \in Names /\ "nftB" \in Names
    BY DEF Names
  <1> QED
    BY <1>1, <1>2, <1>3, <1>4, <1>5, <1>6 DEF Holds, Accounted

\* The contracts a run knows are distinct: each has its own payload.
LEMMA Distinct ==
  /\ \A n, m \in Names :
       Minted(n) /\ Minted(m) /\ n # m => run.id[n] # run.id[m]
  /\ \A n, m, k \in Names : Minted(n) /\ NftOf(m, k) => run.id[n] # run.id[m]
  /\ \A n \in Names : Minted(n) /\ Stamped /\ n # "B" => run.id[n] # Sibling
  /\ \A n \in Names : Minted(n) /\ FactoryOfRun => run.id[n] # run.factory
  /\ FactoryOfRun /\ Stamped => run.factory # Sibling
  <1>1. \A n : Mint(n).claims.subject = n /\ Mint(n).template = "Credential"
    BY DEF Mint, Claims
  <1>2. Stamped => /\ ledger[Sibling].claims.subject = "B"
                   /\ ledger[Sibling].template = "Credential"
    <2> SUFFICES ASSUME Stamped
                 PROVE  /\ ledger[Sibling].claims.subject = "B"
                        /\ ledger[Sibling].template = "Credential"
      OBVIOUS
    <2>1. PICK reason \in Text :
            ledger[Sibling] = [Mint("B") EXCEPT !.revokeReason = reason]
      BY DEF Stamped
    <2> QED
      BY <2>1 DEF Mint, Claims
  <1>3. \A n : Minted(n) => /\ ledger[run.id[n]].claims.subject = n
                            /\ ledger[run.id[n]].template = "Credential"
    BY <1>1, Zenon DEF Minted
  <1>4. FactoryOfRun => ledger[run.factory].template = "CredentialFactory"
    BY DEF FactoryOfRun
  <1>5. \A m, k : NftOf(m, k) => ledger[run.id[m]].template = "KycNFT"
    BY DEF NftOf
  <1>6. \A n, m \in Names :
          Minted(n) /\ Minted(m) /\ n # m => run.id[n] # run.id[m]
    BY <1>3
  <1>7. \A n, m, k \in Names :
          Minted(n) /\ NftOf(m, k) => run.id[n] # run.id[m]
    BY <1>3, <1>5
  <1>8. \A n \in Names : Minted(n) /\ Stamped /\ n # "B" => run.id[n] # Sibling
    BY <1>2, <1>3, Zenon
  <1>9. \A n \in Names : Minted(n) /\ FactoryOfRun => run.id[n] # run.factory
    BY <1>3, <1>4
  <1>10. FactoryOfRun /\ Stamped => run.factory # Sibling
    BY <1>2, <1>4
  <1> QED
    BY <1>6, <1>7, <1>8, <1>9, <1>10

\* Nothing but the new contract is added to what a run accounts for.
LEMMA OwnStays ==
  ASSUME TypeOK, OwnIsAccounted, SameRun,
         NEW consumed, NEW created, Writes(consumed, created),
         \A c : Accounted(c) /\ c \notin consumed => Accounted(c)',
         \A c \in created : Accounted(c)'
  PROVE  OwnIsAccounted'
  <1> SUFFICES ASSUME NEW c \in active', ledger'[c].issuer = Scp'.issuer
               PROVE  Accounted(c)'
    BY DEF OwnIsAccounted
  <1>1. Scp' = Scp
    BY DEF SameRun, Scp
  <1>2. CASE c \in active /\ c \notin consumed
    <2>1. ledger'[c] = ledger[c]
      BY <1>2, Stays
    <2> QED
      BY <1>1, <1>2, <2>1 DEF OwnIsAccounted
  <1>3. CASE c \in created
    BY <1>3
  <1> QED
    BY <1>2, <1>3, Stays

-----------------------------------------------------------------------------
(* Steps at the ledger.                                                    *)

\* What a run may do to the ledger without harm to what others left there.
Harmless(consumed, created) ==
  /\ \A c \in created : ledger'[c].issuer = Scp.issuer
  /\ \A n \in Active("KycNFT") :
       ledger[n].boundCredentialId \in consumed => n \in consumed
  /\ \A n \in created : ledger'[n].template = "KycNFT" =>
       LET c == ledger'[n].boundCredentialId
       IN /\ c \in Active("Credential") /\ c \notin consumed
          /\ ledger[c].issuer = Scp.issuer
  /\ \A f \in created : ledger'[f].template = "CredentialFactory" =>
       run.pc = 15 /\ InScope(ledger'[f], Scp)

\* The program goes on to its next step.
GoesOn ==
  /\ SameRun /\ clock' = clock
  /\ DOMAIN run' = RunField /\ DOMAIN run'.id = Names
  /\ run'.error = run.error
  /\ run'.pc = run.pc + 1
  /\ run'.at = IF run.pc = Len(Program) THEN "passed" ELSE "ledger"

Known(name) == run'.id[name] = run.id[name]

LEMMA AdvancedGoesOn ==
  ASSUME RunTypes, At("ledger"), runs' = runs, clock' = clock, run' = Advanced
  PROVE  GoesOn /\ (\A name \in Names : Known(name)) /\ run'.factory = run.factory
  BY DEF RunTypes, RunField, Advanced, GoesOn, SameRun, At, Known

LEMMA CreatedGoesOn ==
  ASSUME RunTypes, At("ledger"), runs' = runs, clock' = clock,
         NEW X \in Names, NEW new, run' = [Advanced EXCEPT !.id[X] = new]
  PROVE  /\ GoesOn
         /\ run'.id[X] = new /\ (\A name \in Names : name # X => Known(name))
         /\ run'.factory = run.factory
  BY DEF RunTypes, RunField, Advanced, GoesOn, SameRun, At, Known

LEMMA FactoryGoesOn ==
  ASSUME RunTypes, At("ledger"), runs' = runs, clock' = clock,
         NEW new, run' = [Advanced EXCEPT !.factory = new]
  PROVE  /\ GoesOn /\ (\A name \in Names : Known(name)) /\ run'.factory = new
  BY DEF RunTypes, RunField, Advanced, GoesOn, SameRun, At, Known

LEMMA GoesOnTypes ==
  ASSUME RunTypes, At("ledger"), GoesOn
  PROVE  RunTypes'
  <1>1. Program' = Program
    BY DEF GoesOn, SameRun, Program, Does
  <1>2. /\ run.pc \in 1..Len(Program) /\ run.now <= clock /\ runs > 0
        /\ run.script \in Script
    BY DEF RunTypes, At
  <1>3. Len(Program) = 2 \/ Len(Program) = 18
    BY Table, Zenon
  <1>4. run'.pc \in 1..19 /\ run'.pc = run.pc + 1
    <2>1. run.pc \in 1..2 \/ run.pc \in 1..18
      BY <1>2, <1>3, Zenon
    <2>2. run'.pc = run.pc + 1
      BY DEF GoesOn
    <2> QED
      BY <2>1, <2>2
  <1>5. /\ run'.at = "ledger" => run'.pc \in 1..Len(Program)
        /\ run'.at = "passed" => run'.pc = Len(Program) + 1
        /\ run'.at \in {"ledger", "passed"}
    BY <1>2, <1>3 DEF GoesOn
  <1>6. run'.error # "assertion"
    BY DEF RunTypes, At, GoesOn
  <1>7. run'.at \in Place
    BY <1>5 DEF Place
  <1> QED
    BY <1>1, <1>2, <1>4, <1>5, <1>6, <1>7 DEF RunTypes, GoesOn, SameRun

LEMMA FactoriesStay ==
  ASSUME TypeOK, RunTypes, At("ledger"), Holds, OwnIsAccounted,
         FactoriesAreLeft, SameRun,
         NEW consumed, NEW created, Writes(consumed, created),
         Harmless(consumed, created),
         \/ run'.pc = run.pc
         \/ run'.pc = run.pc + 1 /\ (run.pc = 16 => run.factory \in consumed)
  PROVE  FactoriesAreLeft'
  <1>1. Program' = Program /\ Scp' = Scp /\ runs' = runs
    BY DEF SameRun, Program, Does, Scp
  <1> SUFFICES ASSUME NEW f \in active',
                      ledger'[f].template = "CredentialFactory"
               PROVE  \/ /\ InScope(ledger'[f], Scp)
                         /\ Program[run'.pc].do \in {"factory", "update"}
                      \/ \E r \in 1..(runs - 1) : InScope(ledger'[f], scopeOf[r])
    BY <1>1 DEF FactoriesAreLeft, Active, Created
  <1>2. CASE f \in active /\ f \notin consumed
    <2>1. ledger'[f] = ledger[f] /\ f \in Active("CredentialFactory")
      BY <1>2, Stays DEF Active, Created
    <2>2. CASE run'.pc = run.pc
      BY <2>1, <2>2 DEF FactoriesAreLeft
    <2>3. CASE run'.pc = run.pc + 1 /\ (run.pc = 16 => run.factory \in consumed)
      <3>1. run.pc \in 1..19
        BY DEF RunTypes
      <3>2. ~InScope(ledger[f], Scp)
        BY <1>2, <2>1, <2>3, <3>1, FactoriesOfRun DEF InScope
      <3> QED
        BY <2>1, <3>2 DEF FactoriesAreLeft
    <2> QED
      BY <2>2, <2>3
  <1>3. CASE f \in created
    <2>1. run.pc = 15 /\ InScope(ledger'[f], Scp)
      BY <1>3 DEF Harmless
    <2>2. run.script # "firm"
      <3>1. run.script = "firm" => Len(Program) = 2
        BY Table, Zenon
      <3>2. run.pc \in 1..Len(Program)
        BY Zenon DEF RunTypes, At
      <3>3. ~(15 \in 1..2)
        OBVIOUS
      <3> QED
        BY <2>1, <3>1, <3>2, <3>3, Zenon
    <2>3. Program[15].do = "factory" /\ Program[16].do = "update"
      <3>1. /\ Program[15] = Does("factory", "D")
            /\ Program[16] = Does("update", "D")
        BY <2>2, Table, Zenon
      <3> QED
        BY <3>1 DEF Does
    <2>4. run'.pc = 15 \/ run'.pc = 16
      BY <2>1
    <2> QED
      BY <2>1, <2>3, <2>4
  <1> QED
    BY <1>2, <1>3, Stays

LEMMA StopsTypes ==
  ASSUME RunTypes, NEW reason, Stops(reason), runs' = runs, clock' = clock,
         runs > 0
  PROVE  /\ RunTypes' /\ SameRun
         /\ run'.pc = run.pc /\ run'.at = "failed" /\ run'.error = reason
  <1>1. /\ DOMAIN run' = RunField
        /\ run'.at = "failed" /\ run'.error = reason
        /\ \A field \in RunField \ {"at", "error"} : run'[field] = run[field]
    BY DEF RunTypes, RunField, Stops
  <1>2. /\ run'.script = run.script /\ run'.pc = run.pc
        /\ run'.now = run.now /\ run'.validUntil = run.validUntil
        /\ run'.id = run.id
    BY <1>1 DEF RunField
  <1>3. Program' = Program
    BY <1>2 DEF Program, Does
  <1>4. run'.at \in Place
    BY <1>1 DEF Place
  <1> QED
    BY <1>1, <1>2, <1>3, <1>4 DEF RunTypes, SameRun

LEMMA UnchangedWrites ==
  ASSUME TypeOK, UNCHANGED vars
  PROVE  Writes({}, {}) /\ Harmless({}, {})
  <1>1. TypeOK'
    BY DEF vars, TypeOK
  <1>2. Len(ledger) \in Nat
    BY DEF TypeOK
  <1> QED
    BY <1>1, <1>2 DEF vars, Writes, Harmless

\* The answer is lost, or an assertion fails: the run stops where it is.
LEMMA StopsStep ==
  ASSUME E2EInv, At("ledger"), NEW reason, Stops(reason), runs' = runs,
         clock' = clock,
         NEW consumed, NEW created, Writes(consumed, created),
         Harmless(consumed, created),
         reason = "assertion" => run.pc = 2 /\ clock > run.validUntil
  PROVE  E2EInv'
  <1>1. /\ TypeOK /\ RunTypes /\ OfARun /\ NftsAreBound /\ FactoriesAreLeft
        /\ Holds /\ OwnIsAccounted /\ runs > 0
    BY Positions DEF E2EInv, Global, OnTrack, At
  <1>2. /\ RunTypes' /\ SameRun
        /\ run'.pc = run.pc /\ run'.at = "failed" /\ run'.error = reason
    BY <1>1, StopsTypes
  <1>3. TypeOK'
    BY DEF Writes
  <1>4. OfARun' /\ NftsAreBound'
    BY <1>1, GlobalStays DEF Harmless
  <1>5. FactoriesAreLeft'
    BY <1>1, <1>2, FactoriesStay
  <1>6. OnTrack'
    BY <1>2 DEF OnTrack
  <1>7. AssertsHold'
    <2> SUFFICES ASSUME reason = "assertion"
                 PROVE  Program'[run'.pc].do = "verify" /\ clock' > run'.validUntil
      BY <1>2 DEF AssertsHold
    <2>1. Program' = Program
      BY <1>2 DEF SameRun, Program, Does
    <2>2. Program[2] = Does("verify", "A")
      BY Table, Zenon
    <2>3. Program[2].do = "verify"
      BY <2>2 DEF Does
    <2> QED
      BY <1>2, <2>1, <2>3 DEF SameRun
  <1> QED
    BY <1>2, <1>3, <1>4, <1>5, <1>6, <1>7 DEF E2EInv, Global

\* The answer arrives, or the assertion holds: the run goes on.
LEMMA GoesOnStep ==
  ASSUME E2EInv, At("ledger"), GoesOn,
         NEW consumed, NEW created, Writes(consumed, created),
         Harmless(consumed, created),
         run.pc = 16 => run.factory \in consumed,
         Holds', OwnIsAccounted'
  PROVE  E2EInv'
  <1>1. /\ TypeOK /\ RunTypes /\ OfARun /\ NftsAreBound /\ FactoriesAreLeft
        /\ Holds /\ OwnIsAccounted /\ runs > 0
    BY Positions DEF E2EInv, Global, OnTrack, At
  <1>2. RunTypes' /\ SameRun /\ run'.pc = run.pc + 1 /\ run'.error = run.error
    BY <1>1, GoesOnTypes DEF GoesOn
  <1>3. TypeOK'
    BY DEF Writes
  <1>4. OfARun' /\ NftsAreBound'
    BY <1>1, <1>2, GlobalStays DEF Harmless, SameRun
  <1>5. FactoriesAreLeft'
    BY <1>1, <1>2, FactoriesStay
  <1>6. OnTrack'
    BY DEF OnTrack
  <1>7. run'.error # "assertion"
    BY <1>1, <1>2 DEF RunTypes, At
  <1>8. AssertsHold'
    BY <1>7 DEF AssertsHold
  <1> QED
    BY <1>2, <1>3, <1>4, <1>5, <1>6, <1>8 DEF E2EInv, Global

\* What is known of a run at the ledger.
LEMMA TrackFacts ==
  ASSUME E2EInv, At("ledger")
  PROVE  /\ TypeOK /\ RunTypes /\ NftsAreBound /\ Holds /\ OwnIsAccounted
         /\ runs > 0 /\ run.pc \in 1..19
  BY Positions DEF E2EInv, Global, OnTrack, At, RunTypes

LEMMA NoAnswer == "no answer" # "assertion"
  OBVIOUS

LEMMA MintCredentialStep ==
  ASSUME E2EInv, mintCredential
  PROVE  E2EInv' /\ [Next]_vars
  <1>0. /\ At("ledger") /\ Due("mint")
        /\ TypeOK /\ RunTypes /\ Holds /\ OwnIsAccounted
        /\ runs' = runs /\ clock' = clock
    BY TrackFacts DEF mintCredential, Due, Submits
  <1>1. PICK X : /\ X = Name
                 /\ \/ run.pc = 1 /\ X = "A"
                    \/ run.pc = 7 /\ X = "B"
                    \/ run.pc = 11 /\ X = "C"
                    \/ run.pc = 14 /\ X = "D"
    BY <1>0, DueAt
  <1>2. X \in Names
    BY <1>1 DEF Names
  <1>3. ASSUME CreateCredential(Both, Scp, Claims(X, 95), run.validUntil)
        PROVE  /\ Next /\ Writes({}, {NewId}) /\ Harmless({}, {NewId})
               /\ ledger'[NewId] = Mint(X) /\ origin'[NewId] = NewId
    <2>1. /\ Next /\ Writes({}, {NewId})
          /\ ledger'[NewId] = Mint(X) /\ origin'[NewId] = NewId
      BY <1>0, <1>1, <1>3, MintWrites, Zenon
    <2>2. Harmless({}, {NewId})
      BY <2>1 DEF Harmless, Mint
    <2> QED
      BY <2>1, <2>2
  <1>4. ASSUME CreateCredential(Both, Scp, Claims(X, 95), run.validUntil),
               run' = [Advanced EXCEPT !.id[X] = NewId]
        PROVE  E2EInv'
    <2>1. /\ Writes({}, {NewId}) /\ Harmless({}, {NewId})
          /\ ledger'[NewId] = Mint(X) /\ origin'[NewId] = NewId
      BY <1>3, <1>4
    <2>2. /\ GoesOn /\ SameRun /\ run'.pc = run.pc + 1
          /\ run'.id[X] = NewId
          /\ \A name \in Names : name # X => Known(name)
      BY <1>0, <1>2, <1>4, CreatedGoesOn DEF GoesOn
    <2>3. \A name \in Names : name # X =>
            /\ Minted(name) => Minted(name)'
            /\ Gone(name) => Gone(name)'
      BY <1>0, <2>1, <2>2, MintedStays, GoneStays DEF Known
    <2>4. Minted(X)'
      <3>1. Scp' = Scp /\ run'.validUntil = run.validUntil
        BY <2>2 DEF SameRun, Scp
      <3>2. Mint(X)' = Mint(X)
        BY <3>1, <1>1 DEF Mint, Claims
      <3>3. NewId \in active'
        BY <2>1 DEF Writes
      <3> QED
        BY <2>1, <2>2, <3>2, <3>3 DEF Minted
    <2>5. X # "B" /\ Stamped => Stamped' /\ Sibling' = Sibling
      <3>1. "B" \in Names /\ "nftB" \in Names /\ X # "nftB"
        BY <1>1 DEF Names
      <3> QED
        BY <1>0, <2>1, <2>2, <3>1, StampedStays DEF Known
    <2>6. Holds'
      <3>0. /\ "A" \in Names /\ "B" \in Names /\ "C" \in Names
        BY DEF Names
      <3>1. CASE run.pc = 1
        BY <3>1, <1>1, <2>2, <2>4 DEF Holds
      <3>2. CASE run.pc = 7
        <4>1. origin'[run'.id["B"]] = run'.id["B"] /\ X = "B"
          BY <3>2, <1>1, <2>1, <2>2
        <4> QED
          BY <3>0, <3>2, <4>1, <1>0, <2>2, <2>3, <2>4 DEF Holds
      <3>3. CASE run.pc = 11
        BY <3>0, <3>3, <1>0, <1>1, <2>2, <2>3, <2>4, <2>5 DEF Holds
      <3>4. CASE run.pc = 14
        BY <3>0, <3>4, <1>0, <1>1, <2>2, <2>3, <2>4, <2>5 DEF Holds
      <3> QED
        BY <1>1, <3>1, <3>2, <3>3, <3>4
    <2>7. OwnIsAccounted'
      BY <1>0, <1>1, <2>1, <2>2, <2>5, OwnStays DEF Accounted, Holds, Known, Names
    <2> QED
      BY <1>0, <1>1, <2>1, <2>2, <2>6, <2>7, GoesOnStep
  <1>5. ASSUME CreateCredential(Both, Scp, Claims(X, 95), run.validUntil),
               Stops("no answer")
        PROVE  E2EInv'
    BY <1>0, <1>3, <1>5, NoAnswer, StopsStep, Zenon
  <1>6. ASSUME UNCHANGED vars, Stops("no answer")
        PROVE  E2EInv'
    BY <1>0, <1>6, NoAnswer, UnchangedWrites, StopsStep, Zenon
  <1> QED
    BY <1>1, <1>3, <1>4, <1>5, <1>6 DEF mintCredential, Submits

\* A credential the script minted is an active one of its issuer.
LEMMA MintedIsActive ==
  ASSUME TypeOK, NEW name, Minted(name)
  PROVE  /\ run.id[name] \in Active("Credential")
         /\ run.id[name] \in Created("Credential")
         /\ ledger[run.id[name]].issuer = Scp.issuer
  <1>1. run.id[name] \in 1..Len(ledger)
    BY DEF TypeOK, Minted
  <1> QED
    BY <1>1 DEF Minted, Mint, Active, Created

LEMMA CreateKycNftStep ==
  ASSUME E2EInv, createKycNft
  PROVE  E2EInv' /\ [Next]_vars
  <1>0. /\ At("ledger") /\ Due("nft")
        /\ TypeOK /\ RunTypes /\ Holds /\ OwnIsAccounted
        /\ runs' = runs /\ clock' = clock
    BY TrackFacts DEF createKycNft, Due, Submits
  <1>1. PICK X, nft : /\ X = Name /\ nft = Nft(Name)
                      /\ \/ run.pc = 4 /\ X = "A" /\ nft = "nftA"
                         \/ run.pc = 8 /\ X = "B" /\ nft = "nftB"
    <2>1. \/ run.pc = 4 /\ Name = "A" /\ Nft(Name) = "nftA"
          \/ run.pc = 8 /\ Name = "B" /\ Nft(Name) = "nftB"
      BY <1>0, DueAt DEF Nft
    <2> QED
      BY <2>1
  <1>2. X \in Names /\ nft \in Names /\ nft # X
    BY <1>1 DEF Names
  <1>3. Minted(X)
    BY <1>0, <1>1 DEF Holds
  <1> DEFINE k == [template |-> "KycNFT", issuer |-> Scp.issuer,
                   boundCredentialId |-> run.id[X]]
  <1>4. ASSUME CreateKycNft({Scp.issuer}, Scp.issuer, run.id[X])
        PROVE  /\ Next /\ Writes({}, {NewId}) /\ Harmless({}, {NewId})
               /\ ledger'[NewId] = k
    <2>1. Next /\ Writes({}, {NewId}) /\ ledger'[NewId] = k
      BY <1>0, <1>1, <1>3, <1>4, NftWrites, MintedIsActive, Zenon
    <2>2. Harmless({}, {NewId})
      BY <1>0, <1>3, <2>1, MintedIsActive DEF Harmless
    <2> QED
      BY <2>1, <2>2
  <1>5. ASSUME CreateKycNft({Scp.issuer}, Scp.issuer, run.id[X]),
               run' = [Advanced EXCEPT !.id[nft] = NewId]
        PROVE  E2EInv'
    <2>1. /\ Writes({}, {NewId}) /\ Harmless({}, {NewId})
          /\ ledger'[NewId] = k
      BY <1>4, <1>5
    <2>2. /\ GoesOn /\ SameRun /\ run'.pc = run.pc + 1
          /\ run'.id[nft] = NewId
          /\ \A name \in Names : name # nft => Known(name)
      BY <1>0, <1>2, <1>5, CreatedGoesOn DEF GoesOn
    <2>3. \A name \in Names : name # nft => (Minted(name) => Minted(name)')
      BY <1>0, <2>1, <2>2, MintedStays DEF Known
    <2>4. NftOf(nft, X)'
      <3>1. Scp' = Scp /\ run'.id[X] = run.id[X]
        BY <1>2, <2>2 DEF SameRun, Scp, Known
      <3>2. NewId \in active'
        BY <2>1 DEF Writes
      <3> QED
        BY <2>1, <2>2, <3>1, <3>2 DEF NftOf
    <2>5. NewId = Len(ledger')
      BY <2>1 DEF Writes
    <2>6. Holds'
      <3>0. /\ "A" \in Names /\ "B" \in Names
        BY DEF Names
      <3>1. CASE run.pc = 4
        BY <3>0, <3>1, <1>0, <1>1, <2>2, <2>3, <2>4 DEF Holds
      <3>2. CASE run.pc = 8
        <4>1. Minted("A") /\ Minted("B") /\ origin[run.id["B"]] = run.id["B"]
          BY <3>2, <1>0 DEF Holds
        <4>2. origin'[run.id["B"]] = run.id["B"] /\ run'.id["B"] = run.id["B"]
          BY <4>1, <3>0, <3>2, <1>0, <1>1, <2>1, <2>2, Stays DEF Minted, Known
        <4>3. Minted("A")' /\ Minted("B")'
          BY <4>1, <3>0, <3>2, <1>1, <2>3
        <4> QED
          BY <3>2, <4>2, <4>3, <1>1, <2>2, <2>4, <2>5 DEF Holds
      <3> QED
        BY <1>1, <3>1, <3>2
    <2>7. OwnIsAccounted'
      BY <1>0, <1>1, <2>1, <2>2, OwnStays DEF Accounted, Known, Names
    <2> QED
      BY <1>0, <1>1, <2>1, <2>2, <2>6, <2>7, GoesOnStep
  <1>6. ASSUME CreateKycNft({Scp.issuer}, Scp.issuer, run.id[X]),
               Stops("no answer")
        PROVE  E2EInv'
    BY <1>0, <1>4, <1>6, NoAnswer, StopsStep, Zenon
  <1>7. ASSUME UNCHANGED vars, Stops("no answer")
        PROVE  E2EInv'
    BY <1>0, <1>7, NoAnswer, UnchangedWrites, StopsStep, Zenon
  <1> QED
    BY <1>1, <1>4, <1>5, <1>6, <1>7 DEF createKycNft, Submits

\* No NFT of the ledger is bound to a credential of this run but the one
\* the script made.
LEMMA BoundOfRun ==
  ASSUME TypeOK, NftsAreBound, Holds, OwnIsAccounted, run.pc \in 1..19,
         NEW name, Minted(name), NEW n \in Active("KycNFT"),
         ledger[n].boundCredentialId = run.id[name]
  PROVE  \/ run.pc = 5 /\ n = run.id["nftA"]
         \/ run.pc = 9 /\ n = run.id["nftB"]
  <1>1. ledger[n].issuer = Scp.issuer
    BY MintedIsActive DEF NftsAreBound
  <1> QED
    BY <1>1, NftsOfRun

LEMMA BurnNftStep ==
  ASSUME E2EInv, burnNft
  PROVE  E2EInv' /\ [Next]_vars
  <1>0. /\ At("ledger") /\ Due("burn")
        /\ TypeOK /\ RunTypes /\ Holds /\ OwnIsAccounted
        /\ runs' = runs /\ clock' = clock
    BY TrackFacts DEF burnNft, Due, Submits
  <1>1. run.pc = 5 /\ Name = "A" /\ Nft(Name) = "nftA"
    BY <1>0, DueAt DEF Nft
  <1>2. "A" \in Names /\ "nftA" \in Names
    BY DEF Names
  <1>3. Minted("A") /\ NftOf("nftA", "A")
    BY <1>0, <1>1 DEF Holds
  <1> DEFINE n == run.id["nftA"]
  <1>4. ASSUME BurnNft({Scp.issuer}, n)
        PROVE  Next /\ Writes({n}, {}) /\ Harmless({n}, {})
    <2>1. Next /\ Writes({n}, {})
      BY <1>0, <1>4, BurnWrites, Zenon
    \* Nothing is bound to an NFT.
    <2>2. n \notin Active("Credential")
      BY <1>3 DEF NftOf, Active, Created
    <2>3. NftsAreBound
      BY <1>0, TrackFacts
    <2>4. Harmless({n}, {})
      BY <2>2, <2>3 DEF Harmless, NftsAreBound
    <2> QED
      BY <2>1, <2>4
  <1>5. ASSUME BurnNft({Scp.issuer}, n), run' = Advanced
        PROVE  E2EInv'
    <2>1. Writes({n}, {}) /\ Harmless({n}, {})
      BY <1>4, <1>5
    <2>2. /\ GoesOn /\ SameRun /\ run'.pc = run.pc + 1
          /\ \A name \in Names : Known(name)
      BY <1>0, <1>5, AdvancedGoesOn DEF GoesOn
    <2>3. run.id["A"] # n
      BY <1>2, <1>3, Distinct
    <2>4. Minted("A")'
      BY <1>0, <1>2, <1>3, <2>1, <2>2, <2>3, MintedStays DEF Known
    <2>5. Holds'
      BY <1>1, <2>2, <2>4 DEF Holds
    <2>6. OwnIsAccounted'
      BY <1>0, <1>1, <1>2, <2>1, <2>2, OwnStays DEF Accounted, Known
    <2> QED
      BY <1>0, <1>1, <2>1, <2>2, <2>5, <2>6, GoesOnStep
  <1>6. ASSUME BurnNft({Scp.issuer}, n), Stops("no answer")
        PROVE  E2EInv'
    BY <1>0, <1>4, <1>6, NoAnswer, StopsStep, Zenon
  <1>7. ASSUME UNCHANGED vars, Stops("no answer")
        PROVE  E2EInv'
    BY <1>0, <1>7, NoAnswer, UnchangedWrites, StopsStep, Zenon
  <1> QED
    BY <1>1, <1>4, <1>5, <1>6, <1>7 DEF burnNft, Submits

LEMMA RevokeCredentialStep ==
  ASSUME E2EInv, revokeCredential
  PROVE  E2EInv' /\ [Next]_vars
  <1>0. /\ At("ledger") /\ Due("revoke")
        /\ TypeOK /\ RunTypes /\ NftsAreBound /\ Holds /\ OwnIsAccounted
        /\ runs' = runs /\ clock' = clock
    BY TrackFacts DEF revokeCredential, Due, Submits
  <1>1. run.pc = 9 /\ Name = "B" /\ Nft(Name) = "nftB"
    BY <1>0, DueAt DEF Nft
  <1>2. "A" \in Names /\ "B" \in Names /\ "nftB" \in Names
    BY DEF Names
  <1>3. /\ Minted("A") /\ Minted("B") /\ NftOf("nftB", "B")
        /\ origin[run.id["B"]] = run.id["B"]
        /\ run.id["nftB"] = Len(ledger)
    BY <1>0, <1>1 DEF Holds
  <1> DEFINE c == run.id["B"]
             n == run.id["nftB"]
  <1>4. PICK reason \in Text :
          Submits(RevokeCredential({Scp.issuer}, c, n, reason), Advanced)
    BY <1>1 DEF revokeCredential
  <1>5. n # NoContract
    BY <1>0, <1>3 DEF NftOf, TypeOK, NoContract
  <1>6. ASSUME RevokeCredential({Scp.issuer}, c, n, reason)
        PROVE  /\ Next /\ Writes({c, n}, {NewId}) /\ Harmless({c, n}, {NewId})
               /\ ledger'[NewId] = [Mint("B") EXCEPT !.revokeReason = reason]
               /\ origin'[NewId] = c
    <2>1. /\ Next /\ Writes({c, n}, {NewId})
          /\ ledger'[NewId] = [ledger[c] EXCEPT !.revokeReason = reason]
          /\ origin'[NewId] = origin[c]
      BY <1>0, <1>5, <1>6, RevokeWrites, Zenon
    <2>2. /\ ledger'[NewId] = [Mint("B") EXCEPT !.revokeReason = reason]
          /\ origin'[NewId] = c
      BY <2>1, <1>3 DEF Minted
    \* The only NFT bound to the credential is the one handed over, and
    \* none is bound to an NFT.
    <2>3. \A m \in Active("KycNFT") :
            ledger[m].boundCredentialId \in {c, n} => m \in {c, n}
      <3>1. n \notin Active("Credential")
        BY <1>3 DEF NftOf, Active, Created
      <3>2. run.pc \in 1..19
        BY <1>1
      <3> QED
        BY <3>1, <3>2, <1>0, <1>1, <1>3, BoundOfRun DEF NftsAreBound
    <2>4. Harmless({c, n}, {NewId})
      BY <2>2, <2>3 DEF Harmless, Mint
    <2> QED
      BY <2>1, <2>2, <2>4
  <1>7. ASSUME RevokeCredential({Scp.issuer}, c, n, reason), run' = Advanced
        PROVE  E2EInv'
    <2>1. /\ Writes({c, n}, {NewId}) /\ Harmless({c, n}, {NewId})
          /\ ledger'[NewId] = [Mint("B") EXCEPT !.revokeReason = reason]
          /\ origin'[NewId] = c
      BY <1>6, <1>7
    <2>2. /\ GoesOn /\ SameRun /\ run'.pc = run.pc + 1
          /\ \A name \in Names : Known(name)
      BY <1>0, <1>7, AdvancedGoesOn DEF GoesOn
    <2>3. run.id["A"] \notin {c, n}
      BY <1>2, <1>3, Distinct
    <2>4. Minted("A")'
      BY <1>0, <1>2, <1>3, <2>1, <2>2, <2>3, MintedStays DEF Known
    <2>5. Sibling' = NewId
      BY <1>2, <1>3, <2>2 DEF Sibling, Known, NewId
    <2>6. Stamped'
      <3>1. Scp' = Scp /\ run'.validUntil = run.validUntil
        BY <2>2 DEF SameRun, Scp
      <3>2. Mint("B")' = Mint("B")
        BY <3>1 DEF Mint, Claims
      <3>3. NewId \in active' /\ run'.id["B"] = c
        BY <1>2, <2>1, <2>2 DEF Writes, Known
      <3> QED
        BY <2>1, <2>5, <3>2, <3>3 DEF Stamped
    <2>7. Gone("B")'
      BY <1>0, <1>2, <1>3, <2>1, <2>2, GoneStays DEF Known, Minted
    <2>8. Holds'
      BY <1>1, <2>2, <2>4, <2>6, <2>7 DEF Holds
    <2>9. OwnIsAccounted'
      BY <1>0, <1>1, <1>2, <2>1, <2>2, <2>5, OwnStays DEF Accounted, Known
    <2> QED
      BY <1>0, <1>1, <2>1, <2>2, <2>8, <2>9, GoesOnStep
  <1>8. ASSUME RevokeCredential({Scp.issuer}, c, n, reason), Stops("no answer")
        PROVE  E2EInv'
    BY <1>0, <1>6, <1>8, NoAnswer, StopsStep, Zenon
  <1>9. ASSUME UNCHANGED vars, Stops("no answer")
        PROVE  E2EInv'
    BY <1>0, <1>9, NoAnswer, UnchangedWrites, StopsStep, Zenon
  <1> QED
    BY <1>4, <1>6, <1>7, <1>8, <1>9 DEF Submits

LEMMA ArchiveAsHolderStep ==
  ASSUME E2EInv, archiveAsHolder
  PROVE  E2EInv' /\ [Next]_vars
  <1>0. /\ At("ledger") /\ Due("archive")
        /\ TypeOK /\ RunTypes /\ NftsAreBound /\ Holds /\ OwnIsAccounted
        /\ runs' = runs /\ clock' = clock
    BY TrackFacts DEF archiveAsHolder, Due, Submits
  <1>1. run.pc = 12 /\ Name = "C"
    BY <1>0, DueAt
  <1>2. /\ "A" \in Names /\ "B" \in Names /\ "C" \in Names /\ "nftB" \in Names
    BY DEF Names
  <1>3. Minted("A") /\ Minted("C") /\ Stamped /\ Gone("B")
    BY <1>0, <1>1 DEF Holds
  <1> DEFINE c == run.id["C"]
  <1>4. ASSUME ArchiveAsHolder({Scp.holder}, c)
        PROVE  Next /\ Writes({c}, {}) /\ Harmless({c}, {})
    <2>1. Next /\ Writes({c}, {})
      BY <1>0, <1>4, ArchiveWrites, Zenon
    <2>2. run.pc \in 1..19
      BY <1>1
    <2>3. Harmless({c}, {})
      BY <2>2, <1>0, <1>1, <1>3, BoundOfRun DEF Harmless
    <2> QED
      BY <2>1, <2>3
  <1>5. ASSUME ArchiveAsHolder({Scp.holder}, c), run' = Advanced
        PROVE  E2EInv'
    <2>1. Writes({c}, {}) /\ Harmless({c}, {})
      BY <1>4, <1>5
    <2>2. /\ GoesOn /\ SameRun /\ run'.pc = run.pc + 1
          /\ \A name \in Names : Known(name)
      BY <1>0, <1>5, AdvancedGoesOn DEF GoesOn
    <2>3. run.id["A"] # c /\ Sibling # c
      BY <1>2, <1>3, Distinct
    <2>4. Minted("A")'
      BY <1>0, <1>2, <1>3, <2>1, <2>2, <2>3, MintedStays DEF Known
    <2>5. Stamped' /\ Sibling' = Sibling
      BY <1>0, <1>2, <1>3, <2>1, <2>2, <2>3, StampedStays DEF Known
    <2>6. Gone("B")' /\ Gone("C")'
      BY <1>0, <1>2, <1>3, <2>1, <2>2, GoneStays DEF Known, Minted
    <2>7. Holds'
      BY <1>1, <2>2, <2>4, <2>5, <2>6 DEF Holds
    <2>8. OwnIsAccounted'
      BY <1>0, <1>1, <1>2, <2>1, <2>2, <2>5, OwnStays DEF Accounted, Known
    <2> QED
      BY <1>0, <1>1, <2>1, <2>2, <2>7, <2>8, GoesOnStep
  <1>6. ASSUME ArchiveAsHolder({Scp.holder}, c), Stops("no answer")
        PROVE  E2EInv'
    BY <1>0, <1>4, <1>6, NoAnswer, StopsStep, Zenon
  <1>7. ASSUME UNCHANGED vars, Stops("no answer")
        PROVE  E2EInv'
    BY <1>0, <1>7, NoAnswer, UnchangedWrites, StopsStep, Zenon
  <1> QED
    BY <1>1, <1>4, <1>5, <1>6, <1>7 DEF archiveAsHolder, Submits

LEMMA CreateFactoryStep ==
  ASSUME E2EInv, createFactory
  PROVE  E2EInv' /\ [Next]_vars
  <1>0. /\ At("ledger") /\ Due("factory")
        /\ TypeOK /\ RunTypes /\ Holds /\ OwnIsAccounted
        /\ runs' = runs /\ clock' = clock
    BY TrackFacts DEF createFactory, Due, Submits
  <1>1. run.pc = 15
    BY <1>0, DueAt
  <1>2. /\ "A" \in Names /\ "B" \in Names /\ "C" \in Names
        /\ "D" \in Names /\ "nftB" \in Names
    BY DEF Names
  <1>3. Minted("A") /\ Minted("D") /\ Stamped /\ Gone("B") /\ Gone("C")
    BY <1>0, <1>1 DEF Holds
  <1> DEFINE k == [template |-> "CredentialFactory", admin |-> Scp.admin,
                   issuer |-> Scp.issuer, holder |-> Scp.holder]
  <1>4. ASSUME CreateFactory(Both, Scp)
        PROVE  /\ Next /\ Writes({}, {NewId}) /\ Harmless({}, {NewId})
               /\ ledger'[NewId] = k
    <2>1. Next /\ Writes({}, {NewId}) /\ ledger'[NewId] = k
      BY <1>0, <1>4, FactoryWrites, Zenon
    <2>2. Harmless({}, {NewId})
      BY <1>1, <2>1 DEF Harmless, InScope
    <2> QED
      BY <2>1, <2>2
  <1>5. ASSUME CreateFactory(Both, Scp),
               run' = [Advanced EXCEPT !.factory = NewId]
        PROVE  E2EInv'
    <2>1. /\ Writes({}, {NewId}) /\ Harmless({}, {NewId})
          /\ ledger'[NewId] = k
      BY <1>4, <1>5
    <2>2. /\ GoesOn /\ SameRun /\ run'.pc = run.pc + 1
          /\ run'.factory = NewId
          /\ \A name \in Names : Known(name)
      BY <1>0, <1>5, FactoryGoesOn DEF GoesOn
    <2>3. Minted("A")' /\ Minted("D")'
      BY <1>0, <1>2, <1>3, <2>1, <2>2, MintedStays DEF Known
    <2>4. Stamped' /\ Sibling' = Sibling
      BY <1>0, <1>2, <1>3, <2>1, <2>2, StampedStays DEF Known
    <2>5. Gone("B")' /\ Gone("C")'
      BY <1>0, <1>2, <1>3, <2>1, <2>2, GoneStays DEF Known
    <2>6. FactoryOfRun'
      <3>1. Scp' = Scp
        BY <2>2 DEF SameRun, Scp
      <3>2. NewId \in active'
        BY <2>1 DEF Writes
      <3> QED
        BY <2>1, <2>2, <3>1, <3>2 DEF FactoryOfRun
    <2>7. Holds'
      BY <1>1, <2>2, <2>3, <2>4, <2>5, <2>6 DEF Holds
    <2>8. OwnIsAccounted'
      BY <1>0, <1>1, <1>2, <2>1, <2>2, <2>4, OwnStays DEF Accounted, Known
    <2> QED
      BY <1>0, <1>1, <2>1, <2>2, <2>7, <2>8, GoesOnStep
  <1>6. ASSUME CreateFactory(Both, Scp), Stops("no answer")
        PROVE  E2EInv'
    BY <1>0, <1>4, <1>6, NoAnswer, StopsStep, Zenon
  <1>7. ASSUME UNCHANGED vars, Stops("no answer")
        PROVE  E2EInv'
    BY <1>0, <1>7, NoAnswer, UnchangedWrites, StopsStep, Zenon
  <1> QED
    BY <1>4, <1>5, <1>6, <1>7 DEF createFactory, Submits

LEMMA UpdateCredentialsStep ==
  ASSUME E2EInv, updateCredentials
  PROVE  E2EInv' /\ [Next]_vars
  <1>0. /\ At("ledger") /\ Due("update")
        /\ TypeOK /\ RunTypes /\ NftsAreBound /\ Holds /\ OwnIsAccounted
        /\ runs' = runs /\ clock' = clock
    BY TrackFacts DEF updateCredentials, Due, Submits
  <1>1. run.pc = 16 /\ Name = "D"
    BY <1>0, DueAt
  <1>2. /\ "A" \in Names /\ "B" \in Names /\ "C" \in Names
        /\ "D" \in Names /\ "D2" \in Names /\ "nftB" \in Names
    BY DEF Names
  <1>3. /\ Minted("A") /\ Minted("D") /\ Stamped /\ Gone("B") /\ Gone("C")
        /\ FactoryOfRun
    BY <1>0, <1>1 DEF Holds
  <1> DEFINE f == run.factory
             c == run.id["D"]
             T == FactoryUpdateCredentials(Both, f,
                    <<[credentialId |-> c, newClaims |-> Claims("D", 99),
                       newExpiresAt |-> MaxClock]>>)
             k == [Mint("D") EXCEPT !.claims = Claims("D", 99),
                                    !.expiresAt = MaxClock]
  <1>4. ASSUME T
        PROVE  /\ Next /\ Writes({f, c}, {NewId}) /\ Harmless({f, c}, {NewId})
               /\ ledger'[NewId] = k
    <2>1. /\ Next /\ Writes({f, c}, {NewId})
          /\ ledger'[NewId] = [ledger[c] EXCEPT !.claims = Claims("D", 99),
                                                !.expiresAt = MaxClock]
      BY <1>0, <1>1, <1>4, UpdateWrites
    <2>2. ledger'[NewId] = k
      BY <2>1, <1>3 DEF Minted
    \* No NFT is bound to the credential, and none to a factory.
    <2>3. \A m \in Active("KycNFT") : ledger[m].boundCredentialId \notin {f, c}
      <3>1. f \notin Active("Credential")
        BY <1>3 DEF FactoryOfRun, Active, Created
      <3>2. run.pc \in 1..19
        BY <1>1
      <3> QED
        BY <3>1, <3>2, <1>0, <1>1, <1>3, BoundOfRun DEF NftsAreBound
    <2>4. Harmless({f, c}, {NewId})
      BY <2>2, <2>3 DEF Harmless, Mint
    <2> QED
      BY <2>1, <2>2, <2>4
  <1>5. ASSUME T, run' = [Advanced EXCEPT !.id["D2"] = NewId]
        PROVE  E2EInv'
    <2>1. /\ Writes({f, c}, {NewId}) /\ Harmless({f, c}, {NewId})
          /\ ledger'[NewId] = k
      BY <1>4, <1>5
    <2>2. /\ GoesOn /\ SameRun /\ run'.pc = run.pc + 1
          /\ run'.id["D2"] = NewId
          /\ \A name \in Names : name # "D2" => Known(name)
      BY <1>0, <1>2, <1>5, CreatedGoesOn DEF GoesOn
    <2>3. run.id["A"] \notin {f, c} /\ Sibling \notin {f, c}
      BY <1>2, <1>3, Distinct
    <2>4. Minted("A")'
      BY <1>0, <1>2, <1>3, <2>1, <2>2, <2>3, MintedStays DEF Known
    <2>5. Stamped' /\ Sibling' = Sibling
      BY <1>0, <1>2, <1>3, <2>1, <2>2, <2>3, StampedStays DEF Known
    <2>6. Gone("B")' /\ Gone("C")' /\ Gone("D")'
      BY <1>0, <1>2, <1>3, <2>1, <2>2, GoneStays DEF Known, Minted
    <2>7. Refreshed'
      <3>1. Scp' = Scp /\ run'.validUntil = run.validUntil
        BY <2>2 DEF SameRun, Scp
      <3>2. Mint("D")' = Mint("D")
        BY <3>1 DEF Mint, Claims
      <3>3. NewId \in active'
        BY <2>1 DEF Writes
      <3> QED
        BY <2>1, <2>2, <3>2, <3>3 DEF Refreshed, Claims
    <2>8. Holds'
      BY <1>1, <2>2, <2>4, <2>5, <2>6, <2>7 DEF Holds
    <2>9. OwnIsAccounted'
      BY <1>0, <1>1, <1>2, <2>1, <2>2, <2>5, OwnStays DEF Accounted, Known
    <2> QED
      BY <1>0, <1>1, <2>1, <2>2, <2>8, <2>9, GoesOnStep
  <1>6. ASSUME T, Stops("no answer")
        PROVE  E2EInv'
    BY <1>0, <1>4, <1>6, NoAnswer, StopsStep, Zenon
  <1>7. ASSUME UNCHANGED vars, Stops("no answer")
        PROVE  E2EInv'
    BY <1>0, <1>7, NoAnswer, UnchangedWrites, StopsStep, Zenon
  <1> QED
    BY <1>1, <1>4, <1>5, <1>6, <1>7 DEF updateCredentials, Submits

-----------------------------------------------------------------------------
(* The assertions.                                                         *)

\* An assertion that holds brings the run to its next step.
LEMMA AssertionHolds ==
  ASSUME E2EInv, At("ledger"), run' = Advanced, UNCHANGED vars,
         runs' = runs, clock' = clock, run.pc \in {2, 3, 6, 10, 13, 17, 18}
  PROVE  E2EInv'
  <1>0. TypeOK /\ RunTypes /\ Holds /\ OwnIsAccounted
    BY TrackFacts
  <1>1. Writes({}, {}) /\ Harmless({}, {})
    BY <1>0, UnchangedWrites
  <1>2. /\ GoesOn /\ SameRun /\ run'.pc = run.pc + 1
        /\ \A name \in Names : Known(name)
    BY <1>0, AdvancedGoesOn DEF GoesOn
  <1>3. \A name \in Names : /\ Minted(name) => Minted(name)'
                            /\ Gone(name) => Gone(name)'
    BY <1>0, <1>1, <1>2, MintedStays, GoneStays DEF Known
  <1>4. /\ "A" \in Names /\ "B" \in Names /\ "C" \in Names /\ "D" \in Names
        /\ "D2" \in Names /\ "nftB" \in Names
    BY DEF Names
  <1>5. Stamped => Stamped' /\ Sibling' = Sibling
    BY <1>0, <1>1, <1>2, <1>4, StampedStays DEF Known
  <1>6. Refreshed => Refreshed'
    BY <1>0, <1>1, <1>2, <1>4, RefreshedStays DEF Known
  <1>7. Holds'
    BY <1>0, <1>2, <1>3, <1>4, <1>5, <1>6 DEF Holds
  <1>8. OwnIsAccounted'
    <2>1. run.pc >= 10 => Sibling' = Sibling
      BY <1>0, <1>5 DEF Holds
    <2> QED
      BY <1>0, <1>1, <1>2, <1>4, <2>1, OwnStays DEF Accounted, Known
  <1> QED
    BY <1>1, <1>2, <1>7, <1>8, GoesOnStep

LEMMA AssertionFails ==
  ASSUME E2EInv, At("ledger"), Stops("assertion"), UNCHANGED vars,
         runs' = runs, clock' = clock, run.pc = 2, clock > run.validUntil
  PROVE  E2EInv'
  BY TrackFacts, UnchangedWrites, StopsStep

LEMMA ReadUnanswered ==
  ASSUME E2EInv, At("ledger"), Stops("no answer"), UNCHANGED vars,
         runs' = runs, clock' = clock
  PROVE  E2EInv'
  BY TrackFacts, UnchangedWrites, StopsStep, NoAnswer

\* Phase 7 fails only for the window of the decision.
LEMMA VerifyDisclosureStep ==
  ASSUME E2EInv, verifyDisclosure
  PROVE  E2EInv'
  <1>0. /\ At("ledger") /\ Due("verify")
        /\ TypeOK /\ RunTypes /\ Holds
        /\ runs' = runs /\ clock' = clock /\ UNCHANGED vars
    BY TrackFacts DEF verifyDisclosure, Due, Asserts
  <1>1. run.pc = 2 /\ Name = "A"
    BY <1>0, DueAt
  <1>2. Minted("A")
    BY <1>0, <1>1 DEF Holds
  <1> DEFINE c == run.id["A"]
  <1>3. /\ c \in Active("Credential") /\ PublicFetchable(c, Scp.admin)
        /\ ledger[c].claims.subject = "A" /\ ledger[c].expiresAt = run.validUntil
    BY <1>0, <1>2, MintedIsActive DEF PublicFetchable, Minted, Mint, Claims
  <1>4. run.now <= clock
    BY <1>0 DEF RunTypes, At
  <1>5. clock <= run.validUntil \/ clock > run.validUntil
    BY <1>0, RunsAssumption DEF RunTypes
  <1>6. \/ clock <= run.validUntil /\ run' = Advanced
        \/ ~(clock <= run.validUntil) /\ Stops("assertion")
        \/ Stops("no answer")
    BY <1>1, <1>3, <1>4 DEF verifyDisclosure, Asserts, isWithinValidityWindow
  <1>7. CASE clock <= run.validUntil /\ run' = Advanced
    BY <1>0, <1>1, <1>7, AssertionHolds
  <1>8. CASE ~(clock <= run.validUntil) /\ Stops("assertion")
    BY <1>0, <1>1, <1>5, <1>8, AssertionFails
  <1>9. CASE Stops("no answer")
    BY <1>0, <1>9, ReadUnanswered
  <1> QED
    BY <1>6, <1>7, <1>8, <1>9

LEMMA WrongAdminStep ==
  ASSUME E2EInv, wrongAdmin
  PROVE  E2EInv'
  <1>0. /\ At("ledger") /\ Due("wrong admin")
        /\ TypeOK /\ RunTypes /\ Holds
        /\ runs' = runs /\ clock' = clock /\ UNCHANGED vars
    BY TrackFacts DEF wrongAdmin, Due
  <1>1. run.pc = 3 /\ Name = "A"
    BY <1>0, DueAt
  <1>2. Minted("A")
    <2>1. run.pc >= 2
      BY <1>1
    <2> QED
      BY <1>0, <2>1, Zenon DEF Holds
  <1>3. Scp.admin # bogusAdmin
    BY <1>0, PartiesOfRun, RunsAssumption
  <1>4. ~PublicFetchable(run.id["A"], bogusAdmin)
    BY <1>2, <1>3 DEF PublicFetchable, Minted, Mint
  <1>5. run' = Advanced
    BY <1>1, <1>4 DEF wrongAdmin
  <1> QED
    BY <1>0, <1>1, <1>5, AssertionHolds

LEMMA BurntStep ==
  ASSUME E2EInv, burnt
  PROVE  E2EInv'
  <1>0. /\ At("ledger") /\ Due("burnt")
        /\ TypeOK /\ RunTypes /\ NftsAreBound /\ Holds /\ OwnIsAccounted
        /\ runs' = runs /\ clock' = clock /\ UNCHANGED vars
    BY TrackFacts DEF burnt, Due, Asserts
  <1>1. run.pc = 6 /\ Name = "A"
    BY <1>0, DueAt
  <1>2. Minted("A")
    BY <1>0, <1>1 DEF Holds
  <1>3. run.pc \in 1..19
    BY <1>1
  <1>4. ~HasNft(run.id["A"])
    BY <1>0, <1>1, <1>2, <1>3, BoundOfRun DEF HasNft
  <1>5. run' = Advanced \/ Stops("no answer")
    BY <1>1, <1>2, <1>4 DEF burnt, Asserts, Minted
  <1> QED
    BY <1>0, <1>1, <1>5, AssertionHolds, ReadUnanswered

LEMMA RevokedStep ==
  ASSUME E2EInv, revoked
  PROVE  E2EInv'
  <1>0. /\ At("ledger") /\ Due("revoked")
        /\ TypeOK /\ RunTypes /\ NftsAreBound /\ Holds /\ OwnIsAccounted
        /\ runs' = runs /\ clock' = clock /\ UNCHANGED vars
    BY TrackFacts DEF revoked, Due, Asserts
  <1>1. run.pc = 10 /\ Name = "B"
    BY <1>0, DueAt
  <1>2. run.id["B"] \notin active
    BY <1>0, <1>1 DEF Holds, Gone
  <1>3. ~HasNft(run.id["B"])
    BY <1>0, <1>2 DEF HasNft, NftsAreBound, Active
  <1>4. run' = Advanced \/ Stops("no answer")
    BY <1>1, <1>2, <1>3 DEF revoked, Asserts
  <1> QED
    BY <1>0, <1>1, <1>4, AssertionHolds, ReadUnanswered

LEMMA GoneStep ==
  ASSUME E2EInv, gone
  PROVE  E2EInv'
  <1>0. /\ At("ledger") /\ Due("gone")
        /\ TypeOK /\ RunTypes /\ Holds
        /\ runs' = runs /\ clock' = clock /\ UNCHANGED vars
    BY TrackFacts DEF gone, Due, Asserts
  <1>1. (run.pc = 13 /\ Name = "C") \/ (run.pc = 17 /\ Name = "D")
    BY <1>0, DueAt
  <1>2. run.id[Name] \notin active
    BY <1>0, <1>1 DEF Holds, Gone
  <1>3. run' = Advanced \/ Stops("no answer")
    BY <1>2 DEF gone, Asserts
  <1> QED
    BY <1>0, <1>1, <1>3, AssertionHolds, ReadUnanswered

LEMMA RefreshedStep ==
  ASSUME E2EInv, refreshed
  PROVE  E2EInv'
  <1>0. /\ At("ledger") /\ Due("refreshed")
        /\ TypeOK /\ RunTypes /\ Holds
        /\ runs' = runs /\ clock' = clock /\ UNCHANGED vars
    BY TrackFacts DEF refreshed, Due, Asserts
  <1>1. run.pc = 18 /\ Name = "D2"
    BY <1>0, DueAt
  <1>2. Refreshed
    BY <1>0, <1>1 DEF Holds
  <1> DEFINE c == run.id["D2"]
  <1>3. c \in active /\ c \in 1..Len(ledger)
    BY <1>0, <1>2 DEF Refreshed, TypeOK
  <1>4. /\ ledger[c].template = "Credential" /\ ledger[c].admin = Scp.admin
        /\ ledger[c].claims.humanScore = 99
    BY <1>2 DEF Refreshed, Mint, Claims
  <1>5. c \in Active("Credential") /\ PublicFetchable(c, Scp.admin)
    BY <1>3, <1>4 DEF Active, Created, PublicFetchable
  <1>6. run' = Advanced \/ Stops("no answer")
    BY <1>1, <1>4, <1>5 DEF refreshed, Asserts
  <1> QED
    BY <1>0, <1>1, <1>6, AssertionHolds, ReadUnanswered

-----------------------------------------------------------------------------
(* Steps away from the ledger.                                             *)

\* Whatever a phase before the ledger does, the run has minted nothing yet.
LEMMA PhaseStep ==
  ASSUME E2EInv, run.at \notin {"ledger", "passed", "failed"},
         UNCHANGED vars, runs' = runs, clock' = clock,
         DOMAIN run' = RunField,
         run'.id = run.id, run'.script = run.script, run'.pc = run.pc,
         run'.now \in 0..MaxClock, run'.validUntil \in 0..MaxClock,
         \/ run'.at \in {"approve", "decision", "health", "parties"}
         \/ run'.at = "ledger" /\ run'.now <= clock
         \/ run'.at = "failed",
         \/ run'.error = run.error
         \/ run'.error # "assertion"
  PROVE  E2EInv'
  <1>1. TypeOK /\ RunTypes /\ Global /\ runs > 0 /\ run.pc = 1
    BY DEF E2EInv, RunTypes
  <1>2. /\ Program' = Program /\ Scp' = Scp
        /\ \A t \in {"Credential", "CredentialFactory", "KycNFT"} :
             Active(t)' = Active(t)
    BY DEF Program, Does, Scp, vars, Active, Created
  <1>3. TypeOK'
    BY <1>1 DEF vars, TypeOK
  <1>4. run'.error # "assertion"
    BY <1>1 DEF RunTypes
  <1>5. 1 \in 1..Len(Program)
    <2>1. Len(Program) = 2 \/ Len(Program) = 18
      BY Table, Zenon
    <2>2. 1 \in 1..2 /\ 1 \in 1..18
      OBVIOUS
    <2> QED
      BY <2>1, <2>2, Zenon
  <1>6. /\ run'.at = "ledger" => run'.pc \in 1..Len(Program) /\ run'.now <= clock
        /\ run'.at # "passed" /\ run'.at \in Place
    BY <1>1, <1>5 DEF Place
  <1>7. RunTypes'
    BY <1>1, <1>2, <1>4, <1>6 DEF RunTypes
  <1>8. Global'
    <2>1. OfARun'
      BY <1>1 DEF Global, OfARun, vars
    <2>2. NftsAreBound'
      BY <1>1, <1>2 DEF Global, NftsAreBound, vars
    <2>3. FactoriesAreLeft'
      BY <1>1, <1>2 DEF Global, FactoriesAreLeft, vars
    <2> QED
      BY <2>1, <2>2, <2>3 DEF Global
  <1>9. OnTrack'
    <2>1. \A c \in active : ledger[c].issuer # Scp.issuer
      BY <1>1 DEF E2EInv, OnTrack, OwnIsAccounted, Accounted
    <2>2. OwnIsAccounted'
      BY <1>2, <2>1 DEF OwnIsAccounted, vars
    <2>3. Holds'
      BY <1>1 DEF Holds
    <2> QED
      BY <2>2, <2>3 DEF OnTrack
  <1>10. AssertsHold'
    BY <1>4 DEF AssertsHold
  <1> QED
    BY <1>3, <1>7, <1>8, <1>9, <1>10 DEF E2EInv

LEMMA PhasesStep ==
  ASSUME E2EInv,
         \/ personaSource \/ personaApprove \/ sumsubStart
         \/ mockApproveSumsub \/ diditStart \/ waitForEnter
         \/ fetchDecision \/ health \/ allocateParty
  PROVE  E2EInv' /\ UNCHANGED vars
  <1>1. /\ DOMAIN run = RunField /\ clock \in 0..MaxClock
        /\ run.now \in 0..MaxClock /\ run.validUntil \in 0..MaxClock
    BY DEF E2EInv, RunTypes
  <1>2. /\ UNCHANGED vars /\ runs' = runs /\ clock' = clock
        /\ run.at \in {"source", "approve", "decision", "health", "parties"}
    BY DEF personaSource, personaApprove, sumsubStart, mockApproveSumsub,
           diditStart, waitForEnter, fetchDecision, health, allocateParty, At
  <1>3. \/ \E place \in {"approve", "decision", "health", "parties"} : Goes(place)
        \/ \E reason : reason # "assertion" /\ Stops(reason)
        \/ run.at = "decision" /\ run' = [run EXCEPT !.polls = @ + 1]
        \/ \E until \in 0..MaxClock :
             run' = [run EXCEPT !.at = "health", !.validUntil = until]
        \/ \E until \in 0..MaxClock :
             run' = [run EXCEPT !.at = "ledger", !.now = clock,
                                !.validUntil = until]
    <2>1. CASE personaSource \/ personaApprove
      BY <2>1 DEF personaSource, personaApprove
    <2>2. CASE sumsubStart \/ mockApproveSumsub \/ diditStart \/ waitForEnter
      BY <2>2 DEF sumsubStart, mockApproveSumsub, diditStart, waitForEnter
    <2>3. CASE fetchDecision \/ health
      BY <2>3 DEF fetchDecision, attempt, health, At
    <2>4. CASE allocateParty
      <3>1. MaxClock \in 0..MaxClock
        BY RunsAssumption
      <3> QED
        BY <2>4, <3>1, <1>1 DEF allocateParty
    <2> QED
      BY <2>1, <2>2, <2>3, <2>4
  <1>4. E2EInv'
    <2>1. ASSUME NEW place \in {"approve", "decision", "health", "parties"},
                 Goes(place)
          PROVE  E2EInv'
      BY <2>1, <1>1, <1>2, PhaseStep DEF Goes, RunField
    <2>2. ASSUME NEW reason, reason # "assertion", Stops(reason)
          PROVE  E2EInv'
      <3>1. /\ DOMAIN run' = RunField
            /\ run'.at = "failed" /\ run'.error = reason
            /\ \A field \in RunField \ {"at", "error"} : run'[field] = run[field]
        BY <2>2, <1>1 DEF Stops, RunField
      <3>2. /\ run'.id = run.id /\ run'.script = run.script /\ run'.pc = run.pc
            /\ run'.now = run.now /\ run'.validUntil = run.validUntil
        BY <3>1 DEF RunField
      <3>3. run.at \notin {"ledger", "passed", "failed"}
        BY <1>2
      <3> QED
        BY <2>2, <3>1, <3>2, <3>3, <1>1, <1>2, PhaseStep, Zenon
    <2>3. CASE run.at = "decision" /\ run' = [run EXCEPT !.polls = @ + 1]
      <3>1. /\ DOMAIN run' = RunField
            /\ \A field \in RunField \ {"polls"} : run'[field] = run[field]
        BY <2>3, <1>1 DEF RunField
      <3>2. /\ run'.id = run.id /\ run'.script = run.script /\ run'.pc = run.pc
            /\ run'.now = run.now /\ run'.validUntil = run.validUntil
            /\ run'.at = run.at /\ run'.error = run.error
        BY <3>1 DEF RunField
      <3> QED
        BY <2>3, <3>1, <3>2, <1>1, <1>2, PhaseStep
    <2>4. ASSUME NEW until \in 0..MaxClock,
                 run' = [run EXCEPT !.at = "health", !.validUntil = until]
          PROVE  E2EInv'
      BY <2>4, <1>1, <1>2, PhaseStep DEF RunField
    <2>5. ASSUME NEW until \in 0..MaxClock,
                 run' = [run EXCEPT !.at = "ledger", !.now = clock,
                                    !.validUntil = until]
          PROVE  E2EInv'
      BY <2>5, <1>1, <1>2, PhaseStep DEF RunField
    <2> QED
      BY <1>3, <2>1, <2>2, <2>3, <2>4, <2>5
  <1> QED
    BY <1>2, <1>4

\* Time passes, or nothing the run depends on happens.
LEMMA SameState ==
  ASSUME E2EInv, UNCHANGED vars, run' = run, runs' = runs,
         clock' \in 0..MaxClock, clock' >= clock
  PROVE  E2EInv'
  <1>1. /\ UNCHANGED vars /\ run' = run /\ runs' = runs
        /\ clock' \in 0..MaxClock /\ clock' >= clock
        /\ clock \in 0..MaxClock
    BY DEF E2EInv, RunTypes
  <1>2. /\ Program' = Program /\ Scp' = Scp
        /\ \A t \in {"Credential", "CredentialFactory", "KycNFT"} :
             Active(t)' = Active(t)
    BY <1>1 DEF Program, Does, Scp, vars, Active, Created
  <1>3. TypeOK'
    BY <1>1 DEF E2EInv, vars, TypeOK
  <1>4. RunTypes'
    <2>1. run.at = "ledger" => run.now <= clock'
      BY <1>1 DEF E2EInv, RunTypes
    <2> QED
      BY <1>1, <1>2, <2>1 DEF E2EInv, RunTypes, vars
  <1>5. Global'
    BY <1>1, <1>2 DEF E2EInv, Global, OfARun, NftsAreBound, FactoriesAreLeft, vars
  <1>6. OnTrack'
    <2>1. \A name : /\ Minted(name)' <=> Minted(name)
                    /\ Gone(name)' <=> Gone(name)
      BY <1>1, <1>2 DEF Minted, Mint, Claims, Gone, vars
    <2>2. \A nft, name : NftOf(nft, name)' <=> NftOf(nft, name)
      BY <1>1, <1>2 DEF NftOf, vars
    <2>3. (Stamped' <=> Stamped) /\ Sibling' = Sibling
      BY <1>1, <1>2 DEF Stamped, Sibling, Mint, Claims, vars
    <2>4. FactoryOfRun' <=> FactoryOfRun
      BY <1>1, <1>2 DEF FactoryOfRun, vars
    <2>5. Refreshed' <=> Refreshed
      BY <1>1, <1>2 DEF Refreshed, Mint, Claims, vars
    <2>6. Holds' <=> Holds
      BY <1>1, <2>1, <2>2, <2>3, <2>4, <2>5 DEF Holds, vars
    <2>7. OwnIsAccounted' <=> OwnIsAccounted
      BY <1>1, <1>2, <2>3 DEF OwnIsAccounted, Accounted, vars
    <2> QED
      BY <1>1, <2>6, <2>7 DEF E2EInv, OnTrack
  <1>7. AssertsHold'
    <2>1. run.validUntil \in 0..MaxClock
      BY DEF E2EInv, RunTypes
    <2>2. run.error = "assertion" => clock' > run.validUntil
      BY <1>1, <2>1 DEF E2EInv, AssertsHold
    <2> QED
      BY <1>1, <1>2, <2>2 DEF E2EInv, AssertsHold
  <1> QED
    BY <1>1, <1>3, <1>4, <1>5, <1>6, <1>7 DEF E2EInv

LEMMA VendorStep ==
  ASSUME E2EInv, Passes \/ Takes
  PROVE  E2EInv' /\ UNCHANGED vars
  <1>1. /\ UNCHANGED vars /\ run' = run /\ runs' = runs
        /\ clock' \in 0..MaxClock /\ clock' >= clock
    BY RunsAssumption DEF Passes, Takes, E2EInv, RunTypes
  <1> QED
    BY <1>1, SameState

\* A new run starts with parties of its own, so it has nothing yet.
LEMMA MainStep ==
  ASSUME E2EInv, main
  PROVE  E2EInv' /\ UNCHANGED vars
  <1>1. /\ UNCHANGED vars /\ clock' = clock
        /\ runs < MaxRuns /\ runs' = runs + 1
    BY DEF main
  <1>2. PICK script \in Script :
          run' = [Fresh(script) EXCEPT
                    !.at = IF script = "firm" THEN "health" ELSE "source"]
    BY DEF main
  <1>3. TypeOK /\ RunTypes /\ Global
    BY DEF E2EInv
  <1>4. /\ DOMAIN run' = RunField /\ DOMAIN run'.id = Names
        /\ run'.script = script /\ run'.at \in {"health", "source"}
        /\ run'.pc = 1 /\ run'.now = 0 /\ run'.validUntil = 0
        /\ run'.error = "none"
    BY <1>2 DEF Fresh, RunField, Names
  <1>5. TypeOK'
    BY <1>1, <1>3 DEF vars, TypeOK
  <1>6. runs \in 0..MaxRuns /\ runs' \in 1..MaxRuns
    BY <1>1, <1>3, RunsAssumption DEF RunTypes
  <1>7. RunTypes'
    <2>1. 0 \in 0..MaxClock
      BY RunsAssumption
    <2>2. script \in Script /\ script \in {"persona", "sumsub", "didit", "firm"}
      BY RunsAssumption
    <2>3. runs' # 0 /\ runs' \in 0..MaxRuns
      BY <1>6
    <2>4. 1 \in 1..19 /\ run'.at \in Place
      BY <1>4 DEF Place
    <2> QED
      BY <1>1, <1>3, <1>4, <2>1, <2>2, <2>3, <2>4 DEF RunTypes
  <1>8. runs = 0 => active = {}
    BY <1>3 DEF RunTypes
  <1>9. \A t \in {"Credential", "CredentialFactory", "KycNFT"} :
          Active(t)' = Active(t)
    BY <1>1 DEF vars, Active, Created
  <1>10. Global'
    <2>1. OfARun'
      <3>1. 1..runs \subseteq 1..runs'
        BY <1>1, <1>6
      <3> QED
        BY <1>1, <1>3, <3>1 DEF Global, OfARun, vars
    <2>2. NftsAreBound'
      BY <1>1, <1>3, <1>9 DEF Global, NftsAreBound, vars
    <2>3. FactoriesAreLeft'
      <3> SUFFICES ASSUME NEW f \in Active("CredentialFactory")
                   PROVE  \E r \in 1..(runs' - 1) : InScope(ledger[f], scopeOf[r])
        BY <1>1, <1>9 DEF FactoriesAreLeft, vars
      <3>1. runs # 0
        BY <1>8 DEF Active
      <3>2. runs \in 1..(runs' - 1) /\ 1..(runs - 1) \subseteq 1..(runs' - 1)
        BY <3>1, <1>1, <1>6
      <3> QED
        BY <3>2, <1>3 DEF Global, FactoriesAreLeft, Scp
    <2> QED
      BY <2>1, <2>2, <2>3 DEF Global
  <1>11. OnTrack'
    <2>1. \A c \in active : ledger[c].issuer # scopeOf[runs'].issuer
      <3> SUFFICES ASSUME NEW c \in active
                   PROVE  ledger[c].issuer # scopeOf[runs'].issuer
        OBVIOUS
      <3>1. PICK r \in 1..runs : ledger[c].issuer = scopeOf[r].issuer
        BY <1>3 DEF Global, OfARun
      <3>2. r \in 1..MaxRuns /\ r # runs'
        BY <1>1, <1>6, RunsAssumption
      <3> QED
        BY <3>1, <3>2, <1>6, FreshPartiesAssumption
    <2>2. OwnIsAccounted'
      BY <1>1, <2>1 DEF OwnIsAccounted, Scp, vars
    <2>3. Holds'
      BY <1>4 DEF Holds
    <2> QED
      BY <2>2, <2>3 DEF OnTrack
  <1>12. AssertsHold'
    BY <1>4 DEF AssertsHold
  <1> QED
    BY <1>1, <1>5, <1>7, <1>10, <1>11, <1>12 DEF E2EInv

LEMMA E2EInitInv ==
  ASSUME E2EInit
  PROVE  E2EInv
  <1>1. /\ ledger = << >> /\ active = {} /\ origin = << >> /\ actAs = {}
        /\ clock = 0 /\ runs = 0
    BY DEF E2EInit, Init
  <1>2. /\ DOMAIN run = RunField /\ DOMAIN run.id = Names
        /\ run.script = "none" /\ run.at = "passed"
        /\ run.pc = 1 /\ run.now = 0 /\ run.validUntil = 0
        /\ run.error = "none"
    BY DEF E2EInit, Fresh, RunField, Names
  <1>3. TypeOK
    BY <1>1 DEF TypeOK
  <1>4. RunTypes
    <2>1. 0 \in 0..MaxClock /\ 0 \in 0..MaxRuns
      BY RunsAssumption
    <2> QED
      BY <1>1, <1>2, <2>1 DEF RunTypes, Place
  <1>5. Global
    BY <1>1 DEF Global, OfARun, NftsAreBound, FactoriesAreLeft, Active
  <1> QED
    BY <1>1, <1>2, <1>3, <1>4, <1>5 DEF E2EInv, OnTrack, AssertsHold

-----------------------------------------------------------------------------
(* Theorems.                                                               *)

LEMMA E2ENextStep ==
  ASSUME E2EInv, [E2ENext]_allVars
  PROVE  E2EInv' /\ [Next]_vars
  <1>1. CASE ScriptStep
    <2>1. CASE \/ mintCredential \/ createKycNft \/ burnNft \/ revokeCredential
               \/ archiveAsHolder \/ createFactory \/ updateCredentials
      BY <2>1, MintCredentialStep, CreateKycNftStep, BurnNftStep,
         RevokeCredentialStep, ArchiveAsHolderStep, CreateFactoryStep,
         UpdateCredentialsStep, Zenon
    <2>2. CASE \/ verifyDisclosure \/ wrongAdmin \/ burnt \/ revoked \/ gone
               \/ refreshed
      <3>1. UNCHANGED vars
        BY <2>2 DEF verifyDisclosure, wrongAdmin, burnt, revoked, gone,
                    refreshed, Asserts
      <3> QED
        BY <2>2, <3>1, VerifyDisclosureStep, WrongAdminStep, BurntStep,
           RevokedStep, GoneStep, RefreshedStep, Zenon
    <2>3. CASE \/ personaSource \/ personaApprove \/ sumsubStart
               \/ mockApproveSumsub \/ diditStart \/ waitForEnter
               \/ fetchDecision \/ health \/ allocateParty
      BY <2>3, PhasesStep, Zenon
    <2> QED
      BY <1>1, <2>1, <2>2, <2>3, Zenon DEF ScriptStep
  <1>2. CASE Passes \/ Takes
    BY <1>2, VendorStep, Zenon
  <1>3. CASE main
    BY <1>3, MainStep, Zenon
  <1>4. CASE UNCHANGED allVars
    <2>1. /\ UNCHANGED vars
          /\ clock' = clock /\ vendor' = vendor /\ runs' = runs /\ run' = run
      BY <1>4 DEF allVars, e2eVars
    <2>2. clock' \in 0..MaxClock /\ clock' >= clock
      BY <2>1, RunsAssumption DEF E2EInv, RunTypes
    <2>3. E2EInv'
      BY <2>1, <2>2, SameState
    <2> QED
      BY <2>1, <2>3
  <1> QED
    BY <1>1, <1>2, <1>3, <1>4 DEF E2ENext

LEMMA E2EInvariance == E2ESpec => []E2EInv
  <1>1. E2EInit => E2EInv
    BY E2EInitInv, Zenon
  <1>2. E2EInv /\ [E2ENext]_allVars => E2EInv'
    BY E2ENextStep, Zenon
  <1> QED
    BY <1>1, <1>2, PTL DEF E2ESpec

\* The scripts are clients of the ledger: whatever they do, wherever they
\* stop and whatever answer is lost, is transactions CredentialLedger
\* allows, so that all that is proved of it holds of them.
THEOREM ScriptsImplementLedger == E2ESpec => Spec
  <1>1. E2EInit => Init
    BY Zenon DEF E2EInit
  <1>2. E2EInv /\ [E2ENext]_allVars => [Next]_vars
    BY E2ENextStep, Zenon
  <1> QED
    BY <1>1, <1>2, E2EInvariance, PTL DEF E2ESpec, Spec

\* Of all the assertions of a script, whatever earlier runs left behind,
\* only the window check of phase 7 ever fails, and only when the vendor's
\* decision was not valid long enough.
THEOREM OnlyTheWindowFails == E2ESpec => []AssertsHold
  BY E2EInvariance, PTL DEF E2EInv

\* Wherever a run stops, no NFT is left bound to an archived credential.
THEOREM NoNftDangles == E2ESpec => []NoDanglingNft
  <1>1. E2EInv => NoDanglingNft
    BY DEF E2EInv, Global, NftsAreBound, NoDanglingNft, Active
  <1> QED
    BY <1>1, E2EInvariance, PTL

\* A factory is left only between the two legs of an update; a run that
\* passed leaves two credentials of its own, a stamped sibling and no NFT.
THEOREM RunsLeaveBehind == E2ESpec => []LeavesBehind
  <1> SUFFICES ASSUME E2EInv
               PROVE  LeavesBehind
    BY E2EInvariance, PTL
  <1>1. /\ TypeOK /\ RunTypes
        /\ FactoriesAreLeft
    BY DEF E2EInv, Global
  <1>2. ASSUME At("passed"), run.script \notin {"none", "firm"}
        PROVE  LET mine == {c \in active : ledger[c].issuer = Scp.issuer}
                   stamped == {c \in mine : ledger[c].template = "Credential"
                                            /\ Revoked(c)}
               IN /\ mine \ stamped = {run.id["A"], run.id["D2"]}
                  /\ \E c \in stamped : stamped = {c} /\ origin[c] = run.id["B"]
    <2>1. runs > 0 /\ run.pc = Len(Program) + 1
      BY <1>1, <1>2 DEF RunTypes, At
    <2>2. Len(Program) = 18
      BY <1>2, Table, Zenon
    <2>3. run.pc = 19
      BY <2>1, <2>2
    <2>4. Holds /\ OwnIsAccounted
      BY <1>2, <2>1 DEF E2EInv, OnTrack, At
    <2>5. Minted("A") /\ Stamped /\ Refreshed
      BY <2>3, <2>4 DEF Holds
    <2> DEFINE mine == {c \in active : ledger[c].issuer = Scp.issuer}
               stamped == {c \in mine : ledger[c].template = "Credential"
                                        /\ Revoked(c)}
    <2>6. \A c \in mine : c = run.id["A"] \/ c = Sibling \/ c = run.id["D2"]
      BY <2>3, <2>4 DEF OwnIsAccounted, Accounted
    <2>7. run.id["A"] \in mine /\ ~Revoked(run.id["A"])
      BY <2>5 DEF Minted, Mint, Revoked
    <2>8. run.id["D2"] \in mine /\ ~Revoked(run.id["D2"])
      BY <2>5 DEF Refreshed, Mint, Revoked
    <2>9. /\ Sibling \in mine /\ Revoked(Sibling)
          /\ ledger[Sibling].template = "Credential"
          /\ origin[Sibling] = run.id["B"]
      <3>1. PICK reason \in Text :
              ledger[Sibling] = [Mint("B") EXCEPT !.revokeReason = reason]
        BY <2>5 DEF Stamped
      <3>2. reason # Absent
        BY TextAssumption
      <3> QED
        BY <2>5, <3>1, <3>2 DEF Stamped, Mint, Revoked
    <2>10. stamped = {Sibling}
      BY <2>6, <2>7, <2>8, <2>9
    <2>11. mine \ stamped = {run.id["A"], run.id["D2"]}
      BY <2>6, <2>7, <2>8, <2>9, <2>10
    <2> QED
      BY <2>9, <2>10, <2>11
  <1> QED
    BY <1>1, <1>2 DEF LeavesBehind, FactoriesAreLeft
=============================================================================
