------------------------- MODULE VerifierDemoProofs -------------------------
(***************************************************************************)
(* Proofs about VerifierDemo, for any vendors, user references, caps and   *)
(* number of clicks.                                                       *)
(*                                                                         *)
(* The inductive invariant has a part for each handler: what its closure   *)
(* holds at each of its awaits, whatever the user and the other handlers   *)
(* did to the page and the store meanwhile.                                *)
(***************************************************************************)
EXTENDS VerifierDemo, SequenceTheorems, TLAPS

-----------------------------------------------------------------------------
(* The inductive invariant.                                                *)

Pair == [contractId : Nat, blob : Nat]

Run ==
  [at : {"idle", "starting", "polling", "sleeping", "minting", "minted"},
   vendor : Vendor, userRef : UserRef \cup {""}, polls : Nat,
   approved : BOOLEAN, minted : Nat]

\* The user a credential names: as typed, or the one of the cascade panel.
AnyRef == UserRef \cup {"", "nft"}

Input ==
  [adminParty : Nat, holder : {"issue", "nft"},
   userRef : AnyRef, validator : Vendor]

Stored == [input : Input, nftContractId : Nat, revoked : BOOLEAN]

Nft == [bound : Nat, archived : BOOLEAN]

View ==
  [admin : Nat, userRef : AnyRef, validator : Vendor,
   status : {"Active", "Revoked"}]

Shown ==
  [credentialId : Nat, nftId : Nat, viewBefore : View,
   viewAfter : View \cup {NoView}]

Cascade ==
  [at : {"idle", "minting", "binding", "reading", "revoking", "rereading"},
   state : Shown \cup {NoView}, contractId : Nat, nftId : Nat]

Types ==
  /\ vendor \in Vendor
  /\ userRef \in UserRef \cup {""}
  /\ lastMinted \in Pair
  /\ fields \in Pair
  /\ issue \in Run
  /\ cascade \in Cascade
  /\ credentials \in Seq(Stored)
  /\ nfts \in Seq(Nft)

\* Nothing was minted yet, or one credential's id and blob.
MintedAsAPair == lastMinted.contractId = lastMinted.blob

\* Past the start the vendor is one the server can serve, and the user has a
\* name; a mint follows an approval.
Serves(run) == run.userRef # "" /\ run.vendor \in Configured \cup {"mock"}

IssueInv ==
  /\ issue.at \in {"polling", "sleeping", "minting", "minted"} => Serves(issue)
  /\ issue.at = "minting" => issue.approved = TRUE

\* Credential c and NFT n know of each other.
Bound(c, n) ==
  /\ c \in Contract
  /\ n \in DOMAIN nfts
  /\ nfts[n].bound = c
  /\ credentials[c].nftContractId = n

\* The view of credential c with this status.
Viewed(c, status) ==
  [admin |-> c, userRef |-> credentials[c].input.userRef,
   validator |-> credentials[c].input.validator, status |-> status]

\* What the panel shows of a credential and its NFT.
IsShown(s) ==
  /\ Bound(s.credentialId, s.nftId)
  /\ s.viewBefore = Viewed(s.credentialId, "Active")
  /\ s.viewAfter \in {NoView, Viewed(s.credentialId, "Revoked")}
  /\ s.viewAfter # NoView => nfts[s.nftId].archived = TRUE

CascadeInv ==
  /\ \A c \in Contract : credentials[c].input.adminParty = c
  /\ cascade.state # NoView => IsShown(cascade.state)
  /\ cascade.at \in {"minting", "binding", "reading"} => cascade.state = NoView
  /\ cascade.at \in {"revoking", "rereading"} => cascade.state # NoView
  /\ cascade.at \in {"binding", "reading"} =>
       /\ cascade.contractId \in Contract
       /\ credentials[cascade.contractId].revoked = FALSE
  /\ cascade.at = "reading" => Bound(cascade.contractId, cascade.nftId)
  /\ cascade.at = "revoking" => cascade.state.viewAfter = NoView
  /\ cascade.at = "rereading" =>
       /\ credentials[cascade.state.credentialId].revoked = TRUE
       /\ nfts[cascade.state.nftId].archived = TRUE

DemoInv == Types /\ MintedAsAPair /\ FilledAsAPair /\ IssueInv /\ CascadeInv

-----------------------------------------------------------------------------
(* Views.                                                                  *)

LEMMA StoreTypes ==
  ASSUME Types
  PROVE  /\ credentials \in Seq(Stored) /\ nfts \in Seq(Nft)
         /\ Len(credentials) \in Nat /\ Len(nfts) \in Nat
         /\ DOMAIN credentials = Contract /\ DOMAIN nfts = 1 .. Len(nfts)
         /\ \A c \in Contract : c \in Nat /\ c # 0 /\ credentials[c] \in Stored
         /\ \A n \in DOMAIN nfts : n \in Nat /\ n # 0 /\ nfts[n] \in Nft
  <1>1. credentials \in Seq(Stored) /\ nfts \in Seq(Nft)
    BY DEF Types
  <1> QED
    BY <1>1, LenProperties, ElementOfSeq DEF Contract

LEMMA NoViewIsNone == NoView \notin View /\ NoView \notin Shown
  BY DEF NoView, View, Shown

\* What verifyDisclosure answers of a credential for its own admin.
LEMMA OwnView ==
  ASSUME Types, NEW c \in Contract,
         credentials[c].input.adminParty = c
  PROVE  LET status == IF credentials[c].revoked THEN "Revoked" ELSE "Active"
         IN /\ verifyDisclosure([contractId |-> c, blob |-> c], c)
                 = Viewed(c, status)
            /\ Viewed(c, "Active") \in View /\ Viewed(c, "Revoked") \in View
            /\ Viewed(c, "Active") # NoView /\ Viewed(c, "Revoked") # NoView
  <1>1. c \in Nat /\ c # 0 /\ credentials[c] \in Stored
    BY StoreTypes
  <1>2. Viewed(c, "Active") \in View /\ Viewed(c, "Revoked") \in View
    BY <1>1 DEF Viewed, View, Stored, Input
  <1>3. synthView(c) =
          Viewed(c, IF credentials[c].revoked THEN "Revoked" ELSE "Active")
    BY DEF synthView, Viewed
  <1>4. synthView(c).admin = c
    BY DEF synthView
  <1>5. verifyDisclosure([contractId |-> c, blob |-> c], c) = synthView(c)
    BY <1>1, <1>4 DEF verifyDisclosure, verifyCredential
  <1> QED
    BY <1>2, <1>3, <1>5, NoViewIsNone

-----------------------------------------------------------------------------
(* The page.                                                               *)

\* A render fills both inputs with the pair or leaves them as they are.
LEMMA RenderKeeps ==
  ASSUME NEW shown \in Pair, NEW minted \in Pair,
         minted.contractId = minted.blob, NEW edited,
         edited = {} => shown.contractId = shown.blob,
         Rendered(shown, minted, edited)
  PROVE  fields' \in Pair /\ FilledAsAPair'
  <1>1. fields' \in {shown, minted}
    BY DEF Rendered, autoFill
  <1>2. typed' = {} => (fields' = minted \/ (edited = {} /\ fields' = shown))
    BY <1>1 DEF Rendered
  <1> QED
    BY <1>1, <1>2 DEF FilledAsAPair

\* The parts of the invariant that are about a handler's own variables.
LEMMA CascadeAlone ==
  ASSUME CascadeInv, UNCHANGED <<cascade, credentials, nfts>>
  PROVE  CascadeInv'
  BY DEF CascadeInv, IsShown, Bound, Viewed, Contract

LEMMA IssueAlone ==
  ASSUME IssueInv, UNCHANGED issue
  PROVE  IssueInv'
  BY DEF IssueInv

LEMMA PageAlone ==
  ASSUME MintedAsAPair, FilledAsAPair, UNCHANGED <<lastMinted, fields, typed>>
  PROVE  MintedAsAPair' /\ FilledAsAPair'
  BY DEF MintedAsAPair, FilledAsAPair

LEMMA UserKeeps ==
  ASSUME DemoInv, App \/ setUserRef \/ setField
  PROVE  DemoInv'
  <1> USE DEF DemoInv
  <1>1. UNCHANGED <<lastMinted, issue, cascade, credentials, nfts>>
    BY DEF App, setUserRef, setField, verifyVars, store
  <1>2. IssueInv' /\ CascadeInv' /\ MintedAsAPair'
    BY <1>1, CascadeAlone, IssueAlone DEF MintedAsAPair
  <1>3. vendor' \in Vendor /\ userRef' \in UserRef \cup {""}
    BY DEF App, setUserRef, setField, form, Types
  <1>4. fields' \in Pair /\ FilledAsAPair'
    <2>1. CASE setField
      <3>1. PICK f \in {"contractId", "blob"}, value \in {0} \cup Contract :
              Rendered([fields EXCEPT ![f] = value], lastMinted, typed \cup {f})
        BY <2>1 DEF setField
      <3>2. value \in Nat
        BY <3>1 DEF Contract
      <3>3. [fields EXCEPT ![f] = value] \in Pair
        BY <3>1, <3>2 DEF Types, Pair
      <3> QED
        BY <3>1, <3>3, RenderKeeps DEF Types, MintedAsAPair
    <2>2. CASE App \/ setUserRef
      BY <2>2 DEF App, setUserRef, verifyVars, Types, FilledAsAPair
    <2> QED
      BY <2>1, <2>2
  <1> QED
    BY <1>1, <1>2, <1>3, <1>4 DEF Types

LEMMA VerifyKeeps ==
  ASSUME DemoInv, ClickVerify \/ VerifyRun
  PROVE  DemoInv'
  <1>1. UNCHANGED <<form, lastMinted, fields, typed, issue, cascade, store>>
    BY DEF ClickVerify, VerifyRun, fetchDisclosureBundleByContractId, setView,
           VerifyUnchanged
  <1> QED
    BY <1>1, CascadeAlone, IssueAlone, PageAlone
       DEF DemoInv, Types, form, store

-----------------------------------------------------------------------------
(* Issuing.                                                                *)

LEMMA IdleRunIsRun == IdleRun \in Run
  BY DEF IdleRun, Run, Vendor

\* Where a poll can leave the handler.
LEMMA PollLeads ==
  ASSUME pollUntilTerminal
  PROVE  \/ issue' = [issue EXCEPT !.at = "minting", !.approved = TRUE]
         \/ issue' = [issue EXCEPT !.at = "sleeping",
                        !.polls = IF @ < PollCap THEN @ + 1 ELSE @]
         \/ issue' = IdleRun
  BY Zenon DEF pollUntilTerminal, Issues

LEMMA IssueKeeps ==
  ASSUME DemoInv,
         \/ ClickIssue \/ startSession \/ pollUntilTerminal \/ sleep
         \/ mockDecision
  PROVE  DemoInv'
  <1> USE DEF DemoInv
  <1>1. UNCHANGED <<form, verifyVars, cascade, store>>
    BY DEF ClickIssue, startSession, pollUntilTerminal, sleep, mockDecision,
           IssueUnchanged
  <1>2. issue' \in Run /\ IssueInv'
    <2>1. CASE ClickIssue
      BY <2>1, IdleRunIsRun DEF ClickIssue, Issues, Types, Run, IssueInv
    <2>2. CASE startSession
      <3>1. CASE issue' = [issue EXCEPT !.at = "polling"]
        <4>1. issue.userRef # "" /\ issue.vendor \in Configured \cup {"mock"}
          BY <2>2, <3>1, IdleRunIsRun
             DEF startSession, handleStartSession, buildAdapter, Issues, Types,
                 Run, IdleRun
        <4> QED
          BY <3>1, <4>1 DEF Types, Run, IssueInv, Serves
      <3>2. CASE issue' = IdleRun
        BY <3>2, IdleRunIsRun DEF IdleRun, IssueInv
      <3> QED
        BY <2>2, <3>1, <3>2 DEF startSession, Issues
    <2>3. CASE pollUntilTerminal
      <3>1. Serves(issue)
        BY <2>3 DEF pollUntilTerminal, IssueInv
      <3>2. CASE issue' = [issue EXCEPT !.at = "minting", !.approved = TRUE]
        BY <3>1, <3>2 DEF Types, Run, IssueInv, Serves
      <3>3. CASE issue' = [issue EXCEPT !.at = "sleeping",
                             !.polls = IF @ < PollCap THEN @ + 1 ELSE @]
        <4>1. PICK polls : polls = IF issue.polls < PollCap
                                   THEN issue.polls + 1 ELSE issue.polls
          OBVIOUS
        <4>2. issue.polls \in Nat
          BY DEF Types, Run
        <4>3. polls \in Nat
          BY <4>1, <4>2
        <4>4. issue' = [issue EXCEPT !.at = "sleeping", !.polls = polls]
          BY <3>3, <4>1
        <4> QED
          BY <3>1, <4>3, <4>4 DEF Types, Run, IssueInv, Serves
      <3>4. CASE issue' = IdleRun
        BY <3>4, IdleRunIsRun DEF IdleRun, IssueInv
      <3> QED
        BY <2>3, <3>2, <3>3, <3>4, PollLeads
    <2>4. CASE sleep \/ mockDecision
      BY <2>4 DEF sleep, mockDecision, Issues, Types, Run, IssueInv, Serves
    <2> QED
      BY <2>1, <2>2, <2>3, <2>4
  <1> QED
    BY <1>1, <1>2, CascadeAlone, PageAlone DEF Types, form, verifyVars, store

\* The store after one more credential.
LEMMA CredentialAdded ==
  ASSUME Types, NEW holder \in {"issue", "nft"},
         NEW user \in AnyRef, NEW vend \in Vendor,
         createCredential(holder, user, vend)
  PROVE  /\ credentials' \in Seq(Stored)
         /\ Len(credentials) \in Nat
         /\ Contract' = Contract \cup {Len(credentials) + 1}
         /\ \A c \in Contract : credentials'[c] = credentials[c]
         /\ credentials'[Len(credentials) + 1] =
              [input |-> [adminParty |-> Len(credentials) + 1,
                          holder |-> holder, userRef |-> user, validator |-> vend],
               nftContractId |-> 0, revoked |-> FALSE]
  <1> DEFINE new == [input |-> [adminParty |-> Len(credentials) + 1,
                                holder |-> holder, userRef |-> user,
                                validator |-> vend],
                     nftContractId |-> 0, revoked |-> FALSE]
  <1>0. credentials \in Seq(Stored) /\ Len(credentials) \in Nat
    BY StoreTypes
  <1>x. Len(credentials) + 1 \in Nat
    BY <1>0
  <1>1. new \in Stored
    BY <1>x DEF Stored, Input
  <1>2. credentials' = Append(credentials, new)
    BY DEF createCredential
  <1> HIDE DEF new
  <1>3. /\ credentials' \in Seq(Stored)
        /\ Len(credentials') = Len(credentials) + 1
        /\ \A c \in 1 .. Len(credentials) : credentials'[c] = credentials[c]
        /\ credentials'[Len(credentials) + 1] = new
    <2>1. /\ Append(credentials, new) \in Seq(Stored)
          /\ Len(Append(credentials, new)) = Len(credentials) + 1
          /\ \A i \in 1 .. Len(credentials) :
               Append(credentials, new)[i] = credentials[i]
          /\ Append(credentials, new)[Len(credentials) + 1] = new
      BY <1>0, <1>1, AppendProperties
    <2> QED
      BY <1>2, <2>1
  <1>4. Contract' = Contract \cup {Len(credentials) + 1}
    BY <1>0, <1>3 DEF Contract
  <1> QED
    BY <1>0, <1>3, <1>4 DEF Contract, new

\* Another credential leaves what the cascade panel holds as it was.
LEMMA CascadeBeside ==
  ASSUME Types, CascadeInv, NEW holder \in {"issue", "nft"},
         NEW user \in AnyRef, NEW vend \in Vendor,
         createCredential(holder, user, vend), UNCHANGED <<cascade, nfts>>
  PROVE  CascadeInv'
  <1>0. PICK last : last = Len(credentials) + 1
    OBVIOUS
  <1>a. /\ Contract' = Contract \cup {last}
        /\ \A c \in Contract : credentials'[c] = credentials[c]
    BY <1>0, CredentialAdded
  <1>b. credentials'[last].input.adminParty = last
    <2>1. credentials'[last] =
            [input |-> [adminParty |-> last, holder |-> holder,
                        userRef |-> user, validator |-> vend],
             nftContractId |-> 0, revoked |-> FALSE]
      BY <1>0, CredentialAdded
    <2> QED
      BY <2>1
  <1>1. /\ Contract \subseteq Contract'
        /\ \A c \in Contract : credentials'[c] = credentials[c]
        /\ \A c \in Contract' : credentials'[c].input.adminParty = c
    BY <1>a, <1>b DEF CascadeInv
  <1>2. \A c, n : Bound(c, n) => Bound(c, n)'
    BY <1>1 DEF Bound
  <1>3. ASSUME NEW s, IsShown(s)
        PROVE  IsShown(s)'
    <2>1. s.credentialId \in Contract
      BY <1>3 DEF IsShown, Bound
    <2>2. \A t : Viewed(s.credentialId, t)' = Viewed(s.credentialId, t)
      BY <1>1, <2>1 DEF Viewed
    <2> QED
      BY <1>2, <1>3, <2>2 DEF IsShown
  <1>4. cascade.state # NoView => IsShown(cascade.state)'
    BY <1>3 DEF CascadeInv
  <1>5. cascade.at \in {"binding", "reading"} =>
          /\ cascade.contractId \in Contract'
          /\ credentials'[cascade.contractId].revoked = FALSE
    BY <1>1 DEF CascadeInv
  <1>6. cascade.at = "reading" => Bound(cascade.contractId, cascade.nftId)'
    BY <1>2 DEF CascadeInv
  <1>7. cascade.at = "rereading" =>
          /\ credentials'[cascade.state.credentialId].revoked = TRUE
          /\ nfts'[cascade.state.nftId].archived = TRUE
    BY <1>1 DEF CascadeInv, IsShown, Bound
  <1> QED
    BY <1>1, <1>4, <1>5, <1>6, <1>7 DEF CascadeInv

LEMMA MintKeeps ==
  ASSUME DemoInv, Mint
  PROVE  DemoInv'
  <1> USE DEF DemoInv
  <1>1. /\ createCredential("issue", issue.userRef, validator(issue))
        /\ issue' = [issue EXCEPT !.at = "minted", !.minted = Len(credentials) + 1]
        /\ UNCHANGED <<form, verifyVars, cascade, nfts>>
        /\ Serves(issue)
    BY DEF Mint, Issues, IssueInv
  <1>2. issue.userRef \in AnyRef /\ validator(issue) \in Vendor
    BY DEF Types, Run, validator, AnyRef
  <1>a. PICK holder, user, vend :
          holder = "issue" /\ user = issue.userRef /\ vend = validator(issue)
    OBVIOUS
  <1>b. /\ createCredential(holder, user, vend)
        /\ holder \in {"issue", "nft"} /\ user \in AnyRef /\ vend \in Vendor
    BY <1>1, <1>2, <1>a
  <1>3. credentials' \in Seq(Stored) /\ Len(credentials) \in Nat
    BY <1>b, CredentialAdded
  <1>4. issue' \in Run /\ IssueInv'
    <2>1. PICK last : last = Len(credentials) + 1
      OBVIOUS
    <2>2. last \in Nat
      BY <1>3, <2>1
    <2>a. issue \in Run
      BY DEF Types
    <2>3. issue' = [issue EXCEPT !.at = "minted", !.minted = last]
      BY <1>1, <2>1
    <2> QED
      BY <1>1, <2>2, <2>a, <2>3 DEF Run, IssueInv, Serves
  <1>5. CascadeInv'
    BY <1>1, <1>b, CascadeBeside
  <1> QED
    BY <1>1, <1>3, <1>4, <1>5, PageAlone DEF Types, form, verifyVars

LEMMA OnMintedKeeps ==
  ASSUME DemoInv, onMinted
  PROVE  DemoInv'
  <1> USE DEF DemoInv
  <1>1. /\ lastMinted' = [contractId |-> issue.minted, blob |-> issue.minted]
        /\ Rendered(fields, lastMinted', typed)
        /\ issue' = IdleRun
        /\ UNCHANGED <<form, cascade, store>>
    BY DEF onMinted, Issues
  <1>2. lastMinted' \in Pair /\ MintedAsAPair'
    BY <1>1 DEF Types, Run, Pair, MintedAsAPair
  <1>3. fields' \in Pair /\ FilledAsAPair'
    <2>1. PICK minted : minted = lastMinted'
      OBVIOUS
    <2> QED
      BY <1>1, <1>2, <2>1, RenderKeeps DEF Types, MintedAsAPair, FilledAsAPair
  <1>4. issue' \in Run /\ IssueInv'
    BY <1>1, IdleRunIsRun DEF IdleRun, IssueInv
  <1> QED
    BY <1>1, <1>2, <1>3, <1>4, CascadeAlone DEF Types, form, store

-----------------------------------------------------------------------------
(* The cascade panel.                                                      *)

LEMMA IdleCascadeIsCascade == IdleCascade \in Cascade
  BY DEF IdleCascade, Cascade

\* A click changes only where the handler stands.
LEMMA ClicksKeep ==
  ASSUME DemoInv, ClickMint \/ ClickRevoke
  PROVE  DemoInv'
  <1> USE DEF DemoInv
  <1>1. UNCHANGED <<form, verifyVars, issue, store>>
    BY DEF ClickMint, ClickRevoke, CascadeUnchanged
  <1>2. cascade' \in Cascade /\ CascadeInv'
    <2>1. CASE ClickMint
      <3>1. cascade' = [IdleCascade EXCEPT !.at = "minting"]
        BY <2>1 DEF ClickMint
      <3>2. cascade' \in Cascade
        BY <3>1, IdleCascadeIsCascade DEF Cascade
      <3>3. cascade'.at = "minting" /\ cascade'.state = NoView
        BY <3>1 DEF IdleCascade
      <3>4. \A c \in Contract' : credentials'[c].input.adminParty = c
        BY <1>1 DEF CascadeInv, store, Contract
      <3> QED
        BY <3>2, <3>3, <3>4 DEF CascadeInv
    <2>2. CASE ClickRevoke
      <3>1. /\ cascade' = [cascade EXCEPT !.at = "revoking"]
            /\ cascade.state # NoView /\ cascade.state.viewAfter = NoView
        BY <2>2 DEF ClickRevoke
      <3>2. cascade' \in Cascade /\ cascade'.state = cascade.state
            /\ cascade'.at = "revoking"
        BY <3>1 DEF Cascade, Types
      <3>3. IsShown(cascade.state)'
        BY <1>1, <3>1, <3>2
           DEF CascadeInv, store, Contract, IsShown, Bound, Viewed
      <3>4. \A c \in Contract' : credentials'[c].input.adminParty = c
        BY <1>1 DEF CascadeInv, store, Contract
      <3> QED
        BY <3>1, <3>2, <3>3, <3>4 DEF CascadeInv
    <2> QED
      BY <2>1, <2>2
  <1> QED
    BY <1>1, <1>2, IssueAlone, PageAlone DEF Types, form, verifyVars, store

LEMMA MintCredentialKeeps ==
  ASSUME DemoInv, mintCredential
  PROVE  DemoInv'
  <1> USE DEF DemoInv
  <1>1. PICK last, holder, user, vend :
          /\ last = Len(credentials) + 1
          /\ holder = "nft" /\ user = "nft" /\ vend = "mock"
    OBVIOUS
  <1>2. /\ createCredential(holder, user, vend)
        /\ holder \in {"issue", "nft"} /\ user \in AnyRef /\ vend \in Vendor
        /\ cascade' = [cascade EXCEPT !.at = "binding", !.contractId = last]
        /\ cascade.at = "minting"
        /\ UNCHANGED <<form, verifyVars, issue, nfts>>
    BY <1>1 DEF mintCredential, CascadeUnchanged, AnyRef, Vendor
  <1>3. /\ credentials' \in Seq(Stored) /\ Len(credentials) \in Nat
        /\ Contract' = Contract \cup {last}
        /\ \A c \in Contract : credentials'[c] = credentials[c]
    BY <1>1, <1>2, CredentialAdded
  <1>4. credentials'[last] =
          [input |-> [adminParty |-> last, holder |-> holder,
                      userRef |-> user, validator |-> vend],
           nftContractId |-> 0, revoked |-> FALSE]
    BY <1>1, <1>2, CredentialAdded
  <1>5. cascade' \in Cascade /\ cascade'.at = "binding"
        /\ cascade'.contractId = last /\ cascade'.state = cascade.state
    <2>1. last \in Nat
      BY <1>1, <1>3
    <2>2. cascade \in Cascade
      BY DEF Types
    <2> QED
      BY <1>2, <2>1, <2>2 DEF Cascade
  <1>6. cascade'.state = NoView
    BY <1>2, <1>5 DEF CascadeInv
  <1>7. \A c \in Contract' : credentials'[c].input.adminParty = c
    BY <1>3, <1>4 DEF CascadeInv
  <1>8. CascadeInv'
    BY <1>3, <1>4, <1>5, <1>6, <1>7 DEF CascadeInv
  <1> QED
    BY <1>2, <1>3, <1>5, <1>8, IssueAlone, PageAlone
       DEF Types, form, verifyVars

LEMMA MintNftKeeps ==
  ASSUME DemoInv, mintNft
  PROVE  DemoInv'
  <1> USE DEF DemoInv
  <1>1. PICK c, n : c = cascade.contractId /\ n = Len(nfts) + 1
    OBVIOUS
  <1>2. /\ nfts' = Append(nfts, [bound |-> c, archived |-> FALSE])
        /\ credentials' = [credentials EXCEPT ![c].nftContractId = n]
        /\ cascade' = [cascade EXCEPT !.at = "reading", !.nftId = n]
        /\ cascade.at = "binding"
        /\ UNCHANGED <<form, verifyVars, issue>>
    BY <1>1 DEF mintNft, createKycNft, CascadeUnchanged
  <1>3. c \in Contract /\ credentials[c].revoked = FALSE /\ cascade.state = NoView
    BY <1>1, <1>2 DEF CascadeInv
  <1>4. /\ credentials \in Seq(Stored) /\ nfts \in Seq(Nft)
        /\ Len(nfts) \in Nat /\ c \in Nat
        /\ credentials[c] \in Stored /\ DOMAIN credentials = Contract
    BY <1>3, StoreTypes
  <1>5. n \in Nat
    BY <1>1, <1>4
  <1>6. [bound |-> c, archived |-> FALSE] \in Nft
    BY <1>4 DEF Nft
  <1>7. /\ nfts' \in Seq(Nft) /\ Len(nfts') = n /\ n \in DOMAIN nfts'
        /\ nfts'[n] = [bound |-> c, archived |-> FALSE]
    <2>1. PICK one : one = [bound |-> c, archived |-> FALSE]
      OBVIOUS
    <2>2. /\ Append(nfts, one) \in Seq(Nft)
          /\ Len(Append(nfts, one)) = Len(nfts) + 1
          /\ Append(nfts, one)[Len(nfts) + 1] = one
      BY <1>4, <1>6, <2>1, AppendProperties
    <2>3. DOMAIN nfts' = 1 .. Len(nfts')
      BY <1>2, <2>1, <2>2, LenProperties
    <2> QED
      BY <1>1, <1>2, <1>4, <2>1, <2>2, <2>3
  <1>8. [credentials[c] EXCEPT !.nftContractId = n] \in Stored
    BY <1>4, <1>5 DEF Stored
  <1>9. /\ credentials' \in Seq(Stored) /\ Len(credentials') = Len(credentials)
        /\ credentials' = [credentials EXCEPT
             ![c] = [credentials[c] EXCEPT !.nftContractId = n]]
    <2>1. PICK one : one = [credentials[c] EXCEPT !.nftContractId = n]
      OBVIOUS
    <2>2. credentials' = [credentials EXCEPT ![c] = one]
      BY <1>2, <2>1
    <2>3. c \in 1 .. Len(credentials)
      BY <1>3 DEF Contract
    <2> QED
      BY <1>4, <1>8, <2>1, <2>2, <2>3, ExceptSeq
  <1>10. Contract' = Contract
    BY <1>9 DEF Contract
  <1>11. /\ credentials'[c].nftContractId = n
         /\ credentials'[c].revoked = FALSE
         /\ \A d \in Contract : credentials'[d].input = credentials[d].input
    BY <1>3, <1>4, <1>9 DEF Stored
  <1>12. cascade' \in Cascade /\ cascade'.at = "reading"
         /\ cascade'.contractId = c /\ cascade'.nftId = n
         /\ cascade'.state = NoView
    BY <1>1, <1>2, <1>3, <1>5 DEF Types, Cascade
  <1>13. Bound(c, n)'
    BY <1>3, <1>7, <1>10, <1>11 DEF Bound
  <1>14. CascadeInv'
    BY <1>3, <1>10, <1>11, <1>12, <1>13 DEF CascadeInv
  <1> QED
    BY <1>2, <1>7, <1>9, <1>12, <1>14, IssueAlone, PageAlone
       DEF Types, form, verifyVars

LEMMA ViewBeforeKeeps ==
  ASSUME DemoInv, viewBefore
  PROVE  DemoInv'
  <1> USE DEF DemoInv
  <1>1. PICK c, n, view :
          /\ c = cascade.contractId /\ n = cascade.nftId
          /\ view = verifyDisclosure([contractId |-> c, blob |-> c], c)
    OBVIOUS
  <1>2. /\ cascade.at = "reading"
        /\ cascade' = [IdleCascade EXCEPT
             !.state = IF view = NoView THEN NoView
                       ELSE [credentialId |-> c, nftId |-> n,
                             viewBefore |-> view, viewAfter |-> NoView]]
        /\ UNCHANGED <<form, verifyVars, issue, store>>
    BY <1>1 DEF viewBefore, CascadeUnchanged
  <1>3. /\ Bound(c, n) /\ c \in Contract
        /\ credentials[c].revoked = FALSE
        /\ credentials[c].input.adminParty = c
    BY <1>1, <1>2 DEF CascadeInv
  <1>4. view = Viewed(c, "Active") /\ view \in View /\ view # NoView
    BY <1>1, <1>3, OwnView
  <1>5. PICK shown : shown = [credentialId |-> c, nftId |-> n,
                              viewBefore |-> view, viewAfter |-> NoView]
    OBVIOUS
  <1>6. shown \in Shown /\ shown # NoView
    <2>1. c \in Nat /\ n \in Nat
      BY <1>3, StoreTypes DEF Bound
    <2>2. shown \in Shown
      BY <1>4, <1>5, <2>1 DEF Shown
    <2> QED
      BY <2>2, NoViewIsNone
  <1>7. cascade' = [IdleCascade EXCEPT !.state = shown]
    BY <1>2, <1>4, <1>5
  <1>8. cascade' \in Cascade /\ cascade'.at = "idle" /\ cascade'.state = shown
    BY <1>6, <1>7 DEF IdleCascade, Cascade
  <1>9. IsShown(shown)
    BY <1>3, <1>4, <1>5 DEF IsShown
  <1>10. IsShown(shown)' /\ \A d \in Contract' : credentials'[d].input.adminParty = d
    BY <1>2, <1>9
       DEF store, IsShown, Bound, Viewed, Contract, CascadeInv
  <1>11. IsShown(cascade.state)'
    BY <1>8, <1>10 DEF IsShown, Bound, Viewed
  <1>12. CascadeInv'
    BY <1>8, <1>10, <1>11 DEF CascadeInv
  <1> QED
    BY <1>2, <1>8, <1>12, IssueAlone, PageAlone
       DEF Types, form, verifyVars, store

LEMMA RevokeKeeps ==
  ASSUME DemoInv, revoke
  PROVE  DemoInv'
  <1> USE DEF DemoInv
  <1>1. PICK shown, c, n :
          shown = cascade.state /\ c = shown.credentialId /\ n = shown.nftId
    OBVIOUS
  <1>2. /\ cascade.at = "revoking"
        /\ credentials' = [credentials EXCEPT ![c].revoked = TRUE]
        /\ nfts' = [m \in DOMAIN nfts |->
             IF m = credentials[c].nftContractId
             THEN [nfts[m] EXCEPT !.archived = TRUE] ELSE nfts[m]]
        /\ cascade' = [cascade EXCEPT !.at = "rereading"]
        /\ UNCHANGED <<form, verifyVars, issue>>
    BY <1>1 DEF revoke, revokeCredential, CascadeUnchanged
  <1>3. /\ shown # NoView /\ IsShown(shown) /\ Bound(c, n)
        /\ shown.viewAfter = NoView
    BY <1>1, <1>2 DEF CascadeInv, IsShown
  <1>4. /\ c \in Contract /\ n \in DOMAIN nfts
        /\ credentials[c].nftContractId = n /\ nfts[n].bound = c
        /\ credentials[c] \in Stored /\ nfts[n] \in Nft
        /\ credentials \in Seq(Stored) /\ nfts \in Seq(Nft)
        /\ DOMAIN credentials = Contract
    BY <1>3, StoreTypes DEF Bound
  <1>5. PICK one, gone : /\ one = [credentials[c] EXCEPT !.revoked = TRUE]
                         /\ gone = [nfts[n] EXCEPT !.archived = TRUE]
    OBVIOUS
  <1>6. one \in Stored /\ one.revoked = TRUE
        /\ one.input = credentials[c].input /\ one.nftContractId = n
    BY <1>4, <1>5 DEF Stored
  <1>7. gone \in Nft /\ gone.archived = TRUE /\ gone.bound = c
    BY <1>4, <1>5 DEF Nft
  <1>8. /\ credentials' \in Seq(Stored) /\ Contract' = Contract
        /\ credentials'[c] = one
        /\ \A d \in Contract : d # c => credentials'[d] = credentials[d]
    <2>1. credentials' = [credentials EXCEPT ![c] = one]
      BY <1>2, <1>5
    <2>2. c \in 1 .. Len(credentials)
      BY <1>4 DEF Contract
    <2>3. credentials' \in Seq(Stored) /\ Len(credentials') = Len(credentials)
      BY <1>4, <1>6, <2>1, <2>2, ExceptSeq
    <2> QED
      BY <1>4, <2>1, <2>3 DEF Contract
  <1>9. /\ nfts' \in Seq(Nft) /\ n \in DOMAIN nfts' /\ nfts'[n] = gone
    <2>1. nfts' = [nfts EXCEPT ![n] = gone]
      BY <1>2, <1>4, <1>5
    <2>2. n \in 1 .. Len(nfts)
      BY <1>4, StoreTypes
    <2>3. nfts' \in Seq(Nft)
      BY <1>4, <1>7, <2>1, <2>2, ExceptSeq
    <2> QED
      BY <1>4, <2>1, <2>3
  <1>10. /\ cascade' \in Cascade /\ cascade'.at = "rereading"
         /\ cascade'.state = shown
    BY <1>1, <1>2 DEF Types, Cascade
  <1>11. \A d \in Contract' : credentials'[d].input.adminParty = d
    BY <1>6, <1>8 DEF CascadeInv
  <1>12. IsShown(shown)'
    <2>1. Bound(c, n)'
      BY <1>4, <1>6, <1>7, <1>8, <1>9 DEF Bound
    <2>2. \A t : Viewed(c, t)' = Viewed(c, t)
      BY <1>6, <1>8 DEF Viewed
    <2> QED
      BY <1>1, <1>3, <2>1, <2>2 DEF IsShown
  <1>13. CascadeInv'
    <2>1. IsShown(cascade.state)'
      BY <1>10, <1>12 DEF IsShown, Bound, Viewed
    <2> QED
      BY <1>1, <1>3, <1>6, <1>7, <1>8, <1>9, <1>10, <1>11, <2>1 DEF CascadeInv
  <1> QED
    BY <1>2, <1>8, <1>9, <1>10, <1>13, IssueAlone, PageAlone
       DEF Types, form, verifyVars

LEMMA ViewAfterKeeps ==
  ASSUME DemoInv, viewAfter
  PROVE  DemoInv'
  <1> USE DEF DemoInv
  <1>1. PICK shown, c, admin, view :
          /\ shown = cascade.state /\ c = shown.credentialId
          /\ admin = shown.viewBefore.admin
          /\ view = verifyDisclosure([contractId |-> c, blob |-> c], admin)
    OBVIOUS
  <1>2. /\ cascade.at = "rereading"
        /\ cascade' = [cascade EXCEPT !.at = "idle", !.state.viewAfter = view]
        /\ UNCHANGED <<form, verifyVars, issue, store>>
    BY <1>1 DEF viewAfter, CascadeUnchanged
  <1>3. /\ shown # NoView /\ shown \in Shown /\ IsShown(shown)
        /\ Bound(c, shown.nftId) /\ c \in Contract
        /\ credentials[c].input.adminParty = c
        /\ credentials[c].revoked = TRUE
        /\ nfts[shown.nftId].archived = TRUE
    <2>1. shown # NoView /\ shown \in Shown
      BY <1>1, <1>2 DEF CascadeInv, Types, Cascade
    <2> QED
      BY <1>1, <1>2, <2>1 DEF CascadeInv, IsShown, Bound
  <1>4. admin = c
    BY <1>1, <1>3 DEF IsShown, Viewed
  <1>5. view = Viewed(c, "Revoked") /\ view \in View /\ view # NoView
    BY <1>1, <1>3, <1>4, OwnView
  <1>6. PICK after : after = [shown EXCEPT !.viewAfter = view]
    OBVIOUS
  <1>7. /\ after \in Shown /\ after # NoView
        /\ after.credentialId = c /\ after.nftId = shown.nftId
        /\ after.viewBefore = shown.viewBefore /\ after.viewAfter = view
    <2>1. after \in Shown
      BY <1>3, <1>5, <1>6 DEF Shown
    <2>2. after # NoView
      BY <2>1, NoViewIsNone
    <2> QED
      BY <1>1, <1>3, <1>6, <2>1, <2>2 DEF Shown
  <1>8. /\ cascade' \in Cascade /\ cascade'.at = "idle" /\ cascade'.state = after
    BY <1>1, <1>2, <1>6, <1>7 DEF Types, Cascade
  <1>9. IsShown(after)
    BY <1>1, <1>3, <1>5, <1>7 DEF IsShown
  <1>10. IsShown(after)'
         /\ \A d \in Contract' : credentials'[d].input.adminParty = d
    BY <1>2, <1>9 DEF store, IsShown, Bound, Viewed, Contract, CascadeInv
  <1>11. IsShown(cascade.state)'
    BY <1>8, <1>10 DEF IsShown, Bound, Viewed
  <1>12. CascadeInv'
    BY <1>8, <1>10, <1>11 DEF CascadeInv
  <1> QED
    BY <1>2, <1>8, <1>12, IssueAlone, PageAlone
       DEF Types, form, verifyVars, store

-----------------------------------------------------------------------------
(* The behaviours.                                                         *)

LEMMA DemoInit == Init => DemoInv
  <1> SUFFICES ASSUME Init PROVE DemoInv
    OBVIOUS
  <1>1. credentials \in Seq(Stored) /\ nfts \in Seq(Nft)
    BY DEF Init
  <1>2. NoPair \in Pair
    BY DEF NoPair, Pair
  <1>3. Types
    BY <1>1, <1>2, IdleRunIsRun, IdleCascadeIsCascade DEF Init, Types
  <1>4. IssueInv /\ MintedAsAPair /\ FilledAsAPair
    BY DEF Init, IdleRun, NoPair, IssueInv, MintedAsAPair, FilledAsAPair
  <1>5. Contract = {}
    BY DEF Init, Contract
  <1>6. CascadeInv
    BY <1>5 DEF Init, IdleCascade, CascadeInv
  <1> QED
    BY <1>3, <1>4, <1>6 DEF DemoInv

LEMMA DemoStep == DemoInv /\ [Next]_vars => DemoInv'
  <1> SUFFICES ASSUME DemoInv, [Next]_vars PROVE DemoInv'
    OBVIOUS
  <1>1. CASE UNCHANGED vars
    BY <1>1, CascadeAlone, IssueAlone, PageAlone
       DEF vars, form, verifyVars, store, DemoInv, Types
  <1>2. CASE User
    BY <1>2, UserKeeps, IssueKeeps, VerifyKeeps, ClicksKeep DEF User
  <1>3. CASE IssueRun
    BY <1>3, IssueKeeps, MintKeeps, OnMintedKeeps DEF IssueRun
  <1>4. CASE VerifyRun
    BY <1>4, VerifyKeeps
  <1>5. CASE CascadeRun
    BY <1>5, MintCredentialKeeps, MintNftKeeps, ViewBeforeKeeps, RevokeKeeps,
       ViewAfterKeeps DEF CascadeRun
  <1> QED
    BY <1>1, <1>2, <1>3, <1>4, <1>5 DEF Next

\* What every handler holds at its awaits, in every reachable state.
THEOREM DemoInvariance == Spec => []DemoInv
  <1> QED
    BY DemoInit, DemoStep, PTL DEF Spec

\* Inputs of VerifyPanel that nobody typed into hold the id and the blob of
\* one credential, whatever was cleared, typed or minted before.
THEOREM InputsAreAPair == Spec => []FilledAsAPair
  <1>1. DemoInv => FilledAsAPair
    BY DEF DemoInv
  <1> QED
    BY <1>1, DemoInvariance, PTL

\* NftCascadePanel shows one credential as it was before its revocation and as
\* it is after, with its NFT archived, whatever the other panels mint between
\* its awaits.
THEOREM CascadeIsShown == Spec => []CascadeIsShownAsItIs
  <1>1. DemoInv => CascadeIsShownAsItIs
    <2> SUFFICES ASSUME DemoInv, cascade.state # NoView
                 PROVE  CascadeIsShownAsItIs
      BY DEF CascadeIsShownAsItIs
    <2>1. PICK shown, c : shown = cascade.state /\ c = shown.credentialId
      OBVIOUS
    <2>2. IsShown(shown)
      BY <2>1 DEF DemoInv, CascadeInv
    <2>3. /\ shown.viewBefore.status = "Active"
          /\ nfts[shown.nftId].bound = shown.credentialId
      BY <2>1, <2>2 DEF IsShown, Bound, Viewed
    <2>4. Viewed(c, "Revoked") = [Viewed(c, "Active") EXCEPT !.status = "Revoked"]
      BY DEF Viewed
    <2>5. shown.viewAfter # NoView =>
            /\ shown.viewAfter = [shown.viewBefore EXCEPT !.status = "Revoked"]
            /\ nfts[shown.nftId].archived
      BY <2>1, <2>2, <2>4 DEF IsShown
    <2> QED
      BY <2>1, <2>3, <2>5 DEF CascadeIsShownAsItIs
  <1> QED
    BY <1>1, DemoInvariance, PTL

-----------------------------------------------------------------------------
(* What a new credential claims.                                           *)

\* A credential added is the only one added.
LEMMA OneIsNew ==
  ASSUME Types, NEW holder \in {"issue", "nft"}, NEW user \in AnyRef,
         NEW vend \in Vendor, createCredential(holder, user, vend),
         NEW c \in DOMAIN credentials' \ DOMAIN credentials
  PROVE  /\ credentials'[c].input.holder = holder
         /\ credentials'[c].input.userRef = user
         /\ credentials'[c].input.validator = vend
  <1>1. PICK last : last = Len(credentials) + 1
    OBVIOUS
  <1>2. /\ credentials' \in Seq(Stored)
        /\ Contract' = Contract \cup {last}
    BY <1>1, CredentialAdded
  <1>3. credentials'[last] =
          [input |-> [adminParty |-> last, holder |-> holder,
                      userRef |-> user, validator |-> vend],
           nftContractId |-> 0, revoked |-> FALSE]
    BY <1>1, CredentialAdded
  <1>4. DOMAIN credentials' = Contract'
    BY <1>2, LenProperties DEF Contract
  <1>5. DOMAIN credentials = Contract
    BY StoreTypes
  <1>6. c = last
    BY <1>2, <1>4, <1>5
  <1> QED
    BY <1>3, <1>6

LEMMA MintIsOfTheSession ==
  ASSUME DemoInv, Mint
  PROVE  NewIsOfTheSession
  <1>1. PICK holder, user, vend :
          holder = "issue" /\ user = issue.userRef /\ vend = issue.vendor
    OBVIOUS
  <1>2. /\ createCredential(holder, user, vend) /\ issue.at = "minting"
    BY <1>1 DEF Mint, validator
  <1>3. holder \in {"issue", "nft"} /\ user \in AnyRef /\ vend \in Vendor
    BY <1>1 DEF DemoInv, Types, Run, AnyRef
  <1>4. issue.approved = TRUE /\ Serves(issue)
    BY <1>2 DEF DemoInv, IssueInv
  <1>5. ASSUME NEW c \in DOMAIN credentials' \ DOMAIN credentials
        PROVE  OfTheSession(credentials'[c].input)
    <2>1. /\ credentials'[c].input.userRef = user
          /\ credentials'[c].input.validator = vend
      BY <1>2, <1>3, OneIsNew DEF DemoInv
    <2> QED
      BY <1>1, <1>4, <2>1 DEF OfTheSession, Serves
  <1> QED
    BY <1>5 DEF NewIsOfTheSession

LEMMA NftMintIsNotAnIssue ==
  ASSUME DemoInv, mintCredential
  PROVE  NewIsOfTheSession
  <1>1. PICK holder, user, vend :
          holder = "nft" /\ user = "nft" /\ vend = "mock"
    OBVIOUS
  <1>2. createCredential(holder, user, vend)
    BY <1>1 DEF mintCredential
  <1>3. holder \in {"issue", "nft"} /\ user \in AnyRef /\ vend \in Vendor
    BY <1>1 DEF AnyRef, Vendor
  <1>4. ASSUME NEW c \in DOMAIN credentials' \ DOMAIN credentials
        PROVE  OfTheSession(credentials'[c].input)
    <2>1. credentials'[c].input.holder = holder
      BY <1>2, <1>3, <1>4, OneIsNew DEF DemoInv
    <2> QED
      BY <1>1, <2>1 DEF OfTheSession
  <1> QED
    BY <1>4 DEF NewIsOfTheSession

\* No other step mints.
LEMMA NothingNew ==
  ASSUME DOMAIN credentials' = DOMAIN credentials
  PROVE  NewIsOfTheSession
  BY DEF NewIsOfTheSession

LEMMA StepIsOfTheSession ==
  ASSUME DemoInv, [Next]_vars
  PROVE  NewIsOfTheSession
  <1>1. CASE UNCHANGED credentials
    BY <1>1, NothingNew
  <1>2. CASE mintNft \/ revoke
    <2>1. DOMAIN credentials' = DOMAIN credentials
      BY <1>2 DEF mintNft, createKycNft, revoke, revokeCredential
    <2> QED
      BY <2>1, NothingNew
  <1>3. CASE Mint \/ mintCredential
    BY <1>3, MintIsOfTheSession, NftMintIsNotAnIssue
  <1>4. CASE UNCHANGED vars
    BY <1>1, <1>4 DEF vars, store
  <1>5. CASE User
    BY <1>1, <1>5
       DEF User, App, setUserRef, setField, ClickIssue, ClickVerify, ClickMint,
           ClickRevoke, VerifyUnchanged, CascadeUnchanged, store
  <1>6. CASE IssueRun
    BY <1>1, <1>3, <1>6
       DEF IssueRun, startSession, pollUntilTerminal, sleep, mockDecision,
           onMinted, IssueUnchanged, store
  <1>7. CASE VerifyRun
    BY <1>1, <1>7
       DEF VerifyRun, fetchDisclosureBundleByContractId, setView,
           VerifyUnchanged, store
  <1>8. CASE CascadeRun
    BY <1>1, <1>2, <1>3, <1>8
       DEF CascadeRun, viewBefore, viewAfter, store
  <1> QED
    BY <1>4, <1>5, <1>6, <1>7, <1>8 DEF Next

\* A credential of IssuePanel claims the vendor and the user its session was
\* started with, is minted after an approval only, and by a vendor the server
\* is configured for, whatever is picked and typed while the vendor decides.
THEOREM ClaimsFollowTheSession == Spec => ClaimsAreOfTheSession
  <1>1. DemoInv /\ [Next]_vars => [NewIsOfTheSession]_vars
    BY StepIsOfTheSession
  <1> QED
    BY <1>1, DemoInvariance, PTL DEF Spec, ClaimsAreOfTheSession
=============================================================================
