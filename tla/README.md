# A formal model of canton-vc

canton-vc is a TypeScript SDK and a DAML package for verifiable credentials on
the Canton network: an issuer and a holder jointly sign a `Credential` contract,
verifiers fetch it with an expected admin, the issuer revokes it, the holder
archives it, both rewrite it through a `CredentialFactory`, and a `KycNFT` may
accompany it. This directory holds TLA+ models of the parts of it whose
correctness depends on sequences, interleavings and failures, the
configurations TLC checks them with, and proofs for TLAPS.

    tlc -config MCClientWrites.cfg MCLedgerClient     # any run of the table below
    tlapm CredentialLedgerProofs.tla                   # or any module *Proofs

`PROJECT.json` lists the components, the runs, the source lines each definition
stands for (`map`), the mutant that each property catches, the findings, the
hazards and the theorems.

## 1. Inventory

| component | state it keeps | operations | talks to |
|---|---|---|---|
| DAML package (`src/daml/canton-vc-credential`) | contracts: `Credential`, `CredentialFactory`, `KycNFT` | create, `RevokeCredential`, `UpdateCredentials` (deprecated), `Credential_ArchiveAsHolder`, `Credential_PublicFetch`, `CredentialFactory_UpdateCredentials`, `BurnNft`, `Archive` | the participant interprets it |
| HTTP transport (`core/src/http.ts`) | per call: attempt, abort timer, backoff | `cantonFetch`, `cantonFetchOnce` | the participant's JSON API |
| ledger operations (`core/src/ledger.ts`, `commands.ts`, `query.ts`) | `disclosedTemplateIdCache`; what a suspended call knows | create, verify, revoke, update (two submissions), archive, NFT mint and burn; finds and disclosure bundles | `cantonFetch` |
| parties, clients, configuration (`core/src/party.ts`, `client.ts`, `config.ts`) | two singletons, the namespace cache | `getCantonConfig`, `getCantonClient` and their resets, `resolveNamespace`, `partyExists`, `allocateParty` | environment, `cantonFetch` |
| OAuth client (`packages/credential`) | four keys of a tab's, a page's or the firm's storage | `buildAuthorizeUrl`, `handleCallback`, `exchangeCode`, `verifyDisclosure` | browser storage, issuer service |
| KYC provider contract, three vendor adapters | none of their own; the vendor's sessions | `startSession`, `fetchDecision`, `verifyWebhook` | vendor REST API and webhooks |
| issuer demo | one run of `main()` | session, poll, mint | an adapter |
| verifier demo | three panels, an in-memory Canton | issue, verify, mint and revoke with an NFT; vendor-server | adapters |
| end-to-end scripts | one run: the ids it made | a vendor decision, then every ledger operation, with assertions | vendor, ledger |
| claim types, schemas, errors, explorer, proof hash, PKCE, pseudonym check, mock adapter | none | parsing, validation, formatting, hashing | used by the above |
| build, generators | none of interest | | |

What is hard in each of them, and what makes it correct:

* **DAML package.** Contracts are immutable: each choice that changes a
  credential archives it and creates a sibling from the archived payload.
  Correct means that no sequence of choices forks a credential, moves it to
  other parties, washes a revocation off, or ends or rewrites it without those
  whose consent it needs; that a factory stays within its scope and a cascade
  within its NFT.
* **HTTP transport.** The client may give up on a request the participant is
  still going to process. Correct means that calls end, that only what is safe
  to repeat is repeated, and that what is reported of a write is true.
* **Ledger operations.** Each is a chain of awaits over a ledger that others
  change meanwhile. Correct means that ids are not mixed up, that readers are
  not told better than the truth, that what a half-done update leaves behind is
  bounded, and that repeated NFT mints with the same command id are harmless.
* **Parties.** Check, then act: two callers with one hint. Caches keyed by a
  configuration while configurations are reset and loaded anew.
* **OAuth client.** Four keys written one `await` at a time; concurrent
  requests and landings over one storage, whose calls may fail and which may
  go with its tab or page.
* **Adapters.** Webhooks that are lost, repeated and reordered; decisions put
  together from several reads; missing features read as passed or not.
* **Demos and scripts.** A user who edits between the awaits of a handler; a
  run that dies between two transactions and is started again.

The hazards, each with its line in the source and the properties that cover it
or the reason why none does, are in `PROJECT.json`.

## 2. The modules

| module | models | kind |
|---|---|---|
| `CredentialLedger` | the DAML package | one action per choice, over an append-only ledger |
| `CredentialStandard` | what the package promises | abstract: a registry of credentials |
| `CredentialLedgerImplements` | the refinement mapping between the two | a lineage is an entry |
| `LedgerClient` | ledger.ts, commands.ts, query.ts | concurrent calls; extends `CredentialLedger` |
| `CantonFetch` | http.ts | one call, its network and its participant |
| `Submission` | what a caller of a write may rely on | abstract: at most one effect, a true answer |
| `Parties` | party.ts, client.ts, config.ts, part of ledger.ts | concurrent calls over several configurations |
| `OAuthSession` | client.ts and storage.ts of `packages/credential` | requests and landings, key by key |
| `KycSession` | the provider contract, its adapters and the issuer demo | vendor, webhooks, poll loop |
| `SumsubAdapter`, `PersonaAdapter`, `DiditAdapter` | the mappings of one adapter, and its vendor | operators, instantiated by `KycSession` |
| `EndToEnd` | the four live scripts | a program over `CredentialLedger` |
| `VerifierDemo` | the demo's panels, its in-memory Canton, its server | handlers and a user |
| `MC*` | | constants for TLC |
| `*Proofs` | | theorems, section 4 |

### CredentialLedger

A contract id is the position of the create event in `ledger`; `active` holds
the ids not archived. `origin` and `actAs` are history: the mint a credential
descends from, and who submitted the last transaction. Each action takes the
`actAs` parties and is one Daml transaction; Daml's authorization rule is its
guard (a create needs all signatories of the new contract, an exercise all
controllers of the choice, and the body of a choice has the authority of the
contract's signatories and the choice's controllers). `Commit` is the one
place where the variables change.

* `RevokeCredential` archives the credential, burns the NFT if one is given
  (`Cascades`: bound to this very contract id, its issuer among the authorizers
  of the body) and creates the sibling with the reason.
* `FactoryUpdateCredentials` is the consuming interface choice with the body of
  `updateCredentialsImpl`: every entry passes `Accepts` or nothing happens. An
  entry is fetched after the earlier ones were archived, which is why one bulk
  update cannot name a credential twice.
* Abstracted: claims are elements of a small set with one empty map; the two
  metadata keys the package itself writes are fields (a mint is taken to carry
  neither); `createdAt`, the observers and the display fields of the NFT, which
  no choice reads, are left out.
* Outside the repository, and so external in `map`: the ledger itself
  (atomicity, consumption, `Archive`).

`CredentialStandard` is the same thing as a verifier sees it: entries with
parties, claims, an expiry and a stamp, and five kinds of step, each with the
parties it requires. The mapping reads a lineage (a mint and all that descends
from it) as an entry: live if it has an active sibling, with the contents of
that sibling, or else of its last one.

### LedgerClient

`task[c]` is where call `c` is suspended and what it holds, `sub[c]` the command
it submitted last and what became of it, `resolved` the template-id cache of
each participant's config. A participant is the set of parties it hosts: it acts
for no other, and lists the contracts with a stakeholder among them. The
`build*Command` operators are those of commands.ts, reduced to what a
transaction reads.

The three things that may happen to a command (`CommandCommits`,
`CommandRejected`, or nothing yet) and the three things the caller may hear
(`TransactionArrives`, `RejectionArrives`, `OutcomeLost`) are independent
steps, so a command may commit after its caller was told that it timed out, or
between the legs of another call. `updateCredentials` is two submissions. A read
takes the ledger end in one step (`LedgerEnd`, which fixes the snapshot) and
answers from it in a later one. This is the contract that `Submission` states
for one write, with the participant's deduplication window open for the whole
run (the window is finite in `CantonFetch`).

`HashForm` are the participants whose config names the package by its hash,
which needs no resolving.

Not a restriction of the code but of the model: each call is made once (a retry
is another call), an operation's party lives on the participant it is sent to,
and inputs name contracts that exist. Contracts of older versions of the DAML
package, whose payloads query.ts does not recognise, are not modelled: every
listed contract is of the current one.

### CantonFetch

One call: `phase` is what the client awaits, `age` the abort timer, `pause` the
backoff, `wire[i]` what became of the request of attempt `i`. Time is discrete
and a due timer is handled before time goes on. The abort timer runs while the
response's headers are awaited and not while its body is read, as in
`cantonFetchOnce`, whose `finally` clears it. The participant may apply, refuse
or recognise a request at any time after it was sent, also after the client has
left. It answers 2xx only of a request it applied; 401, 403, 404, 409 and 422
only of one it did not; 5xx and any other status say nothing (a gateway may
have sent them). That reading of the status lines is an assumption about the
participant, written down as `Answers`.

### Parties

`configs` are the configurations loaded so far, numbered, each reduced to the
participant its URL leads to; `cached` are the two singletons, `namespaceCache`
the entries made for a configuration. The environment may change and either
singleton be reset at any time. `hosted` is the participants' party management:
a request is processed some time after it was sent, and its answer may be lost,
or be one the client cannot use although the party was allocated. An empty hint
is refused before anything is sent.
`mine` and `absent` are history.

### OAuthSession

`store[c]` is the storage a request or a landing finds itself with. By default
it is the `sessionStorage` of a tab, which a reload or the redirect to the
issuer leaves alone, another tab does not see, and closing the tab clears; on a
page without one it is a `Map`, which goes with the page; a firm may pass one of
its own, which lasts and which tabs may share (`Lasting`). `Placement` says
which of these arrangements are considered. `Unload` is the end of a tab or of a
page with a `Map`; the storage then stands for the empty one that comes next. A
browser may also copy a sessionStorage into a tab opened from another one; that
is not modelled.

`request[r]` is how many keys `buildAuthorizeUrl` has written, `landing[l]` what
`handleCallback` has read or removed. Every storage call is a step of its own
and may fail. The random values a request draws are written as the request
itself, and so is the code the issuer grants it. `overlap` and `lost` are
history: the storages a request wrote to while another call of theirs was under
way, and the requests whose keys went with their tab or page. What the token
endpoint checks of a code is its verifier, its redirect URI and that it was not
redeemed; a code's expiry and the client's authentication are left out.

With the in-memory `Map` no redirect flow can succeed, since the landing is
always another page; storage.ts:26-28 says as much, and `LostForAReason` counts
it among the reasons.

### KycSession and the adapters

`record` is the vendor's record of the session, of a shape that is the adapter's
(`Created`, `Moves` and `Webhooks` of each adapter module, external), `mail` the
webhooks it has posted. `call["webhook"]` is a `verifyWebhook` under way,
`call["poll"]` a `fetchDecision`. A webhook with a verdict is followed by a
fetch, and its own body is used if the fetch fails. The two requests of a Sumsub
fetch are answered separately, so the record can move between them. `past`,
`seen` and `steady` are history: what the vendor found at any time, what it
found during a call, and whether the record moved under it.

A `verifyWebhook` throws on a bad signature and answers null to a body that is
signed but not recognised (one that fails the schema or names no session). Of a
declined session its status is kept, not the labels of the reason. The level of
an approval is compared with what the vendor checked, except for the Sumsub
fetch that straddles a change and for Didit's basic level, which the adapter
reads off an approval without features; what main() mints for a decision without
a level (basic) is a default of the demo that no property judges.

### EndToEnd

`Program` lists the ledger phases of a script as steps; `run` is where it is and
what it holds. It may stop at any step, its last submission committed or not,
and another run be started over the same ledger, with parties of its own, since
the hints the scripts allocate parties by carry the time. `clock` counts hours
between steps, for the validity window. Phase 7b takes any error for the rejection
it expects, a lost answer too (`wrongAdmin`). `Timed` says at which steps the
await has a timeout: the calls of an adapter or of the client, and `sleep`. The
keypress that `waitForEnter` reads, and what the vendor scripts `fetch` by
themselves (the approval at the sandbox, the participant's version, its parties)
may never come back.

### VerifierDemo

The three panels' handlers, each with what its closure holds (`issue`, `verify`,
`cascade`), the fields the user edits, and the in-memory Canton (`credentials`,
`nfts`). Between two awaits of a handler the user may do anything the page
allows.

## 3. The runs

| run | config | shows | distinct states |
|---|---|---|---|
| credential_ledger | `MCCredentialLedger.cfg` | types; one active sibling per mint; siblings keep their parties; revocation is permanent; only the holder makes a credential disappear; rewriting is joint or stamped; factories keep to their scope; cascades to their NFT; the package implements `CredentialStandard` | 133 693 |
| canton_fetch | `MCCantonFetch.cfg` | types and bounds of the loop; a call gives up for a reason; its waits are bounded; every call returns; a write implements `Submission` | 306 252 |
| client_writes | `MCClientWrites.cfg` | results are the caller's; factories are accounted for; one NFT per deterministic command id; NFT lookups are current | 972 000 |
| client_reads | `MCClientReads.cfg` | types; readers hear of revocations | 609 000 |
| oauth_session | `MCOAuthSession.cfg` | requests that do not overlap stay whole; a landing finds nothing that was taken; nobody is turned away but in another tab, after losing the storage or because of a rival, nor refused without a reason | 2 243 450 |
| kyc_session | `MCKycSession.cfg` | types; verdicts are current; levels rest on what was checked; the issuer ends | 645 757 |
| end_to_end | `MCEndToEnd.cfg` | assertions fail only for expiry; no dangling NFT; what a run leaves behind; runs end unless they stay in an untimed await | 134 945 |
| verifier_demo | `MCVerifierDemo.cfg` | claims are the session's; fields are filled as a pair; a cascade is shown as it is; buttons come back | 103 208 |
| parties | `MCParties.cfg` | failed loads leave nothing; namespaces are their own; a refusal means not mine; lookups are true | 668 127 |

Three more runs each find a state in which the code does not do what a comment
of the repository says (`findings` in PROJECT.json has the quotations):

| run | the comment | what the code does |
|---|---|---|
| omitted_expiry | an omitted `newExpiresAt` keeps the expiry | it clears it |
| cross_participant | a blob lets a verifier elsewhere verify | the lookup before it fails there |
| admin_derived | the verify panel derives the admin from the lookup | it reads a key that is not there, and expects the empty admin |

Further comments are contradicted without a run of their own, because a
property would only restate a line of code:

* The template is said to ensure a non-empty revoke reason (types.ts:255-256);
  the choice accepts any (Credential.daml:139).
* A call is said to be bounded by its timeout (http.ts:14-16); once the headers
  have arrived no timer runs (http.ts:323-327). Nor is there an outer timeout
  that caps the retries (`TotalWaitIsBounded` states the bound there is).
* An update is said to be one atomic transaction (types.ts:278-281, 293-295);
  it is two (ledger.ts:541), and `FactoriesAreAccountedFor` says what may be
  left between them.
* The factory of an update is said to be the caller's to archive afterwards or to
  keep for the next refresh (commands.ts:672-674), and to be archived after the
  update (Credential.daml:192-196, Factory.daml:24-27). The choice that updates is
  a consuming one (Factory.daml:80), so a factory goes with its first use: there
  is nothing to archive and nothing to keep. `FactoriesAreAccountedFor` and
  `LeavesBehind` say where a factory does stay.
* `verifyWebhook` is said to return null on an invalid signature
  (kyc-provider/src/index.ts:199-201); all three adapters throw, and return null
  only for a body that is signed and not recognised. `TypeOK` of `KycSession` says
  which outcome is whose.
* A revoke is said to return the sibling's contract id (types.ts:327-328); it
  returns the archived one's.
* The enhanced level is said to include identity (kyc-provider/src/index.ts:28-30);
  a workflow for an address alone yields it without.
* Each authorize request is said to have its own verifier
  (packages/credential/src/client.ts:168-169); requests that overlap mix theirs
  up, as the four keys are one set for a client id.
* `CANTON_ALLOCATE_MISSING_PARTIES` is parsed and never used;
  `CANTON_NETWORK=testnet`, as the scripts set it, is refused by
  `CantonConfigSchema`; the quickstart (README.md:202-203) allocates
  `user_${userRef}`, which is refused when the same user comes back.

### Bounds

Every bound is a CONSTANT of its module, with its value in the .cfg.

* `MCCredentialLedger`: two parties, who are issuer and holder of two scopes
  that differ in the admin only (issuer and holder of an archived credential
  have to sign anyway, so the admin is the field only the scope check
  protects); four contracts, which is a mint, a factory and a bulk update of
  one entry, or a revoke after an update; two entries per bulk update, the
  least that can repeat one. A factory that rewrites two credentials at once
  needs five contracts and is left to the proofs, which hold for all bounds.
* `MCClientWrites`: four calls, a mint, two writes that race on it and a call
  that mints again, archives or looks for an NFT; five contracts.
  `MCClientReads`: a mint, a revoke, an update (or a second mint, or an archive)
  and a reader; four contracts are the mint, its revoked sibling, a factory and
  the rewritten sibling.
* `MCCantonFetch`: two retries, the first backoff at its ceiling and the second
  above it but for the ceiling, with the submit timeout above the request
  timeout; `MaxWait` caps the wait for a body.
* `MCOAuthSession`: two requests, which differ in redirect URI and nonce, and two
  landings, all with one storage of the firm's own or spread over two tabs in
  every way (up to the names of the tabs). Two requests are what a race needs,
  and either may be abandoned; both landings may be of one request.
* `MCKycSession`: three changes of the record, one webhook (which may be
  delivered at any later time, again and again, its signature fresh or not) and
  one more poll, for each vendor and workflow.
* `MCEndToEnd`: two runs, any scripts; 18 contracts are more than they create;
  two hours, and a validity that may run out at any of them.
* `MCVerifierDemo`: one vendor configured, two minting clicks, a user
  reference and the empty one, one more poll.
* `MCParties`: two participants, two configurations, two calls at a time.
* `HashForm` is empty in the configurations of `LedgerClient`: with a package
  named by its hash there is no lookup to race with.

`VIEW` leaves `actAs` out of a state: no guard reads it, and TLC evaluates action
properties on every step, also to states it has seen. `SYMMETRY` permutes calls
or landings that may be the same operations (safety only). `CHECK_DEADLOCK
FALSE` stands where the model really ends: a ledger that is full up to its
bound, calls that have all been made, a run that is over.

### Fairness

* `CantonFetch` (`LiveSpec`): time passes (`Tick`); the client's own steps that
  are due are taken, timers included, since the event loop runs; a body that
  has begun is finished or cut off. Nothing says that the participant ever
  begins to answer: that a call returns all the same is what the abort timer is
  for. That a begun body ends is an assumption the code does not enforce.
* `KycSession` (`LiveSpec`): the issuer's steps are taken, and a poll that was
  sent is answered or fails (its adapter has a timeout on every request).
  Nothing is assumed of the vendor's user: the cap ends the loop.
* `EndToEnd` (`E2ELive`): a script takes its next step or stops where its await has
  a timeout (`Timed`). Elsewhere it may stay for good: nothing ends the wait for a
  keypress (live-didit-canton-e2e-v2.ts:168-176) or a bare `fetch`. `RunEnds` says
  so: a run ends, or is from some point on in such an await. The vendor need not
  decide.
* `VerifierDemo` (`Spec`): each handler that was started goes on; the user need
  not do anything. The panel's own request to the demo's server has no timer
  (proxy-provider.ts): that it ends rests on that server, which runs beside the
  page, whose adapters have timers and which answers 400 to any error.

## 4. Proofs

All theorems are proved for every value of the constants that satisfies the
modules' ASSUMEs, which TLC evaluates on the runs.

**`CredentialLedgerProofs`**: `TypeCorrect`, `NoFork`, `PartiesNeverChange`,
`RevocationNeverWashesOff`: `TypeOK`, `OneLivePerLineage`,
`LineageKeepsItsParties` and `RevocationIsPermanent` are invariants. Every step
is a *transaction*: it archives some active contracts and appends some, each
appended credential being either a mint (its own origin) or the sibling of one
archived credential, with its parties, its origin and, if it had one, its
revocation; and no two siblings come from the same one (`StepIsTransaction`, one
case per action). A transaction keeps the inductive invariant
(`TransactionKeepsIInv`), which adds to the four properties what they lean on:
the active credential of a lineage is its latest one. Without it
`RevocationIsPermanent` is not inductive, because an active credential that is
not the latest of its lineage could be rewritten into a sibling that follows a
revoked one.

In the same module, `FactoryKeepsToItsScope`, `CascadeKeepsToItsOwn`,
`OnlyTheHolderEnds`, `RewritesAreSignedOrStamped`: the four action properties.
Given the invariant, each action either archives nothing of the kind the property
is about, or its guard names who authorised it; the bulk update, of any length,
archives exactly the credentials its entries name, each in the factory's scope.

Last, `LedgerImplementsStandard`: `CredentialLedger` implements
`CredentialStandard`. The mapping reads a lineage
through its latest sibling, so the invariant (`RInv`) adds that every credential
descends from a mint and that every mint has a latest sibling. The proof first
describes what a commit does to the mapped state in general (it opens lineages,
continues some and ends others), and then goes through the choices to say which
step of the standard each one is, or that it is a stutter.

**`LedgerClientProofs`**: `ClientsRefineLedger` (`ClientSpec => Spec`), and with
it `ClientsNeverFork`, `ClientsNeverWashOff`, `ClientsImplementStandard`: all of
the above holds under the SDK's concurrent calls. Only `CommandCommits` touches
the ledger, and what it does is the transaction of the command that was
submitted earlier, maybe long ago. That transaction is a step of
`CredentialLedger` if the command's parties, scope, claims, expiry and NFT
binding exist (`CommandIsTransaction`; the contract ids a choice is exercised on
exist because the transaction fetches them). The invariant, `ClientInv`, says
that every submitted command was built from a valid input, and every suspended
call still holds one. Inputs are valid with respect to the contracts that exist,
so its inductive step needs that contracts, once created, stay on the ledger
(`InputsGrow`). Beside the assumptions of `CredentialLedger`, two of
`LedgerClient` are used: an absent expiry is an expiry, and an update of one
entry is within the bound on bulk updates.

It also proves `ResultsAreTheCallers`, `AnswersShowRevocations`,
`NftLookupsTellTheTruth`, `SuccessLeavesNoFactory`, `RepeatsMintOnce`,
`ClientTypes`: the invariants of `LedgerClient`, for any number of calls. The
inductive invariant (`ResultInv`) follows each call: `Stage`, which command it
has submitted and what it may have returned; `Effect`, what that command did
when it committed, which a call that was given up may never learn; `Known`, what
holds of the contracts it was listed and of the revocations it came after. Across
calls, no two created the same contract (`Apart`), one deterministic mint commits
(`Once`), and every active factory has a call that still needs it (`Needed`).
What is known of a contract stays true while other calls go on, because the
ledger only grows (`Grows`). That a listed or verified credential shows every
revocation of its lineage (`ActiveShows`) is where the ledger's own invariant
comes in: an active credential is the latest of its lineage, and revocation does
not wash off.

**`CantonFetchProofs`**: `FetchTypeCorrect`, `CallsGiveUpForAReason`,
`WaitsAreBounded`, and `WritesAreSubmissions`, that a write implements
`Submission`. The inductive invariant (`FetchInv`) counts, phase by phase, the
attempts that were sent and that failed, says that what was swallowed on the way
was transient, and how much of the waiting the attempts so far account for. That
the exponential backoff is a number at all is `PowerOfTwo` (2^n is the number of
subsets of 1..n; the provers know no induction for it). For the refinement,
`SubmitInv` adds that what the client was told is what became of its one
request; steps of the participant after the client has left are the reason why
it speaks of requests still under way.

**`PartiesProofs`**: `FailedLoadsAreClean`, `NamespacesStayApart`,
`RefusalsAreDefinite`, `LookupsTellTheTruth`: the four invariants of `Parties`.
`PartiesInv` says what each call may have been told, by the operation it is, and
that a namespace in a cache is that of the configuration it is cached for. What
`partyExists` answered stays true because a participant never loses a party.
`NamesAssumption` says that no participant goes by one of the words the model
uses for replies; a namespace is a hash.

**`OAuthSessionProofs`**: `SerialCallbacksAreWhole`, `TakenRequestsStayTaken`,
`LostLandingsHaveReasons`, `RefusalsHaveReasons`: the four invariants of
`OAuthSession`. Requests write, and landings read and clear, one key at a time;
`SessionInv` says at each point what is under the keys already done. Unless
requests overlap, they are the keys of one request (`Whole`); a landing that has
cleared the state leaves none (`Gone`); a refusal of the token endpoint has its
reason (`Due`); and unless the storage was lost or somebody else wrote to it or
cleared it, a request's keys are all there (`Kept`).

**`KycSessionProofs`**: `SessionTypes`, `VerdictsAreTheVendors`,
`LevelsRestOnChecks`: the three invariants of `KycSession`, for the three
adapters. The first half of the module is about the mappings alone: what each
adapter makes of a record or of a webhook body is compared with what its vendor
found (`SumsubDecides`, `SumsubTells`, and the same for the others). The
inductive invariant (`SessionInv`) then says which records an answer can have
come from: a webhook tells what the vendor once found (`MailInv`), a fetch under
way has answers of records the vendor had since it was sent, and a call that
fell back on the webhook's body rests on what the webhook told (`CallsInv`), which
is a decision, so that what a webhook's call throws is never a failed fetch. A
Sumsub fetch whose two answers straddle a change is bound to the verdict of the
one and not to a level, which is why `LevelsAreBacked` excepts it (`steady`). The
proof found one flaw in the model: the arms of the `CASE` that chose a level
overlapped, and a `CASE` with two true arms means either of them, which TLC
does not show since it takes the first. It is now the chain of conditions that the
adapters have.

**`VerifierDemoProofs`**: `InputsAreAPair`, `CascadeIsShown` and the action
property `ClaimsFollowTheSession`. `DemoInv` has a part for each handler: what its
closure holds at each of its awaits, and which contracts of the in-memory Canton
that refers to (`Bound`: credential and NFT know of each other), whatever the user
and the other handlers did to page and store meanwhile. Credentials are only
appended and only turn from active to revoked, so what a handler read stays true
or changes in that one way.

**`EndToEndProofs`**: `ScriptsImplementLedger` (`E2ESpec => Spec`),
`OnlyTheWindowFails`, `NoNftDangles`, `RunsLeaveBehind`: the scripts are clients
of the ledger, and the three invariants of `EndToEnd` hold for any number of runs
and polls and any bound on the ledger. That an assertion does not fail needs to
know what is on the ledger at every step of the program, so the inductive
invariant (`E2EInv`) says what the run has (`Holds`) and that its issuer has nothing
else (`OwnIsAccounted`); of earlier runs it says only that an NFT of theirs is
bound to an active credential and a factory is one they stopped with. Every
ledger step is reduced to what it archives and creates (`Writes`); one that is
answered takes the run to its next step (`GoesOnStep`), one whose answer is lost,
committed or not, stops it (`StopsStep`), and neither touches another issuer's
contracts (`Harmless`). A run that starts finds nothing of its own, because its
parties are new: `FreshPartiesAssumption`. Without it a later script would find
the earlier one's credentials under its filter, and its assertions could
fail. The scripts put `Date.now()` into the hints of the parties they allocate
(live-persona-canton-e2e-v2.ts:320-322, live-firm-test.ts:76-77), so the
assumption is theirs. The other assumptions used are that the clock's hours are
expiries and that a bulk update of one entry is within its bound.

**Only model-checked**: the liveness properties, `CallReturns`, `IssuerEnds`,
`RunEnds` and `ButtonsComeBack`. They need fairness, which is out of the
prover's reach. Every invariant and every action property of the passing runs
is stated by a theorem.

## 5. Plan

All of the plan has been carried out but for what is listed here.

* Larger instances of `KycSession` (two webhooks at a time) and `EndToEnd` (two
  scripts at once; now they run one after the other) take longer than the runs
  may.

### Not modelled

* Proof hash: a pure serialisation before SHA-256, without state; its canonical
  form is character by character, which the models abstract from. PKCE and the
  pseudonym check are functions over cryptographic primitives.
* Schemas, errors, explorer links: what the models need of a response is whether
  it parses (`UnusableBodyArrives`), of an error its code.
* `createClaimSchema` and `readClaim`: lookups in a map.
  `isWithinValidityWindow` is in `EndToEnd`.
* The mock adapter, a stub for tests; the demo's simulated vendor is modelled.
* `getUserinfo` keeps no state. The syntax of party ids is cut down to labels
  that are one or are not.
* Generators, build configuration, and the scripts that print what one adapter
  call returns.
* Vendors, participants, browsers' storage and the OAuth issuer are external:
  they are modelled by what the code expects of them, and do anything within
  that.
