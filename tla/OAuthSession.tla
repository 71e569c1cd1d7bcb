---------------------------- MODULE OAuthSession ----------------------------
(***************************************************************************)
(* The OAuth client of packages/credential: authorize requests that write  *)
(* four keys of a storage with an await between any two, landings on the   *)
(* callback page that read and clear them the same way, and the exchange   *)
(* of the code.                                                            *)
(*                                                                         *)
(* A storage is the sessionStorage of a tab, the Map that stands in for it *)
(* on a page without one, or an SdkStorage of the firm's own.  The first   *)
(* is lost when its tab closes, the second when its page does, the third   *)
(* lasts and may be shared by tabs.  Once lost, a storage stands for the   *)
(* empty one of the tab or page that comes next.                           *)
(*                                                                         *)
(* The state, verifier and nonce a request generates are fresh random      *)
(* values; the model writes the request itself for each of them, and for   *)
(* the code the issuer grants it.  The issuer and the storage are          *)
(* external.  Any call of the storage may fail.                            *)
(***************************************************************************)
EXTENDS Naturals, Sequences

CONSTANTS
  Request,   \* calls of buildAuthorizeUrl with one client id
  Landing,   \* calls of handleCallback
  Page,      \* redirect URIs
  Store,     \* the storages
  Lasting,   \* those of the firm's own
  Placement, \* which storages the calls may find themselves with
  options,   \* the AuthorizeOptions of each request
  defaultRedirectUri,
  Foreign,   \* stands for the code and state of a request not made here
  Null       \* a key that is not set

ASSUME OptionsAssumption ==
  /\ options \in [Request -> [scope : SUBSET {"openid", "kyc"},
                              nonce : BOOLEAN, redirectUri : Page]]
  /\ defaultRedirectUri \in Page
  /\ Placement \subseteq [Request \cup Landing -> Store]
  /\ Foreign \notin Request
  /\ Null \notin Request \cup Page \cup {Foreign}

VARIABLES
  store,     \* call -> the storage of its tab, page or firm
  storage,   \* storage -> key -> value
  request,   \* request -> how far it is
  landing,   \* landing -> how far it is and what it holds
  redeemed,  \* issuer: the codes exchanged for tokens
  overlap,   \* history: storages a request wrote to while another request
             \* was half way through writing or a landing through reading
  lost       \* history: requests whose keys went with their tab or page

vars == <<store, storage, request, landing, redeemed, overlap, lost>>

Key == {"state", "verifier", "nonce", "redirect"}

sendsNonce(r) == options[r].nonce \/ "openid" \in options[r].scope

\* What request r writes under a key.
Stored(r, key) == IF key = "redirect" THEN options[r].redirectUri ELSE r

\* Mutant: the verifier is written before the state it belongs to.
WriteOrder_VerifierFirst(r) ==
  IF sendsNonce(r) THEN <<"verifier", "state", "nonce", "redirect">>
  ELSE <<"verifier", "state", "redirect">>

WriteOrder(r) ==
  IF sendsNonce(r) THEN <<"state", "verifier", "nonce", "redirect">>
  ELSE <<"state", "verifier", "redirect">>

ReadOrder == <<"state", "verifier", "redirect">>

\* Mutant: only the optional keys are removed.
ClearOrder_Partial == <<"nonce", "redirect">>

ClearOrder == <<"state", "verifier", "nonce", "redirect">>

NoHold == [key \in Key |-> Null]

Init ==
  /\ store \in Placement
  /\ storage = [s \in Store |-> NoHold]
  /\ request = [r \in Request |-> [at |-> "new", left |-> << >>]]
  /\ landing = [l \in Landing |->
                  [at |-> "new", code |-> Foreign, holds |-> NoHold,
                   left |-> << >>, error |-> "none"]]
  /\ redeemed = {}
  /\ overlap = {}
  /\ lost = {}

-----------------------------------------------------------------------------
(* An authorize request.                                                   *)

buildAuthorizeUrl(r) ==
  /\ request[r].at = "new"
  /\ request' = [request EXCEPT ![r] =
       [at |-> IF options[r].scope = {} THEN "failed" ELSE "writing",
        left |-> WriteOrder(r)]]
  /\ UNCHANGED <<store, storage, landing, redeemed, overlap, lost>>

HasWritten(r) == request[r].at # "new" /\ request[r].left # WriteOrder(r)

\* r has written some of its keys and is about to write the others.
HalfWritten(r) == HasWritten(r) /\ request[r].at = "writing"

HalfRead(l) == landing[l].at = "reading" /\ landing[l].left # ReadOrder

\* One setItem of persistAuthorizationRequest; after the last one the
\* caller has the URL and the user is on the way to the issuer.
persistAuthorizationRequest(r) ==
  LET key == Head(request[r].left)
      rest == Tail(request[r].left)
  IN /\ request[r].at = "writing"
     /\ storage' = [storage EXCEPT ![store[r]][key] = Stored(r, key)]
     /\ request' = [request EXCEPT ![r] =
          [at |-> IF rest = << >> THEN "asked" ELSE "writing", left |-> rest]]
     /\ overlap' =
          IF \/ \E other \in Request \ {r} :
                  store[other] = store[r] /\ HalfWritten(other)
             \/ \E l \in Landing : store[l] = store[r] /\ HalfRead(l)
          THEN overlap \cup {store[r]} ELSE overlap
     /\ UNCHANGED <<store, landing, redeemed, lost>>

\* setItem throws: the keys written before it stay.
PersistFails(r) ==
  /\ request[r].at = "writing"
  /\ request' = [request EXCEPT ![r].at = "failed"]
  /\ UNCHANGED <<store, storage, landing, redeemed, overlap, lost>>

\* The issuer's consent page: a code bound to the challenge and redirect URI
\* of the URL, or an error.
Consent(r) ==
  /\ request[r].at = "asked"
  /\ \E answer \in {"granted", "denied"} :
       request' = [request EXCEPT ![r].at = answer]
  /\ UNCHANGED <<store, storage, landing, redeemed, overlap, lost>>

-----------------------------------------------------------------------------
(* A landing on the callback page.                                         *)

Throw(l, error) ==
  landing' = [landing EXCEPT ![l].at = "threw", ![l].error = error,
                             ![l].left = << >>]

\* The query of the landing: a granted request comes back, perhaps more than
\* once (a reload, the back button), as does the landing of a request made
\* elsewhere.  The issuer echoes the state with the code: one field for both.
Arrive(l, code) ==
  landing' = [landing EXCEPT ![l].at = "reading", ![l].code = code,
                             ![l].left = ReadOrder]

handleCallback(l) ==
  /\ landing[l].at = "new"
  /\ \/ /\ \E r \in Request : request[r].at = "denied"
        /\ Throw(l, "access_denied")      \* storage is left as it is
     \/ Throw(l, "not_a_callback")        \* code or state is missing
     \/ \E r \in Request : request[r].at = "granted" /\ Arrive(l, r)
     \/ Arrive(l, Foreign)
  /\ UNCHANGED <<store, storage, request, redeemed, overlap, lost>>

\* One getItem of readAuthorizationRequest; after the third, nulls are fatal.
readAuthorizationRequest(l) ==
  LET key == Head(landing[l].left)
      rest == Tail(landing[l].left)
      holds == [landing[l].holds EXCEPT ![key] = storage[store[l]][key]]
  IN /\ landing[l].at = "reading"
     /\ IF rest = << >> /\ \E k \in Key \ {"nonce"} : holds[k] = Null
        THEN Throw(l, "missing_verifier")
        ELSE landing' = [landing EXCEPT
               ![l].holds = holds, ![l].left = rest,
               ![l].at = IF rest = << >> THEN "checking" ELSE "reading"]
     /\ UNCHANGED <<store, storage, request, redeemed, overlap, lost>>

ReadFails(l) ==
  /\ landing[l].at \in {"reading", "checking"}
  /\ Throw(l, "storage_unavailable")
  /\ UNCHANGED <<store, storage, request, redeemed, overlap, lost>>

Proceed(l) ==
  landing' = [landing EXCEPT ![l].at = "clearing", ![l].left = ClearOrder,
                             ![l].holds["nonce"] = storage[store[l]]["nonce"]]

\* Mutant: a landing with another state cancels the pending request.
checkState_Clears(l) ==
  /\ landing[l].at = "checking"
  /\ IF landing[l].holds["state"] = landing[l].code
     THEN Proceed(l) /\ UNCHANGED storage
     ELSE /\ Throw(l, "state_mismatch")
          /\ storage' = [storage EXCEPT ![store[l]] = NoHold]
  /\ UNCHANGED <<store, request, redeemed, overlap, lost>>

\* The nonce is read last, and then the state compared.
checkState(l) ==
  /\ landing[l].at = "checking"
  /\ IF landing[l].holds["state"] = landing[l].code
     THEN Proceed(l)
     ELSE Throw(l, "state_mismatch")
  /\ UNCHANGED <<store, storage, request, redeemed, overlap, lost>>

\* One removeItem; after the last one the caller has the CallbackResult.
clearAuthorizationRequest(l) ==
  LET rest == Tail(landing[l].left)
  IN /\ landing[l].at = "clearing"
     /\ storage' = [storage EXCEPT ![store[l]][Head(landing[l].left)] = Null]
     /\ landing' = [landing EXCEPT ![l].left = rest,
          ![l].at = IF rest = << >> THEN "accepted" ELSE "clearing"]
     /\ UNCHANGED <<store, request, redeemed, overlap, lost>>

\* removeItem throws, and what it throws is not wrapped.
ClearFails(l) ==
  /\ landing[l].at = "clearing"
  /\ Throw(l, "storage_error")
  /\ UNCHANGED <<store, storage, request, redeemed, overlap, lost>>

-----------------------------------------------------------------------------
(* The exchange, with the issuer's side of it.                             *)

\* The verifier hashes to the challenge of the code's URL, the redirect URI
\* is that URL's, and the code was not used before.
Redeemable(code, verifier, redirectUri) ==
  /\ code \in Request \ redeemed
  /\ verifier = code
  /\ redirectUri = options[code].redirectUri

\* exchangeCode, once or again after a network error.  The caller passes the
\* redirect URI of the CallbackResult on, or leaves it to the default.
exchangeCode(l) ==
  LET code == landing[l].code
  IN /\ landing[l].at \in {"accepted", "unanswered"}
     /\ \E redirectUri \in {landing[l].holds["redirect"], defaultRedirectUri},
           heard \in {"answer", "nothing"}, reached \in BOOLEAN :
          LET redeems == /\ reached
                         /\ Redeemable(code, landing[l].holds["verifier"],
                                       redirectUri)
          IN /\ heard = "answer" => reached
             /\ redeemed' = IF redeems THEN redeemed \cup {code} ELSE redeemed
             /\ landing' = [landing EXCEPT
                  ![l].at = IF heard = "nothing" THEN "unanswered"
                            ELSE IF redeems THEN "tokens" ELSE "refused",
                  ![l].error = IF heard = "nothing" THEN "network_error"
                               ELSE IF redeems THEN "none"
                               ELSE "invalid_grant"]
     /\ UNCHANGED <<store, storage, request, overlap, lost>>

\* The tab is closed, or the page that holds the Map is left or reloaded: what
\* the storage held is gone, and so are the calls that were under way.  (A page
\* that is left in a tab with a sessionStorage stops them only: PersistFails,
\* ReadFails, ClearFails.)
Unload(s) ==
  /\ s \notin Lasting
  /\ storage' = [storage EXCEPT ![s] = NoHold]
  /\ lost' = lost \cup {r \in Request : store[r] = s /\ HasWritten(r)}
  /\ request' = [r \in Request |->
       IF store[r] = s /\ request[r].at = "writing"
       THEN [request[r] EXCEPT !.at = "failed"] ELSE request[r]]
  /\ landing' = [l \in Landing |->
       IF store[l] = s /\ landing[l].at \in {"reading", "checking", "clearing"}
       THEN [landing[l] EXCEPT !.at = "threw", !.error = "unloaded",
                               !.left = << >>]
       ELSE landing[l]]
  /\ UNCHANGED <<store, redeemed, overlap>>

Next ==
  \/ \E s \in Store : Unload(s)
  \/ \E r \in Request :
       \/ buildAuthorizeUrl(r) \/ persistAuthorizationRequest(r)
       \/ PersistFails(r) \/ Consent(r)
  \/ \E l \in Landing :
       \/ handleCallback(l) \/ readAuthorizationRequest(l) \/ ReadFails(l)
       \/ checkState(l) \/ clearAuthorizationRequest(l) \/ ClearFails(l)
       \/ exchangeCode(l)

Spec == Init /\ [][Next]_vars

-----------------------------------------------------------------------------
(* Properties.                                                             *)

Accepted(l) == landing[l].at \in {"accepted", "unanswered", "tokens", "refused"}

\* As long as no request writes to a storage while another writes to it or a
\* landing reads it, the verifier and redirect URI that a callback returns from
\* there are those of the request the code belongs to.  Writes that failed half
\* way, requests that were abandoned and tabs that were closed are no exception:
\* the state is written first, so what a broken write leaves behind is refused
\* (storage.ts persistAuthorizationRequest).
SerialRequestsStayWhole ==
  \A l \in Landing :
    store[l] \notin overlap /\ Accepted(l) =>
      /\ landing[l].code \in Request
      /\ \A key \in {"state", "verifier", "redirect"} :
           landing[l].holds[key] = Stored(landing[l].code, key)

\* A request whose callback has been returned is not found by a landing that
\* reads a storage afterwards, whichever it reads: only landings under way at
\* the same time can both be accepted (client.ts handleCallback).
LaterLandingsFindNothing ==
  [][\A l, earlier \in Landing :
       /\ Accepted(earlier)
       /\ landing[l].holds["state"] # landing'[l].holds["state"]
       => landing'[l].holds["state"] # landing[earlier].code]_vars

\* A landing of a granted request is turned away only if it came to another
\* storage than its request, or the storage was lost in between, or another
\* request wrote to it, or another landing there went on to clear it: a denied
\* or stray landing does not cancel what is pending (handleCallback).
LostForAReason ==
  \A l \in Landing :
    LET code == landing[l].code
    IN /\ code \in Request
       /\ landing[l].error \in {"missing_verifier", "state_mismatch"}
       => \/ store[l] # store[code]
          \/ code \in lost
          \/ \E r \in Request \ {code} : store[r] = store[l] /\ HasWritten(r)
          \/ \E other \in Landing \ {l} :
               /\ store[other] = store[l] /\ landing[other].code = code
               /\ \/ landing[other].at = "clearing" \/ Accepted(other)
                  \/ landing[other].error = "storage_error"

\* An exchange is refused only if the code was redeemed before (another
\* landing of it, or an answer that was lost), or its request had a redirect
\* URI of its own and the caller left it to the default, or requests overlapped
\* in the storage it was read from (client.ts exchangeCode).
RefusedForAReason ==
  \A l \in Landing :
    landing[l].at = "refused" /\ store[l] \notin overlap =>
      \/ landing[l].code \in redeemed
      \/ options[landing[l].code].redirectUri # defaultRedirectUri
=============================================================================
