------------------------- MODULE OAuthSessionProofs -------------------------
(***************************************************************************)
(* Proofs about OAuthSession, for any requests, landings, pages, options   *)
(* and storages.                                                           *)
(*                                                                         *)
(* The inductive invariant has five parts: what is left to do of a request *)
(* or a landing, that codes are of granted requests, and that a state is   *)
(* found only in the storage of its request (Shape); as long as no         *)
(* requests overlapped there, whose values storages and landings hold      *)
(* (Whole); that a state that was taken does not come back (Gone); that a  *)
(* refusal has its reason (Due); and that what a request wrote is there    *)
(* unless it was lost or a rival took or overwrote it (Kept).              *)
(***************************************************************************)
EXTENDS OAuthSession, TLAPS

-----------------------------------------------------------------------------
(* The orders in which keys are written, read and removed.                 *)

\* What may be left of any of them.
Left ==
  {<<"state", "verifier", "nonce", "redirect">>,
   <<"verifier", "nonce", "redirect">>, <<"nonce", "redirect">>,
   <<"state", "verifier", "redirect">>, <<"verifier", "redirect">>,
   <<"redirect">>, << >>}

Pending(left) == {left[i] : i \in DOMAIN left}

\* The keys a callback cannot do without.
Main == {"state", "verifier", "redirect"}

\* Each order ends with the redirect URI, and the state comes first.
LEMMA Orders ==
  /\ \A left \in Left :
       /\ Pending(left) \subseteq Key
       /\ left = << >> <=> "redirect" \notin Pending(left)
       /\ left = << >> => Pending(left) = {}
       /\ left # << >> =>
            /\ Head(left) \in Pending(left)
            /\ Tail(left) \in Left
            /\ Pending(Tail(left)) = Pending(left) \ {Head(left)}
            /\ "state" \in Pending(left) => Head(left) = "state"
            /\ "verifier" \in Pending(left) /\ "state" \notin Pending(left)
                 => Head(left) = "verifier"
  /\ \A r : WriteOrder(r) \in Left /\ Main \subseteq Pending(WriteOrder(r))
  /\ ReadOrder \in Left /\ Pending(ReadOrder) = Main
  /\ ClearOrder \in Left /\ Pending(ClearOrder) = Key
  <1> DEFINE Facts(left) ==
        /\ Pending(left) \subseteq Key
        /\ left = << >> <=> "redirect" \notin Pending(left)
        /\ left = << >> => Pending(left) = {}
        /\ left # << >> =>
             /\ Head(left) \in Pending(left)
             /\ Tail(left) \in Left
             /\ Pending(Tail(left)) = Pending(left) \ {Head(left)}
             /\ "state" \in Pending(left) => Head(left) = "state"
             /\ "verifier" \in Pending(left) /\ "state" \notin Pending(left)
                  => Head(left) = "verifier"
  <1>1. /\ Pending(<<"state", "verifier", "nonce", "redirect">>) = Key
        /\ Pending(<<"verifier", "nonce", "redirect">>)
             = {"verifier", "nonce", "redirect"}
        /\ Pending(<<"nonce", "redirect">>) = {"nonce", "redirect"}
        /\ Pending(<<"state", "verifier", "redirect">>) = Main
        /\ Pending(<<"verifier", "redirect">>) = {"verifier", "redirect"}
        /\ Pending(<<"redirect">>) = {"redirect"}
        /\ Pending(<< >>) = {}
    BY DEF Pending, Key, Main
  <1>2. /\ Tail(<<"state", "verifier", "nonce", "redirect">>)
             = <<"verifier", "nonce", "redirect">>
        /\ Tail(<<"verifier", "nonce", "redirect">>) = <<"nonce", "redirect">>
        /\ Tail(<<"nonce", "redirect">>) = <<"redirect">>
        /\ Tail(<<"state", "verifier", "redirect">>)
             = <<"verifier", "redirect">>
        /\ Tail(<<"verifier", "redirect">>) = <<"redirect">>
        /\ Tail(<<"redirect">>) = << >>
    OBVIOUS
  <1>3. ASSUME NEW left \in Left
        PROVE  Facts(left)
    <2>1. Facts(<<"state", "verifier", "nonce", "redirect">>)
      BY <1>1, <1>2 DEF Left, Key
    <2>2. Facts(<<"verifier", "nonce", "redirect">>)
      BY <1>1, <1>2 DEF Left, Key
    <2>3. Facts(<<"nonce", "redirect">>)
      BY <1>1, <1>2 DEF Left, Key
    <2>4. Facts(<<"state", "verifier", "redirect">>)
      BY <1>1, <1>2 DEF Left, Key, Main
    <2>5. Facts(<<"verifier", "redirect">>)
      BY <1>1, <1>2 DEF Left, Key
    <2>6. Facts(<<"redirect">>)
      BY <1>1, <1>2 DEF Left, Key
    <2>7. Facts(<< >>)
      BY <1>1 DEF Left, Key
    <2> HIDE DEF Facts
    <2> QED
      BY <2>1, <2>2, <2>3, <2>4, <2>5, <2>6, <2>7 DEF Left
  <1>4. ASSUME NEW r
        PROVE  WriteOrder(r) \in Left /\ Main \subseteq Pending(WriteOrder(r))
    <2>1. WriteOrder(r) \in {<<"state", "verifier", "nonce", "redirect">>,
                             <<"state", "verifier", "redirect">>}
      BY DEF WriteOrder
    <2> QED
      BY <1>1, <2>1 DEF Left, Main, Key
  <1> QED
    BY <1>1, <1>3, <1>4 DEF ReadOrder, ClearOrder, Left

-----------------------------------------------------------------------------
(* The inductive invariant.                                                *)

Value == Request \cup Page \cup {Null}

RequestState ==
  [at : {"new", "writing", "failed", "asked", "granted", "denied"},
   left : Left]

LandingState ==
  [at : {"new", "threw", "reading", "checking", "clearing", "accepted",
         "unanswered", "tokens", "refused"},
   code : Request \cup {Foreign}, holds : [Key -> Value], left : Left,
   error : {"none", "access_denied", "not_a_callback", "missing_verifier",
            "storage_unavailable", "state_mismatch", "storage_error",
            "unloaded", "network_error", "invalid_grant"}]

\* A request in state q has written all its keys.
IsFinished(q) == q.at \in {"asked", "granted", "denied"}

\* A landing in state k is one that had the storage cleared, or tried.
IsAccepted(k) == k.at \in {"accepted", "unanswered", "tokens", "refused"}
IsTaker(k) == k.at = "clearing" \/ IsAccepted(k) \/ k.error = "storage_error"

RequestShape(r, q) ==
  /\ q.at = "writing" => q.left # << >>
  /\ q.at \in {"writing", "failed"} =>
       q.left = WriteOrder(r) \/ "state" \notin Pending(q.left)
  /\ IsFinished(q) => q.left = << >>

LandingShape(l, k) ==
  /\ k.holds["state"] \in Request \cup {Null}
  /\ k.holds["state"] \in Request => store[k.holds["state"]] = store[l]
  /\ k.code \in Request => request[k.code].at = "granted"
  /\ k.at = "new" => k.error = "none"
  /\ k.at = "reading" =>
       /\ k.left # << >> /\ Pending(k.left) \subseteq Main
       /\ k.left = ReadOrder \/ "state" \notin Pending(k.left)
  /\ k.at = "checking" => k.left = << >> /\ \A key \in Main : k.holds[key] # Null
  /\ k.at = "clearing" =>
       k.left # << >> /\ (k.left = ClearOrder \/ "state" \notin Pending(k.left))
  /\ IsTaker(k) => k.code = k.holds["state"] /\ k.code \in Request
  /\ k.error \in {"missing_verifier", "state_mismatch", "storage_error"} =>
       k.at = "threw"

Shape ==
  /\ store \in [Request \cup Landing -> Store]
  /\ overlap \subseteq Store /\ lost \subseteq Request
  /\ storage \in [Store -> [Key -> Value]]
  /\ \A s \in Store :
       /\ storage[s]["state"] \in Request \cup {Null}
       /\ storage[s]["state"] \in Request => store[storage[s]["state"]] = s
  /\ request \in [Request -> RequestState]
  /\ landing \in [Landing -> LandingState]
  /\ \A r \in Request : RequestShape(r, request[r])
  /\ \A l \in Landing : LandingShape(l, landing[l])

\* What is under a key in the storage of request r is its own, if anything.
Of(r, key) == storage[store[r]][key] \in {Null, Stored(r, key)}

ReadsWhole(k) ==
  /\ k.at = "reading" /\ k.left # ReadOrder
  /\ k.code \in Request /\ k.holds["state"] = k.code
  => /\ \A key \in Main : Of(k.code, key)
     /\ \A key \in Main \ Pending(k.left) :
          k.holds[key] \in {Null, Stored(k.code, key)}

HoldsWhole(k) ==
  /\ k.at = "checking" \/ IsTaker(k)
  /\ k.code \in Request /\ k.holds["state"] = k.code
  => \A key \in Main : k.holds[key] = Stored(k.code, key)

WrittenWhole(r) ==
  /\ IsFinished(request[r]) /\ storage[store[r]]["state"] = r =>
       \A key \in Main : Of(r, key)
  /\ HalfWritten(r) => \A key \in Main \ Pending(request[r].left) : Of(r, key)

Whole ==
  /\ \A r \in Request : store[r] \notin overlap => WrittenWhole(r)
  /\ \A l \in Landing :
       store[l] \notin overlap => ReadsWhole(landing[l]) /\ HoldsWhole(landing[l])

IsGone(k) ==
  \/ k.at = "clearing" /\ k.left # ClearOrder
  \/ IsAccepted(k)
  => storage[store[k.code]]["state"] # k.code

Gone == \A l \in Landing : IsGone(landing[l])

RefusalDue(k) ==
  k.at = "refused" /\ store[k.code] \notin overlap =>
    \/ k.code \in redeemed
    \/ options[k.code].redirectUri # defaultRedirectUri

Due == \A l \in Landing : RefusalDue(landing[l])

\* Others that may overwrite or remove what request r stored.
OthersWrote(r) ==
  \E other \in Request \ {r} : store[other] = store[r] /\ HasWritten(other)

Rival(l, r) ==
  \/ store[l] # store[r]
  \/ r \in lost
  \/ OthersWrote(r)
  \/ \E other \in Landing \ {l} :
       landing[other].code = r /\ IsTaker(landing[other])

Contested(r) ==
  \/ r \in lost
  \/ OthersWrote(r)
  \/ \E l \in Landing : landing[l].code = r /\ IsTaker(landing[l])

ReadsKept(l, k) ==
  k.code \in Request =>
    /\ k.at \in {"reading", "checking"} =>
         \/ Rival(l, k.code)
         \/ \A key \in Main \ Pending(k.left) :
              k.holds[key] = Stored(k.code, key)
    /\ k.error \in {"missing_verifier", "state_mismatch"} => Rival(l, k.code)

StorageKept(r) ==
  HalfWritten(r) \/ IsFinished(request[r]) =>
    \/ Contested(r)
    \/ \A key \in Main \ Pending(request[r].left) :
         storage[store[r]][key] = Stored(r, key)

Kept ==
  /\ \A r \in Request : StorageKept(r)
  /\ \A l \in Landing : ReadsKept(l, landing[l])

SessionInv == Shape /\ Whole /\ Gone /\ Due /\ Kept

-----------------------------------------------------------------------------
(* What a request has written, by what is left.                            *)

LEMMA Written ==
  ASSUME Shape, NEW r \in Request
  PROVE  /\ HasWritten(r) <=>
              /\ request[r].at # "new"
              /\ request[r].left # WriteOrder(r)
         /\ HalfWritten(r) <=> HasWritten(r) /\ request[r].at = "writing"
         /\ IsFinished(request[r]) => HasWritten(r)
         /\ HasWritten(r) /\ request[r].at \in {"writing", "failed"} =>
              "state" \notin Pending(request[r].left)
  BY Orders DEF Shape, HasWritten, HalfWritten, RequestShape, IsFinished, Main

\* A step of one landing that leaves the storage alone.
LEMMA LandingStep ==
  ASSUME SessionInv, NEW l \in Landing, NEW k \in LandingState,
         landing' = [landing EXCEPT ![l] = k],
         UNCHANGED <<store, storage, request, overlap, lost>>,
         redeemed \subseteq redeemed',
         LandingShape(l, k),
         store[l] \notin overlap => ReadsWhole(k) /\ HoldsWhole(k),
         IsGone(k),
         RefusalDue(k)',
         IsTaker(landing[l]) => IsTaker(k) /\ k.code = landing[l].code,
         ReadsKept(l, k)
  PROVE  SessionInv'
  <1>1. /\ landing' \in [Landing -> LandingState]
        /\ \A m \in Landing : landing'[m] = IF m = l THEN k ELSE landing[m]
    BY DEF SessionInv, Shape
  <1>2. Shape'
    BY <1>1 DEF SessionInv, Shape, LandingShape
  <1>3. Whole'
    BY <1>1 DEF SessionInv, Whole, WrittenWhole, ReadsWhole,
                HoldsWhole, Of, HalfWritten,
                HasWritten
  <1>4. Gone'
    BY <1>1 DEF SessionInv, Gone, IsGone
  <1>5. Due'
    BY <1>1 DEF SessionInv, Due, RefusalDue
  <1>6. Kept'
    <2> SUFFICES /\ \A r \in Request : StorageKept(r)'
                 /\ \A m \in Landing : ReadsKept(m, landing[m])'
      BY DEF Kept
    <2>1. ASSUME NEW r \in Request
          PROVE  /\ HasWritten(r)' <=> HasWritten(r)
                 /\ HalfWritten(r)' <=> HalfWritten(r)
                 /\ OthersWrote(r)' <=> OthersWrote(r)
      BY DEF HasWritten, HalfWritten, OthersWrote
    <2>2. ASSUME NEW m \in Landing, IsTaker(landing[m])
          PROVE  IsTaker(landing'[m]) /\ landing'[m].code = landing[m].code
      BY <1>1, <2>2
    <2>3. ASSUME NEW r \in Request
          PROVE  StorageKept(r)'
      <3>1. Contested(r) => Contested(r)'
        BY <2>1, <2>2 DEF Contested
      <3>2. StorageKept(r)
        BY DEF SessionInv, Kept
      <3> QED
        BY <2>1, <3>1, <3>2 DEF StorageKept
    <2>4. ASSUME NEW m \in Landing
          PROVE  ReadsKept(m, landing[m])'
      <3>1. PICK s : s = landing'[m]
        OBVIOUS
      <3>2. ReadsKept(m, s)
        BY <1>1, <3>1 DEF SessionInv, Kept
      <3>3. s.code \in Request /\ Rival(m, s.code) => Rival(m, s.code)'
        BY <2>1, <2>2 DEF Rival
      <3>4. ReadsKept(m, s)'
        BY <3>2, <3>3 DEF ReadsKept
      <3> QED
        BY <3>1, <3>4 DEF ReadsKept
    <2> QED
      BY <2>3, <2>4
  <1> QED
    BY <1>2, <1>3, <1>4, <1>5, <1>6 DEF SessionInv

\* A step of one request that leaves the storage alone.
LEMMA RequestStep ==
  ASSUME SessionInv, NEW r \in Request, NEW q \in RequestState,
         request' = [request EXCEPT ![r] = q],
         UNCHANGED <<store, storage, landing, redeemed, overlap, lost>>,
         RequestShape(r, q),
         HasWritten(r) => q.at # "new" /\ q.left # WriteOrder(r),
         request[r].at = "granted" => q.at = "granted",
         IsFinished(q) => IsFinished(request[r]),
         q.at = "writing" => q.left = WriteOrder(r)
  PROVE  SessionInv'
  <1>1. /\ request' \in [Request -> RequestState]
        /\ \A t \in Request : request'[t] = IF t = r THEN q ELSE request[t]
    BY DEF SessionInv, Shape
  <1>2. Shape'
    BY <1>1 DEF SessionInv, Shape, LandingShape
  <1>3. ASSUME NEW t \in Request
        PROVE  /\ HasWritten(t) => HasWritten(t)'
               /\ HalfWritten(t)' => HalfWritten(t) /\ t # r
               /\ IsFinished(request'[t]) => IsFinished(request[t])
    BY <1>1 DEF HasWritten, HalfWritten
  <1>4. Whole'
    BY <1>1, <1>3 DEF SessionInv, Whole, WrittenWhole, ReadsWhole,
                      HoldsWhole, Of
  <1>5. Gone' /\ Due'
    BY DEF SessionInv, Gone, IsGone, Due, RefusalDue
  <1>6. ASSUME NEW t \in Request
        PROVE  /\ OthersWrote(t) => OthersWrote(t)'
               /\ Contested(t) => Contested(t)'
               /\ \A m \in Landing : Rival(m, t) => Rival(m, t)'
    BY <1>3 DEF OthersWrote, Contested, Rival
  <1>7. Kept'
    <2> SUFFICES /\ \A t \in Request : StorageKept(t)'
                 /\ \A m \in Landing : ReadsKept(m, landing[m])'
      BY DEF Kept
    <2>1. ASSUME NEW t \in Request
          PROVE  StorageKept(t)'
      <3>1. StorageKept(t)
        BY DEF SessionInv, Kept
      <3>2. t = r => request'[t].left = request[t].left
                     \/ ~(HalfWritten(t)' \/ IsFinished(request'[t]))
        BY <1>1, <1>3 DEF SessionInv, Shape, RequestShape
      <3> QED
        BY <1>1, <1>3, <1>6, <3>1, <3>2 DEF StorageKept
    <2>2. ASSUME NEW m \in Landing
          PROVE  ReadsKept(m, landing[m])'
      <3>1. ReadsKept(m, landing[m])
        BY DEF SessionInv, Kept
      <3> QED
        BY <1>6, <3>1 DEF ReadsKept
    <2> QED
      BY <2>1, <2>2
  <1> QED
    BY <1>2, <1>4, <1>5, <1>7 DEF SessionInv

LEMMA RequestsKeep ==
  ASSUME SessionInv, NEW r \in Request,
         buildAuthorizeUrl(r) \/ PersistFails(r) \/ Consent(r)
  PROVE  SessionInv'
  <1>1. request[r] \in RequestState /\ RequestShape(r, request[r])
        /\ WriteOrder(r) \in Left /\ WriteOrder(r) # << >>
    BY Orders DEF SessionInv, Shape, Main
  <1>2. CASE buildAuthorizeUrl(r)
    <2>1. PICK q : /\ q = [at |-> IF options[r].scope = {} THEN "failed"
                                  ELSE "writing",
                           left |-> WriteOrder(r)]
                   /\ request' = [request EXCEPT ![r] = q]
      BY <1>2 DEF buildAuthorizeUrl
    <2>2. q.at \in {"writing", "failed"} /\ q.left = WriteOrder(r)
          /\ q \in RequestState
      BY <1>1, <2>1 DEF RequestState
    <2>3. RequestShape(r, q)
      BY <1>1, <2>2 DEF RequestShape, IsFinished
    <2>4. request[r].at = "new" /\ ~HasWritten(r)
          /\ UNCHANGED <<store, storage, landing, redeemed, overlap, lost>>
      BY <1>2 DEF buildAuthorizeUrl, HasWritten
    <2> QED
      BY <2>1, <2>2, <2>3, <2>4, RequestStep DEF IsFinished
  <1>3. CASE PersistFails(r)
    <2> DEFINE q == [request[r] EXCEPT !.at = "failed"]
    <2>1. request' = [request EXCEPT ![r] = q] /\ request[r].at = "writing"
          /\ UNCHANGED <<store, storage, landing, redeemed, overlap, lost>>
      BY <1>3 DEF PersistFails
    <2>2. q \in RequestState /\ q.at = "failed" /\ q.left = request[r].left
      BY <1>1 DEF RequestState
    <2>3. RequestShape(r, q)
      BY <1>1, <2>1, <2>2 DEF RequestShape, IsFinished
    <2> QED
      BY <2>1, <2>2, <2>3, RequestStep DEF IsFinished, HasWritten
  <1>4. CASE Consent(r)
    <2>1. PICK answer \in {"granted", "denied"} :
            request' = [request EXCEPT ![r].at = answer]
      BY <1>4 DEF Consent
    <2> DEFINE q == [request[r] EXCEPT !.at = answer]
    <2>2. request' = [request EXCEPT ![r] = q] /\ request[r].at = "asked"
          /\ UNCHANGED <<store, storage, landing, redeemed, overlap, lost>>
      BY <1>4, <2>1 DEF Consent
    <2>3. q \in RequestState /\ q.at = answer /\ q.left = request[r].left
      BY <1>1 DEF RequestState
    <2>4. RequestShape(r, q)
      BY <1>1, <2>2, <2>3 DEF RequestShape, IsFinished
    <2> QED
      BY <2>2, <2>3, <2>4, RequestStep DEF IsFinished, HasWritten
  <1> QED
    BY <1>2, <1>3, <1>4

-----------------------------------------------------------------------------
(* Writing a key.                                                          *)

LEMMA PersistKeeps ==
  ASSUME SessionInv, NEW r \in Request, persistAuthorizationRequest(r)
  PROVE  SessionInv'
  <1> DEFINE left == request[r].left
             key == Head(left)
             rest == Tail(left)
             home == store[r]
  <1>0. /\ home \in Store /\ \A t \in Request : store[t] \in Store
        /\ storage \in [Store -> [Key -> Value]]
    BY DEF SessionInv, Shape
  <1>1. /\ request[r].at = "writing" /\ left \in Left /\ left # << >>
        /\ left = WriteOrder(r) \/ "state" \notin Pending(left)
        /\ HasWritten(r) <=> left # WriteOrder(r)
        /\ HasWritten(r) => "state" \notin Pending(left)
    BY Written DEF SessionInv, Shape, RequestShape, RequestState,
                   persistAuthorizationRequest
  <1>2. /\ key \in Pending(left) /\ key \in Key
        /\ rest \in Left /\ Pending(rest) = Pending(left) \ {key}
        /\ "state" \notin Pending(rest)
        /\ key = "state" <=> "state" \in Pending(left)
        /\ rest = << >> => key = "redirect" /\ Pending(left) = {"redirect"}
    <2>1. /\ key \in Pending(left) /\ Pending(left) \subseteq Key
          /\ rest \in Left /\ Pending(rest) = Pending(left) \ {key}
          /\ "state" \in Pending(left) => key = "state"
          /\ "redirect" \in Pending(left)
      BY <1>1, Orders
    <2>2. rest = << >> => Pending(rest) = {}
      BY <2>1, Orders
    <2> QED
      BY <2>1, <2>2
  <1>3. /\ Main \subseteq Pending(WriteOrder(r))
        /\ ~HasWritten(r) => key = "state" /\ Main \ Pending(rest) \subseteq {"state"}
        /\ rest # WriteOrder(r)
    <2>1. Main \subseteq Pending(WriteOrder(r)) /\ "state" \in Main
      BY Orders DEF Main
    <2>2. ~HasWritten(r) => "state" \in Pending(left) /\ Main \subseteq Pending(left)
      BY <1>1, <2>1
    <2> QED
      BY <1>2, <2>1, <2>2
  <1>4. PICK q : q = [at |-> IF rest = << >> THEN "asked" ELSE "writing",
                      left |-> rest]
    OBVIOUS
  <1>5. /\ storage' = [storage EXCEPT ![home][key] = Stored(r, key)]
        /\ request' = [request EXCEPT ![r] = q]
        /\ UNCHANGED <<store, landing, redeemed, lost>>
        /\ overlap \subseteq overlap' /\ overlap' \subseteq Store
        /\ home \notin overlap' =>
             /\ home \notin overlap
             /\ \A other \in Request \ {r} :
                  store[other] = home => ~HalfWritten(other)
             /\ \A l \in Landing : store[l] = home => ~HalfRead(l)
    BY <1>0, <1>4 DEF persistAuthorizationRequest, SessionInv, Shape
  <1>6. /\ q \in RequestState /\ q.left = rest
        /\ q.at = IF rest = << >> THEN "asked" ELSE "writing"
    BY <1>2, <1>4 DEF RequestState
  <1>7. /\ request' \in [Request -> RequestState]
        /\ \A t \in Request : request'[t] = IF t = r THEN q ELSE request[t]
    BY <1>5, <1>6 DEF SessionInv, Shape
  <1>8. /\ storage' \in [Store -> [Key -> Value]]
        /\ \A k \in Key : storage'[home][k] =
             IF k = key THEN Stored(r, k) ELSE storage[home][k]
        /\ \A s \in Store \ {home} : storage'[s] = storage[s]
    <2>1. Stored(r, key) \in Value
      BY <1>2, OptionsAssumption DEF Stored, Value
    <2> QED
      BY <1>0, <1>2, <1>5, <2>1
  <1>9. Shape'
    <2>1. \A t \in Request : RequestShape(t, request'[t])
      BY <1>2, <1>6, <1>7 DEF SessionInv, Shape, RequestShape, IsFinished
    <2>2. \A l \in Landing : LandingShape(l, landing[l])'
      BY <1>1, <1>5, <1>7 DEF SessionInv, Shape, LandingShape
    <2>3. ASSUME NEW s \in Store
          PROVE  /\ storage'[s]["state"] \in Request \cup {Null}
                 /\ storage'[s]["state"] \in Request =>
                      store[storage'[s]["state"]] = s
      <3>1. /\ storage[s]["state"] \in Request \cup {Null}
            /\ storage[s]["state"] \in Request => store[storage[s]["state"]] = s
            /\ "state" \in Key /\ Stored(r, "state") = r
        BY DEF SessionInv, Shape, Key, Stored
      <3> QED
        BY <1>8, <3>1
    <2> QED
      BY <1>5, <1>7, <1>8, <2>1, <2>2, <2>3 DEF SessionInv, Shape
  <1>10. ASSUME NEW t \in Request
         PROVE  /\ HasWritten(t)' <=> HasWritten(t) \/ t = r
                /\ t # r => (HalfWritten(t)' <=> HalfWritten(t))
    BY <1>3, <1>6, <1>7 DEF HasWritten, HalfWritten
  <1>11. HalfWritten(r) <=> HasWritten(r)
    BY <1>1 DEF HalfWritten
  \* A request of another storage finds there what it found before.
  <1>12. ASSUME NEW t \in Request, store[t] # home, NEW k
         PROVE  Of(t, k)' <=> Of(t, k)
    BY <1>0, <1>5, <1>8, <1>12 DEF Of
  <1>13. ASSUME home \notin overlap', NEW k \in Main \ Pending(rest)
         PROVE  Of(r, k)'
    <2>1. k \in Key
      BY DEF Main, Key
    <2>2. CASE k = key
      BY <1>5, <1>8, <2>1, <2>2 DEF Of
    <2>3. CASE k # key
      <3>1. HasWritten(r) /\ k \notin Pending(left)
        BY <1>2, <1>3, <2>3
      <3>2. Of(r, k)
        BY <1>5, <1>11, <1>13, <3>1 DEF SessionInv, Whole, WrittenWhole
      <3> QED
        BY <1>5, <1>8, <2>1, <2>3, <3>2 DEF Of
    <2> QED
      BY <2>2, <2>3
  <1>14. ASSUME NEW t \in Request, store[t] \notin overlap'
         PROVE  WrittenWhole(t)'
    <2>1. WrittenWhole(t)
      BY <1>5, <1>14 DEF SessionInv, Whole
    <2>2. CASE store[t] # home
      <3>1. /\ storage'[store[t]] = storage[store[t]] /\ store' = store
            /\ request'[t] = request[t] /\ (HalfWritten(t)' <=> HalfWritten(t))
        BY <1>0, <1>5, <1>7, <1>8, <1>10, <2>2
      <3> QED
        BY <1>12, <2>1, <2>2, <3>1 DEF WrittenWhole
    <2>3. CASE t = r
      <3>1. IsFinished(request'[r]) => Pending(rest) = {}
        BY <1>2, <1>6, <1>7, Orders DEF IsFinished
      <3> QED
        BY <1>6, <1>7, <1>13, <1>14, <2>3, <3>1 DEF WrittenWhole
    <2>4. CASE t # r /\ store[t] = home
      <3>1. ~HalfWritten(t)' /\ request'[t] = request[t]
        BY <1>5, <1>7, <1>10, <1>14, <2>4
      <3>2. ASSUME IsFinished(request[t]), storage'[home]["state"] = t
            PROVE  FALSE
        <4>1. "state" \in Key /\ key # "state"
          BY <1>8, <2>4, <3>2 DEF Key, Stored
        <4>2. HasWritten(r) /\ "state" \in Main \ Pending(left)
          BY <1>2, <1>3, <4>1 DEF Main
        <4>3. Of(r, "state")
          BY <1>5, <1>11, <1>14, <2>4, <4>2
             DEF SessionInv, Whole, WrittenWhole
        <4>4. storage[home]["state"] = t /\ t # Null
          BY <1>8, <3>2, <4>1, OptionsAssumption
        <4> QED
          BY <2>4, <4>3, <4>4 DEF Of, Stored
      <3> QED
        BY <1>5, <2>4, <3>1, <3>2 DEF WrittenWhole
    <2> QED
      BY <2>2, <2>3, <2>4
  <1>15. ASSUME NEW l \in Landing, store[l] \notin overlap'
         PROVE  ReadsWhole(landing[l])' /\ HoldsWhole(landing[l])'
    <2>1. /\ ReadsWhole(landing[l]) /\ HoldsWhole(landing[l])
          /\ LandingShape(l, landing[l])
      BY <1>5, <1>15 DEF SessionInv, Shape, Whole
    <2>2. CASE store[l] = home
      BY <1>5, <1>15, <2>1, <2>2 DEF ReadsWhole, HoldsWhole, HalfRead
    <2>3. CASE store[l] # home
      BY <1>5, <1>12, <2>1, <2>3 DEF ReadsWhole, HoldsWhole, LandingShape
    <2> QED
      BY <2>2, <2>3
  <1>16. Whole'
    BY <1>5, <1>14, <1>15 DEF Whole
  <1>17. Gone'
    <2> SUFFICES ASSUME NEW l \in Landing, IsTaker(landing[l]),
                        IsGone(landing[l])
                 PROVE  IsGone(landing[l])'
      BY <1>5 DEF SessionInv, Gone, IsGone, IsTaker
    <2>1. landing[l].code \in Request /\ landing[l].code # r
      BY <1>1 DEF SessionInv, Shape, LandingShape
    <2>2. \A s \in Store :
            storage'[s]["state"] \in {r, storage[s]["state"]}
      BY <1>8 DEF Key, Stored
    <2> QED
      BY <1>0, <1>5, <2>1, <2>2 DEF IsGone
  <1>18. Due'
    BY <1>5 DEF SessionInv, Due, RefusalDue
  <1>19. Kept'
    <2> SUFFICES /\ \A t \in Request : StorageKept(t)'
                 /\ \A l \in Landing : ReadsKept(l, landing[l])'
      BY <1>5 DEF Kept
    <2>1. \A t \in Request \ {r} : store[t] = home => OthersWrote(t)'
      BY <1>5, <1>10 DEF OthersWrote
    <2>2. \A t \in Request : OthersWrote(t) => OthersWrote(t)'
      BY <1>5, <1>10 DEF OthersWrote
    <2>3. \A t \in Request : Contested(t) => Contested(t)'
      BY <1>5, <2>2 DEF Contested
    <2>4. StorageKept(r)'
      <3> SUFFICES ASSUME ~Contested(r)
                   PROVE  \A k \in Main \ Pending(rest) :
                            storage'[home][k] = Stored(r, k)
        BY <1>5, <1>6, <1>7, <2>3 DEF StorageKept
      <3> TAKE k \in Main \ Pending(rest)
      <3>1. k \in Key
        BY DEF Main, Key
      <3>2. CASE k = key
        BY <1>8, <3>1, <3>2
      <3>3. CASE k # key
        <4>1. HasWritten(r) /\ k \notin Pending(left)
          BY <1>2, <1>3, <3>3
        <4>2. storage[home][k] = Stored(r, k)
          BY <1>11, <4>1 DEF SessionInv, Kept, StorageKept
        <4> QED
          BY <1>8, <3>1, <3>3, <4>2
      <3> QED
        BY <3>2, <3>3
    <2>5. ASSUME NEW t \in Request \ {r}
          PROVE  StorageKept(t)'
      <3>1. CASE store[t] = home
        BY <2>1, <3>1 DEF StorageKept, Contested
      <3>2. CASE store[t] # home
        <4>1. /\ storage'[store[t]] = storage[store[t]] /\ store' = store
              /\ request'[t] = request[t] /\ (HalfWritten(t)' <=> HalfWritten(t))
          BY <1>0, <1>5, <1>7, <1>8, <1>10, <3>2
        <4> QED
          BY <2>3, <4>1 DEF SessionInv, Kept, StorageKept
      <3> QED
        BY <3>1, <3>2
    <2>6. ASSUME NEW l \in Landing
          PROVE  ReadsKept(l, landing[l])'
      <3>1. landing[l].code \in Request =>
              landing[l].code \in Request \ {r}
        BY <1>1 DEF SessionInv, Shape, LandingShape
      <3>2. landing[l].code \in Request /\ Rival(l, landing[l].code) =>
              Rival(l, landing[l].code)'
        BY <1>5, <2>2 DEF Rival
      <3>3. ReadsKept(l, landing[l])
        BY DEF SessionInv, Kept
      <3> QED
        BY <1>5, <3>1, <3>2, <3>3 DEF ReadsKept
    <2> QED
      BY <2>4, <2>5, <2>6
  <1> QED
    BY <1>9, <1>16, <1>17, <1>18, <1>19 DEF SessionInv

-----------------------------------------------------------------------------
(* Landings.                                                               *)

LEMMA ThrowStep ==
  ASSUME SessionInv, NEW l \in Landing,
         NEW error \in {"access_denied", "not_a_callback", "missing_verifier",
                        "storage_unavailable", "state_mismatch",
                        "storage_error"},
         Throw(l, error),
         UNCHANGED <<store, storage, request, redeemed, overlap, lost>>,
         IsTaker(landing[l]) <=> error = "storage_error",
         /\ error \in {"missing_verifier", "state_mismatch"}
         /\ landing[l].code \in Request
         => Rival(l, landing[l].code)
  PROVE  SessionInv'
  <1>0. PICK k : k = [landing[l] EXCEPT !.at = "threw", !.error = error,
                                        !.left = << >>]
    OBVIOUS
  <1>1. /\ landing[l] \in LandingState /\ LandingShape(l, landing[l])
        /\ store[l] \notin overlap => HoldsWhole(landing[l])
    BY DEF SessionInv, Shape, Whole
  <1>2. landing' = [landing EXCEPT ![l] = k]
    BY <1>0 DEF Throw, SessionInv, Shape
  <1>3. /\ k \in LandingState /\ k.at = "threw" /\ k.error = error
        /\ k.left = << >> /\ k.code = landing[l].code
        /\ k.holds = landing[l].holds
    <2>1. << >> \in Left
      BY DEF Left
    <2> QED
      BY <1>0, <1>1, <2>1 DEF LandingState
  <1>4. IsTaker(k) <=> IsTaker(landing[l])
    <2>1. IsTaker(k) <=> error = "storage_error"
      BY <1>3 DEF IsTaker, IsAccepted
    <2> QED
      BY <2>1
  <1>5. LandingShape(l, k)
    BY <1>1, <1>3, <1>4 DEF LandingShape
  <1>6. store[l] \notin overlap => ReadsWhole(k) /\ HoldsWhole(k)
    BY <1>1, <1>3, <1>4 DEF ReadsWhole, HoldsWhole
  <1>7. IsGone(k) /\ RefusalDue(k)'
    BY <1>3 DEF IsGone, IsAccepted, RefusalDue
  <1>8. ReadsKept(l, k)
    BY <1>3 DEF ReadsKept
  <1> QED
    BY <1>2, <1>3, <1>4, <1>5, <1>6, <1>7, <1>8, LandingStep

LEMMA HandleCallbackKeeps ==
  ASSUME SessionInv, NEW l \in Landing, handleCallback(l)
  PROVE  SessionInv'
  <1>1. /\ landing[l] \in LandingState /\ LandingShape(l, landing[l])
        /\ landing[l].at = "new" /\ landing[l].error = "none"
        /\ ~IsTaker(landing[l])
        /\ UNCHANGED <<store, storage, request, redeemed, overlap, lost>>
    BY DEF SessionInv, Shape, LandingShape, handleCallback, IsTaker, IsAccepted
  <1>2. CASE Throw(l, "access_denied") \/ Throw(l, "not_a_callback")
    BY <1>1, <1>2, ThrowStep
  <1>3. ASSUME NEW code \in Request \cup {Foreign},
               code \in Request => request[code].at = "granted",
               Arrive(l, code)
        PROVE  SessionInv'
    <2>0. PICK k : k = [landing[l] EXCEPT !.at = "reading", !.code = code,
                                          !.left = ReadOrder]
      OBVIOUS
    <2>1. landing' = [landing EXCEPT ![l] = k]
      BY <1>3, <2>0 DEF Arrive, SessionInv, Shape
    <2>2. /\ k \in LandingState /\ k.at = "reading" /\ k.error = "none"
          /\ k.left = ReadOrder /\ k.code = code
          /\ k.holds = landing[l].holds
      BY <1>1, <2>0, Orders DEF LandingState
    <2>3. ~IsTaker(k)
      BY <2>2 DEF IsTaker, IsAccepted
    <2>4. /\ ReadOrder # << >> /\ Pending(ReadOrder) = Main
      BY Orders DEF Main
    <2>5. LandingShape(l, k)
      BY <1>1, <1>3, <2>2, <2>3, <2>4 DEF LandingShape
    <2>6. ReadsWhole(k) /\ HoldsWhole(k)
      BY <2>2, <2>3 DEF ReadsWhole, HoldsWhole
    <2>7. IsGone(k) /\ RefusalDue(k)'
      BY <2>2 DEF IsGone, IsAccepted, RefusalDue
    <2>8. ReadsKept(l, k)
      BY <2>2, <2>4 DEF ReadsKept
    <2> QED
      BY <1>1, <2>1, <2>2, <2>5, <2>6, <2>7, <2>8, LandingStep
  <1> QED
    BY <1>2, <1>3, OptionsAssumption DEF handleCallback

LEMMA ReadKeeps ==
  ASSUME SessionInv, NEW l \in Landing, readAuthorizationRequest(l)
  PROVE  SessionInv'
  <1> DEFINE s == landing[l]
             key == Head(s.left)
             rest == Tail(s.left)
             here == storage[store[l]]
             holds == [s.holds EXCEPT ![key] = here[key]]
  <1>1. /\ s \in LandingState /\ LandingShape(l, s) /\ s.at = "reading"
        /\ UNCHANGED <<store, storage, request, redeemed, overlap, lost>>
    BY DEF SessionInv, Shape, readAuthorizationRequest
  <1>2. /\ s.left \in Left /\ s.left # << >> /\ Pending(s.left) \subseteq Main
        /\ s.left = ReadOrder \/ "state" \notin Pending(s.left)
        /\ s.error \notin {"missing_verifier", "state_mismatch",
                           "storage_error"}
        /\ s.code \in Request \cup {Foreign}
        /\ s.code \in Request => request[s.code].at = "granted"
        /\ s.holds \in [Key -> Value]
        /\ s.holds["state"] \in Request \cup {Null}
        /\ s.holds["state"] \in Request => store[s.holds["state"]] = store[l]
        /\ here \in [Key -> Value] /\ here["state"] \in Request \cup {Null}
        /\ here["state"] \in Request => store[here["state"]] = store[l]
    BY <1>1 DEF LandingState, LandingShape, SessionInv, Shape
  <1>3. ~IsTaker(s)
    BY <1>1, <1>2 DEF IsTaker, IsAccepted
  <1>4. /\ key \in Pending(s.left) /\ key \in Main /\ rest \in Left
        /\ Pending(rest) = Pending(s.left) \ {key}
        /\ "state" \notin Pending(rest)
        /\ key = "state" <=> "state" \in Pending(s.left)
        /\ Pending(ReadOrder) = Main /\ "state" \in Main /\ Main \subseteq Key
    <2>1. Main \subseteq Key /\ "state" \in Main
      BY DEF Main, Key
    <2> QED
      BY <1>2, <2>1, Orders
  <1>5. /\ rest = << >> => Pending(rest) = {}
        /\ rest # ReadOrder
    BY <1>4, Orders
  <1>6. /\ holds \in [Key -> Value]
        /\ holds["state"] \in Request \cup {Null}
        /\ holds["state"] \in Request => store[holds["state"]] = store[l]
        /\ \A k \in Main : holds[k] = IF k = key THEN here[k] ELSE s.holds[k]
    BY <1>2, <1>4
  \* What was read is of one request,
  <1>7. ASSUME store[l] \notin overlap, s.code \in Request, holds["state"] = s.code
        PROVE  /\ \A k \in Main : Of(s.code, k)
               /\ \A k \in Main \ Pending(rest) :
                    holds[k] \in {Null, Stored(s.code, k)}
    <2>1. CASE s.left = ReadOrder
      <3>1. key = "state" /\ here["state"] = s.code /\ store[s.code] = store[l]
        BY <1>4, <1>6, <1>7, <2>1
      <3>2. IsFinished(request[s.code])
        BY <1>2, <1>7 DEF IsFinished
      <3>3. \A k \in Main : Of(s.code, k)
        BY <1>7, <3>1, <3>2 DEF SessionInv, Whole, WrittenWhole
      <3>4. Main \ Pending(rest) \subseteq {"state"}
        BY <1>4, <2>1, <3>1
      <3> QED
        BY <1>6, <3>1, <3>3, <3>4 DEF Of
    <2>2. CASE s.left # ReadOrder
      <3>1. s.holds["state"] = s.code /\ store[s.code] = store[l]
        BY <1>2, <1>4, <1>6, <1>7, <2>2
      <3>2. ReadsWhole(s)
        BY <1>7 DEF SessionInv, Whole, WrittenWhole
      <3>3. /\ \A k \in Main : Of(s.code, k)
            /\ \A k \in Main \ Pending(s.left) :
                 s.holds[k] \in {Null, Stored(s.code, k)}
        BY <1>1, <1>7, <2>2, <3>1, <3>2 DEF ReadsWhole
      <3> QED
        BY <1>4, <1>6, <3>1, <3>3 DEF Of
    <2> QED
      BY <2>1, <2>2
  \* and is what that request stored, unless there is a rival.
  <1>8. ASSUME s.code \in Request, ~Rival(l, s.code)
        PROVE  \A k \in Main \ Pending(rest) : holds[k] = Stored(s.code, k)
    <2>1. \A k \in Main \ Pending(s.left) : s.holds[k] = Stored(s.code, k)
      BY <1>1, <1>8 DEF SessionInv, Kept, ReadsKept
    <2>2. ~Contested(s.code)
      BY <1>3, <1>8 DEF Contested, Rival
    <2>3. IsFinished(request[s.code]) /\ request[s.code].left = << >>
      BY <1>2, <1>8 DEF IsFinished, SessionInv, Shape, RequestShape
    <2>4. Pending(request[s.code].left) = {}
      BY <2>3, Orders DEF Left
    <2>5. \A k \in Main : here[k] = Stored(s.code, k)
      <3>1. store[s.code] = store[l]
        BY <1>8 DEF Rival
      <3> QED
        BY <1>8, <2>2, <2>3, <2>4, <3>1 DEF SessionInv, Kept, StorageKept
    <2> QED
      BY <1>4, <1>6, <2>1, <2>5
  <1>9. CASE rest = << >> /\ \E k \in Key \ {"nonce"} : holds[k] = Null
    <2>1. Throw(l, "missing_verifier")
      BY <1>9 DEF readAuthorizationRequest
    <2>2. \A k \in Main : s.code \in Request => Stored(s.code, k) # Null
      BY OptionsAssumption DEF Stored
    <2>3. Key \ {"nonce"} = Main
      BY DEF Key, Main
    <2>4. s.code \in Request => Rival(l, s.code)
      BY <1>5, <1>8, <1>9, <2>2, <2>3
    <2> QED
      BY <1>1, <1>3, <2>1, <2>4, ThrowStep
  <1>10. CASE ~(rest = << >> /\ \E k \in Key \ {"nonce"} : holds[k] = Null)
    <2>0. PICK k :
            k = [s EXCEPT !.holds = holds, !.left = rest,
                   !.at = IF rest = << >> THEN "checking" ELSE "reading"]
      OBVIOUS
    <2>1. landing' = [landing EXCEPT ![l] = k]
      BY <1>10, <2>0 DEF readAuthorizationRequest, SessionInv, Shape
    <2>2. /\ k \in LandingState /\ k.holds = holds /\ k.left = rest
          /\ k.at = IF rest = << >> THEN "checking" ELSE "reading"
          /\ k.code = s.code /\ k.error = s.error
      BY <1>1, <1>4, <1>6, <2>0 DEF LandingState
    <2>3. ~IsTaker(k)
      BY <1>2, <2>2 DEF IsTaker, IsAccepted
    <2>4. rest = << >> => \A m \in Main : holds[m] # Null
      BY <1>10 DEF Key, Main
    <2>5. LandingShape(l, k)
      BY <1>2, <1>4, <1>6, <2>2, <2>3, <2>4 DEF LandingShape
    <2>6. store[l] \notin overlap => ReadsWhole(k)
      BY <1>7, <2>2 DEF ReadsWhole
    <2>7. store[l] \notin overlap => HoldsWhole(k)
      BY <1>5, <1>7, <2>2, <2>3, <2>4 DEF HoldsWhole
    <2>8. IsGone(k) /\ RefusalDue(k)'
      BY <2>2 DEF IsGone, IsAccepted, RefusalDue
    <2>9. ReadsKept(l, k)
      BY <1>2, <1>8, <2>2 DEF ReadsKept
    <2> QED
      BY <1>1, <1>3, <2>1, <2>2, <2>5, <2>6, <2>7, <2>8, <2>9, LandingStep
  <1> QED
    BY <1>9, <1>10

LEMMA FailuresKeep ==
  ASSUME SessionInv, NEW l \in Landing, ReadFails(l) \/ ClearFails(l)
  PROVE  SessionInv'
  <1>1. /\ LandingShape(l, landing[l])
        /\ UNCHANGED <<store, storage, request, redeemed, overlap, lost>>
    BY DEF SessionInv, Shape, ReadFails, ClearFails
  <1>2. CASE ReadFails(l)
    <2>1. Throw(l, "storage_unavailable") /\ ~IsTaker(landing[l])
      BY <1>1, <1>2 DEF ReadFails, LandingShape, IsTaker, IsAccepted
    <2> QED
      BY <1>1, <2>1, ThrowStep
  <1>3. CASE ClearFails(l)
    <2>1. Throw(l, "storage_error") /\ IsTaker(landing[l])
      BY <1>3 DEF ClearFails, IsTaker
    <2> QED
      BY <1>1, <2>1, ThrowStep
  <1> QED
    BY <1>2, <1>3

LEMMA CheckKeeps ==
  ASSUME SessionInv, NEW l \in Landing, checkState(l)
  PROVE  SessionInv'
  <1> DEFINE s == landing[l]
  <1>1. /\ s \in LandingState /\ LandingShape(l, s) /\ s.at = "checking"
        /\ UNCHANGED <<store, storage, request, redeemed, overlap, lost>>
    BY DEF SessionInv, Shape, checkState
  <1>2. /\ s.left = << >> /\ ~IsTaker(s)
        /\ s.error \notin {"missing_verifier", "state_mismatch",
                           "storage_error"}
        /\ s.code \in Request \cup {Foreign}
        /\ s.holds \in [Key -> Value]
        /\ s.holds["state"] \in Request \cup {Null}
    BY <1>1 DEF LandingState, LandingShape, IsTaker, IsAccepted
  <1>3. CASE s.holds["state"] = s.code
    <2>0. PICK k : k = [s EXCEPT !.at = "clearing", !.left = ClearOrder,
                                 !.holds = [s.holds EXCEPT !["nonce"] =
                                              storage[store[l]]["nonce"]]]
      OBVIOUS
    <2>1. landing' = [landing EXCEPT ![l] = k]
      <3>1. Proceed(l)
        BY <1>3 DEF checkState
      <3>2. landing \in [Landing -> LandingState]
        BY DEF SessionInv, Shape
      <3> QED
        BY <2>0, <3>1, <3>2 DEF Proceed, LandingState
    <2>2. /\ storage[store[l]]["nonce"] \in Value /\ ClearOrder \in Left
          /\ "nonce" \in Key /\ "nonce" \notin Main
          /\ ClearOrder # << >>
      <3>1. storage[store[l]] \in [Key -> Value]
        BY DEF SessionInv, Shape
      <3> QED
        BY <3>1, Orders DEF Key, Main
    <2>3. /\ k \in LandingState /\ k.at = "clearing" /\ k.error = s.error
          /\ k.left = ClearOrder /\ k.code = s.code
      BY <1>1, <2>0, <2>2 DEF LandingState
    <2>4. \A key \in Main : k.holds[key] = s.holds[key]
      BY <1>1, <1>2, <2>0, <2>2 DEF LandingState, Main
    <2>5. k.code = k.holds["state"] /\ k.code \in Request
      BY <1>2, <1>3, <2>3, <2>4, OptionsAssumption DEF Main
    <2>6. LandingShape(l, k)
      <3>1. store[k.holds["state"]] = store[l]
        BY <1>1, <1>3, <2>3, <2>5 DEF LandingShape
      <3> QED
        BY <1>1, <1>2, <2>2, <2>3, <2>5, <3>1 DEF LandingShape
    <2>7. store[l] \notin overlap => HoldsWhole(s)
      BY DEF SessionInv, Whole, WrittenWhole
    <2>8. store[l] \notin overlap => ReadsWhole(k) /\ HoldsWhole(k)
      BY <1>1, <1>3, <2>3, <2>4, <2>5, <2>7 DEF ReadsWhole, HoldsWhole
    <2>9. IsGone(k) /\ RefusalDue(k)'
      BY <2>3 DEF IsGone, IsAccepted, RefusalDue
    <2>10. ReadsKept(l, k)
      BY <1>2, <2>3 DEF ReadsKept
    <2> QED
      BY <1>1, <1>2, <2>1, <2>3, <2>6, <2>8, <2>9, <2>10, LandingStep
  <1>4. CASE s.holds["state"] # s.code
    <2>1. Throw(l, "state_mismatch")
      BY <1>4 DEF checkState
    <2>2. Pending(s.left) = {} /\ "state" \in Main
      BY <1>2, Orders DEF Left, Main
    <2>3. s.code \in Request => Rival(l, s.code)
      BY <1>1, <1>4, <2>2 DEF SessionInv, Kept, ReadsKept, Stored
    <2> QED
      BY <1>1, <1>2, <2>1, <2>3, ThrowStep
  <1> QED
    BY <1>3, <1>4

\* A refusal is due to the code or to the redirect URI: the verifier is right
\* if no requests overlapped.
LEMMA ExchangeKeeps ==
  ASSUME SessionInv, NEW l \in Landing, exchangeCode(l)
  PROVE  SessionInv'
  <1> DEFINE s == landing[l]
  <1>1. /\ s \in LandingState /\ LandingShape(l, s) /\ IsAccepted(s) /\ IsTaker(s)
        /\ UNCHANGED <<store, storage, request, overlap, lost>>
    BY DEF SessionInv, Shape, exchangeCode, IsTaker, IsAccepted
  <1>2. PICK redirectUri \in {s.holds["redirect"], defaultRedirectUri},
             heard \in {"answer", "nothing"}, reached \in BOOLEAN :
          LET redeems == /\ reached
                         /\ Redeemable(s.code, s.holds["verifier"], redirectUri)
          IN /\ heard = "answer" => reached
             /\ redeemed' = IF redeems THEN redeemed \cup {s.code} ELSE redeemed
             /\ landing' = [landing EXCEPT
                  ![l].at = IF heard = "nothing" THEN "unanswered"
                            ELSE IF redeems THEN "tokens" ELSE "refused",
                  ![l].error = IF heard = "nothing" THEN "network_error"
                               ELSE IF redeems THEN "none"
                               ELSE "invalid_grant"]
    BY DEF exchangeCode
  <1>3. PICK at \in {"unanswered", "tokens", "refused"},
             error \in {"network_error", "none", "invalid_grant"} :
          /\ landing' = [landing EXCEPT ![l].at = at, ![l].error = error]
          /\ at = "refused" =>
               ~Redeemable(s.code, s.holds["verifier"], redirectUri)
    <2>1. CASE heard = "nothing"
      BY <1>2, <2>1
    <2>2. CASE heard # "nothing" /\ reached
               /\ Redeemable(s.code, s.holds["verifier"], redirectUri)
      BY <1>2, <2>2
    <2>3. CASE heard # "nothing"
               /\ ~Redeemable(s.code, s.holds["verifier"], redirectUri)
      BY <1>2, <2>3
    <2> QED
      BY <1>2, <2>1, <2>2, <2>3
  <1>4. redeemed \subseteq redeemed'
    BY <1>2
  <1>5. PICK k : k = [s EXCEPT !.at = at, !.error = error]
    OBVIOUS
  <1>6. landing' = [landing EXCEPT ![l] = k]
    BY <1>3, <1>5 DEF SessionInv, Shape
  <1>7. /\ k \in LandingState /\ k.at = at /\ k.error = error
        /\ k.left = s.left /\ k.code = s.code /\ k.holds = s.holds
    BY <1>1, <1>5 DEF LandingState
  <1>8. IsAccepted(k) /\ IsTaker(k)
    BY <1>7 DEF IsTaker, IsAccepted
  <1>9. LandingShape(l, k)
    BY <1>1, <1>7, <1>8 DEF LandingShape
  <1>10. store[l] \notin overlap => HoldsWhole(s) /\ ReadsWhole(k) /\ HoldsWhole(k)
    BY <1>1, <1>7, <1>8 DEF SessionInv, Whole, ReadsWhole, HoldsWhole
  <1>11. IsGone(s) /\ IsGone(k)
    BY <1>1, <1>7, <1>8 DEF SessionInv, Gone, IsGone
  <1>12. RefusalDue(k)'
    <2> SUFFICES ASSUME at = "refused", store[s.code] \notin overlap
                 PROVE  \/ s.code \in redeemed
                        \/ options[s.code].redirectUri # defaultRedirectUri
      BY <1>1, <1>4, <1>7 DEF RefusalDue
    <2>1. /\ s.code \in Request /\ store[s.code] = store[l]
          /\ s.holds["verifier"] = s.code
          /\ s.holds["redirect"] = options[s.code].redirectUri
      BY <1>1, <1>10 DEF LandingShape, HoldsWhole, Main, Stored
    <2> QED
      BY <1>3, <2>1 DEF Redeemable
  <1>13. ReadsKept(l, k)
    BY <1>7 DEF ReadsKept
  <1> QED
    BY <1>1, <1>4, <1>6, <1>7, <1>8, <1>9, <1>10, <1>11, <1>12, <1>13,
       LandingStep

-----------------------------------------------------------------------------
(* Losing a storage.                                                       *)

LEMMA UnloadKeeps ==
  ASSUME SessionInv, NEW s \in Store, Unload(s)
  PROVE  SessionInv'
  <1>1. /\ store' = store /\ redeemed' = redeemed /\ overlap' = overlap
        /\ storage' \in [Store -> [Key -> Value]]
        /\ \A key \in Key : storage'[s][key] = Null
        /\ \A t \in Store \ {s} : storage'[t] = storage[t]
        /\ lost' = lost \cup {r \in Request : store[r] = s /\ HasWritten(r)}
        /\ lost' \subseteq Request
        /\ Main \subseteq Key /\ "state" \in Key
    <2>1. NoHold \in [Key -> Value]
      BY DEF NoHold, Value
    <2> QED
      BY <2>1 DEF Unload, NoHold, SessionInv, Shape, Main, Key
  <1>2. ASSUME NEW r \in Request
        PROVE  /\ request'[r] \in RequestState
               /\ request'[r].left = request[r].left
               /\ request'[r].at =
                    IF store[r] = s /\ request[r].at = "writing" THEN "failed"
                    ELSE request[r].at
               /\ store[r] # s => request'[r] = request[r]
               /\ store[r] \in Store
    BY DEF Unload, SessionInv, Shape, RequestState
  <1>3. ASSUME NEW l \in Landing
        PROVE  \/ /\ landing'[l] = landing[l]
                  /\ \/ store[l] # s
                     \/ landing[l].at \notin {"reading", "checking", "clearing"}
               \/ /\ landing'[l] \in LandingState /\ store[l] = s
                  /\ landing'[l].at = "threw" /\ landing'[l].error = "unloaded"
                  /\ landing'[l].code = landing[l].code
                  /\ landing'[l].holds = landing[l].holds
    <2>1. landing[l] \in LandingState /\ << >> \in Left
      BY DEF SessionInv, Shape, Left
    <2> QED
      BY <2>1 DEF Unload, LandingState
  <1>4. /\ request' \in [Request -> RequestState]
        /\ landing' \in [Landing -> LandingState]
    <2>1. \A l \in Landing : landing'[l] \in LandingState
      BY <1>3 DEF SessionInv, Shape
    <2> QED
      BY <1>2, <2>1 DEF Unload
  <1>5. Shape'
    <2>1. \A r \in Request : RequestShape(r, request'[r])
      BY <1>2 DEF SessionInv, Shape, RequestShape, IsFinished
    <2>2. ASSUME NEW l \in Landing
          PROVE  LandingShape(l, landing[l])'
      <3>1. LandingShape(l, landing[l])
        BY DEF SessionInv, Shape
      <3> QED
        BY <1>1, <1>2, <1>3, <3>1 DEF LandingShape, IsTaker, IsAccepted
    <2>3. ASSUME NEW t \in Store
          PROVE  /\ storage'[t]["state"] \in Request \cup {Null}
                 /\ storage'[t]["state"] \in Request =>
                      store[storage'[t]["state"]] = t
      BY <1>1, OptionsAssumption DEF SessionInv, Shape
    <2> QED
      BY <1>1, <1>4, <2>1, <2>2, <2>3 DEF SessionInv, Shape
  <1>6. ASSUME NEW r \in Request
        PROVE  /\ HasWritten(r)' <=> HasWritten(r)
               /\ HalfWritten(r)' <=> HalfWritten(r) /\ store[r] # s
               /\ IsFinished(request'[r]) <=> IsFinished(request[r])
               /\ IsFinished(request[r]) => HasWritten(r)
    BY <1>2, Written DEF HasWritten, HalfWritten, IsFinished, SessionInv
  \* What a request stored elsewhere is as it was, and here nothing is left.
  <1>7. ASSUME NEW r \in Request, NEW key \in Main
        PROVE  /\ Of(r, key) => Of(r, key)'
               /\ store[r] = s => Of(r, key)'
    BY <1>1, <1>2 DEF Of
  <1>8. Whole'
    <2>1. ASSUME NEW r \in Request, store[r] \notin overlap
          PROVE  WrittenWhole(r)'
      <3>1. WrittenWhole(r)
        BY <2>1 DEF SessionInv, Whole
      <3> QED
        BY <1>1, <1>2, <1>6, <1>7, <3>1 DEF WrittenWhole
    <2>2. ASSUME NEW l \in Landing, store[l] \notin overlap
          PROVE  ReadsWhole(landing[l])' /\ HoldsWhole(landing[l])'
      <3>1. ReadsWhole(landing[l]) /\ HoldsWhole(landing[l])
        BY <2>2 DEF SessionInv, Whole
      <3> QED
        BY <1>3, <1>7, <3>1 DEF ReadsWhole, HoldsWhole, IsTaker, IsAccepted
    <2> QED
      BY <1>1, <2>1, <2>2 DEF Whole
  <1>9. Gone'
    <2> SUFFICES ASSUME NEW l \in Landing
                 PROVE  IsGone(landing[l])'
      BY DEF Gone
    <2>1. LandingShape(l, landing[l]) /\ IsGone(landing[l])
      BY DEF SessionInv, Shape, Gone
    <2>2. landing[l].code \in Request => landing[l].code # Null
      BY OptionsAssumption
    <2> QED
      BY <1>1, <1>2, <1>3, <2>1, <2>2
         DEF IsGone, LandingShape, IsTaker, IsAccepted
  <1>10. Due'
    BY <1>1, <1>3 DEF SessionInv, Due, RefusalDue
  \* A taker in a storage that is lost had a request that is lost with it.
  <1>11. ASSUME NEW l \in Landing, IsTaker(landing[l])
         PROVE  \/ landing'[l] = landing[l]
                \/ landing[l].code \in lost'
    <2>1. CASE landing'[l] # landing[l]
      <3>1. /\ store[l] = s /\ landing[l].code \in Request
            /\ store[landing[l].code] = s
            /\ request[landing[l].code].at = "granted"
        BY <1>3, <1>11, <2>1 DEF SessionInv, Shape, LandingShape
      <3> QED
        BY <1>1, <1>6, <3>1 DEF IsFinished
    <2> QED
      BY <2>1
  <1>12. ASSUME NEW r \in Request
         PROVE  /\ OthersWrote(r) => OthersWrote(r)'
                /\ Contested(r) => Contested(r)'
                /\ \A l \in Landing : Rival(l, r) => Rival(l, r)'
    <2>1. OthersWrote(r) => OthersWrote(r)'
      BY <1>1, <1>6 DEF OthersWrote
    <2>2. \A l \in Landing :
            landing[l].code = r /\ IsTaker(landing[l]) =>
              (landing'[l].code = r /\ IsTaker(landing'[l])) \/ r \in lost'
      BY <1>11
    <2> QED
      BY <1>1, <2>1, <2>2 DEF Contested, Rival
  <1>13. Kept'
    <2>1. ASSUME NEW r \in Request
          PROVE  StorageKept(r)'
      <3>1. StorageKept(r)
        BY DEF SessionInv, Kept
      <3>2. CASE store[r] = s
        <4>1. HalfWritten(r)' \/ IsFinished(request'[r]) => r \in lost'
          BY <1>1, <1>6, <3>2
        <4> QED
          BY <4>1 DEF StorageKept, Contested
      <3>3. CASE store[r] # s
        BY <1>1, <1>2, <1>6, <1>12, <3>1, <3>3 DEF StorageKept
      <3> QED
        BY <3>2, <3>3
    <2>2. ASSUME NEW l \in Landing
          PROVE  ReadsKept(l, landing[l])'
      <3>1. ReadsKept(l, landing[l])
        BY DEF SessionInv, Kept
      <3> QED
        BY <1>3, <1>12, <3>1 DEF ReadsKept
    <2> QED
      BY <2>1, <2>2 DEF Kept
  <1> QED
    BY <1>5, <1>8, <1>9, <1>10, <1>13 DEF SessionInv

-----------------------------------------------------------------------------
(* Removing a key.                                                         *)

LEMMA ClearKeeps ==
  ASSUME SessionInv, NEW l \in Landing, clearAuthorizationRequest(l)
  PROVE  SessionInv'
  <1> DEFINE s == landing[l]
             key == Head(s.left)
             rest == Tail(s.left)
             home == store[l]
  <1>1. /\ s \in LandingState /\ LandingShape(l, s) /\ s.at = "clearing"
        /\ UNCHANGED <<store, request, redeemed, overlap, lost>>
        /\ storage' = [storage EXCEPT ![home][key] = Null]
        /\ storage \in [Store -> [Key -> Value]] /\ home \in Store
        /\ \A r \in Request : store[r] \in Store
    BY DEF SessionInv, Shape, clearAuthorizationRequest
  <1>2. /\ s.left \in Left /\ s.left # << >> /\ IsTaker(s)
        /\ s.left = ClearOrder \/ "state" \notin Pending(s.left)
        /\ s.code = s.holds["state"] /\ s.code \in Request
        /\ request[s.code].at = "granted" /\ store[s.code] = home
        /\ s.error \notin {"missing_verifier", "state_mismatch",
                           "storage_error"}
    BY <1>1 DEF LandingState, LandingShape, IsTaker
  <1>3. /\ key \in Pending(s.left) /\ key \in Key /\ rest \in Left
        /\ Pending(rest) = Pending(s.left) \ {key}
        /\ "state" \in Pending(s.left) => key = "state"
        /\ "state" \notin Pending(rest)
        /\ Pending(ClearOrder) = Key /\ "state" \in Key /\ Main \subseteq Key
    <2>1. Main \subseteq Key /\ "state" \in Key
      BY DEF Main, Key
    <2> QED
      BY <1>2, <2>1, Orders
  <1>4. PICK k : k = [s EXCEPT !.left = rest,
                        !.at = IF rest = << >> THEN "accepted" ELSE "clearing"]
    OBVIOUS
  <1>5. /\ k \in LandingState /\ k.left = rest /\ k.code = s.code
        /\ k.at = IF rest = << >> THEN "accepted" ELSE "clearing"
        /\ k.error = s.error /\ k.holds = s.holds
    BY <1>1, <1>3, <1>4 DEF LandingState
  <1>6. /\ landing' \in [Landing -> LandingState]
        /\ \A m \in Landing : landing'[m] = IF m = l THEN k ELSE landing[m]
    <2>1. landing \in [Landing -> LandingState]
      BY DEF SessionInv, Shape
    <2>2. landing' = [landing EXCEPT ![l] = k]
      BY <1>4, <2>1 DEF clearAuthorizationRequest, LandingState
    <2> QED
      BY <1>5, <2>1, <2>2
  <1>7. IsTaker(k)
    BY <1>5 DEF IsTaker, IsAccepted
  <1>8. /\ storage' \in [Store -> [Key -> Value]]
        /\ \A t \in Store, m \in Key :
             storage'[t][m] = IF t = home /\ m = key THEN Null ELSE storage[t][m]
        /\ \A t \in Store \ {home} : storage'[t] = storage[t]
    <2>1. Null \in Value
      BY DEF Value
    <2> QED
      BY <1>1, <1>3, <2>1
  <1>9. storage'[home]["state"] # s.code
    <2>1. CASE key = "state"
      BY <1>1, <1>2, <1>3, <1>8, <2>1, OptionsAssumption
    <2>2. CASE key # "state"
      <3>1. s.left # ClearOrder
        BY <1>3, <2>2
      <3>2. storage[home]["state"] # s.code
        BY <1>1, <1>2, <3>1 DEF SessionInv, Gone, IsGone
      <3> QED
        BY <1>1, <1>3, <1>8, <2>2, <3>2
    <2> QED
      BY <2>1, <2>2
  <1>10. Shape'
    <2>1. LandingShape(l, k)
      BY <1>1, <1>2, <1>3, <1>5, <1>7 DEF LandingShape
    <2>2. ASSUME NEW t \in Store
          PROVE  /\ storage'[t]["state"] \in Request \cup {Null}
                 /\ storage'[t]["state"] \in Request =>
                      store[storage'[t]["state"]] = t
      BY <1>3, <1>8, OptionsAssumption DEF SessionInv, Shape
    <2> QED
      BY <1>1, <1>6, <1>8, <2>1, <2>2 DEF SessionInv, Shape, LandingShape
  <1>11. Whole'
    <2>1. \A r \in Request, m \in Main : Of(r, m) => Of(r, m)'
      BY <1>1, <1>3, <1>8 DEF Of
    <2>2. ASSUME NEW r \in Request, store[r] \notin overlap
          PROVE  WrittenWhole(r)'
      <3>1. /\ HalfWritten(r)' <=> HalfWritten(r)
            /\ storage'[store[r]]["state"] = r => storage[store[r]]["state"] = r
        BY <1>1, <1>3, <1>8, OptionsAssumption DEF HalfWritten, HasWritten
      <3>2. WrittenWhole(r)
        BY <2>2 DEF SessionInv, Whole
      <3> QED
        BY <1>1, <2>1, <3>1, <3>2 DEF WrittenWhole
    <2>3. ASSUME NEW m \in Landing, store[m] \notin overlap
          PROVE  ReadsWhole(landing[m])' /\ HoldsWhole(landing[m])'
      <3>1. ReadsWhole(landing[m]) /\ HoldsWhole(landing[m])
        BY <2>3 DEF SessionInv, Whole
      <3>2. CASE m = l
        BY <1>2, <1>5, <1>6, <1>7, <3>1, <3>2 DEF ReadsWhole, HoldsWhole
      <3>3. CASE m # l
        BY <1>6, <2>1, <3>1, <3>3 DEF ReadsWhole, HoldsWhole
      <3> QED
        BY <3>2, <3>3
    <2> QED
      BY <1>1, <2>2, <2>3 DEF Whole
  <1>12. Gone'
    <2> SUFFICES ASSUME NEW m \in Landing
                 PROVE  IsGone(landing[m])'
      BY DEF Gone
    <2>1. CASE m = l
      BY <1>1, <1>2, <1>5, <1>6, <1>9, <2>1 DEF IsGone
    <2>2. CASE m # l
      <3>1. IsGone(landing[m]) /\ LandingShape(m, landing[m])
        BY DEF SessionInv, Shape, Gone
      <3>2. IsTaker(landing[m]) =>
              landing[m].code # Null /\ landing[m].code \in Request
        BY <3>1, OptionsAssumption DEF LandingShape
      <3> QED
        BY <1>1, <1>3, <1>6, <1>8, <2>2, <3>1, <3>2 DEF IsGone, IsTaker
    <2> QED
      BY <2>1, <2>2
  <1>13. Due'
    BY <1>1, <1>5, <1>6 DEF SessionInv, Due, RefusalDue
  <1>14. Kept'
    <2> SUFFICES /\ \A r \in Request : StorageKept(r)'
                 /\ \A m \in Landing : ReadsKept(m, landing[m])'
      BY <1>1 DEF Kept
    <2>1. HasWritten(s.code)
      BY <1>2, Written DEF SessionInv, IsFinished
    <2>2. ASSUME NEW r \in Request
          PROVE  OthersWrote(r)' <=> OthersWrote(r)
      BY <1>1 DEF OthersWrote, HasWritten
    <2>3. \A m \in Landing : IsTaker(landing[m]) =>
            IsTaker(landing'[m]) /\ landing'[m].code = landing[m].code
      BY <1>5, <1>6, <1>7
    \* Whatever landing l removes, it or its request is in the way of others
    \* in that storage.
    <2>4. ASSUME NEW r \in Request, store[r] = home
          PROVE  Contested(r)'
      <3>1. CASE r = s.code
        BY <1>5, <1>6, <1>7, <3>1 DEF Contested
      <3>2. CASE r # s.code
        BY <1>2, <2>1, <2>2, <2>4, <3>2 DEF Contested, OthersWrote
      <3> QED
        BY <3>1, <3>2
    <2>6. ASSUME NEW r \in Request
          PROVE  StorageKept(r)'
      <3>1. CASE store[r] = home
        BY <2>4, <3>1 DEF StorageKept
      <3>2. CASE store[r] # home
        <4>1. StorageKept(r) /\ (Contested(r) => Contested(r)')
          BY <1>1, <2>2, <2>3 DEF SessionInv, Kept, Contested
        <4>2. /\ storage'[store[r]] = storage[store[r]] /\ store' = store
              /\ HalfWritten(r)' <=> HalfWritten(r)
          BY <1>1, <1>8, <3>2 DEF HalfWritten, HasWritten
        <4> QED
          BY <1>1, <4>1, <4>2 DEF StorageKept
      <3> QED
        BY <3>1, <3>2
    <2>5. ASSUME NEW m \in Landing
          PROVE  ReadsKept(m, landing[m])'
      <3>1. CASE m = l
        BY <1>2, <1>5, <1>6, <3>1 DEF ReadsKept
      <3>2. CASE m # l
        <4>1. PICK t : t = landing'[m]
          OBVIOUS
        <4>2. ReadsKept(m, t)
          BY <1>6, <3>2, <4>1 DEF SessionInv, Kept
        <4>3. t.code \in Request /\ Rival(m, t.code) => Rival(m, t.code)'
          BY <1>1, <2>2, <2>3 DEF Rival
        <4>4. ReadsKept(m, t)'
          BY <4>2, <4>3 DEF ReadsKept
        <4> QED
          BY <4>1, <4>4 DEF ReadsKept
      <3> QED
        BY <3>1, <3>2
    <2> QED
      BY <2>5, <2>6
  <1> QED
    BY <1>10, <1>11, <1>12, <1>13, <1>14 DEF SessionInv

-----------------------------------------------------------------------------
(* The invariant holds of every behaviour.                                 *)

LEMMA SessionInit == Init => SessionInv
  <1> SUFFICES ASSUME Init PROVE SessionInv
    OBVIOUS
  <1>1. /\ NoHold \in [Key -> Value] /\ NoHold["state"] = Null
        /\ Null \notin Request /\ << >> \in Left
        /\ storage \in [Store -> [Key -> Value]]
        /\ \A s \in Store : storage[s]["state"] = Null
        /\ store \in [Request \cup Landing -> Store]
    BY OptionsAssumption DEF Init, NoHold, Value, Key, Left
  <1>2. Shape
    <2>1. /\ request \in [Request -> RequestState]
          /\ landing \in [Landing -> LandingState]
      BY <1>1 DEF Init, RequestState, LandingState
    <2>2. \A r \in Request : RequestShape(r, request[r])
      BY DEF Init, RequestShape, IsFinished
    <2>3. \A l \in Landing : LandingShape(l, landing[l])
      BY <1>1, OptionsAssumption
         DEF Init, LandingShape, IsTaker, IsAccepted
    <2> QED
      BY <1>1, <2>1, <2>2, <2>3 DEF Init, Shape
  <1>3. \A r \in Request : ~HalfWritten(r) /\ ~IsFinished(request[r])
    BY DEF Init, HalfWritten, HasWritten, IsFinished
  <1>4. Whole /\ Gone /\ Due /\ Kept
    <2>1. \A l \in Landing : landing[l].at = "new" /\ landing[l].error = "none"
      BY DEF Init
    <2> QED
      BY <1>3, <2>1 DEF Init, Whole, WrittenWhole, ReadsWhole, HoldsWhole,
           IsTaker, IsAccepted,
           Gone, IsGone, Due, RefusalDue, Kept, StorageKept, ReadsKept
  <1> QED
    BY <1>2, <1>4 DEF SessionInv

LEMMA SessionInvariance == Spec => []SessionInv
  <1>1. SessionInv /\ [Next]_vars => SessionInv'
    <2> SUFFICES ASSUME SessionInv, [Next]_vars
                 PROVE  SessionInv'
      OBVIOUS
    <2>1. ASSUME NEW s \in Store, Unload(s)
          PROVE  SessionInv'
      BY <2>1, UnloadKeeps
    <2>2. ASSUME NEW r \in Request,
                 \/ buildAuthorizeUrl(r) \/ persistAuthorizationRequest(r)
                 \/ PersistFails(r) \/ Consent(r)
          PROVE  SessionInv'
      BY <2>2, RequestsKeep, PersistKeeps
    <2>3. ASSUME NEW l \in Landing,
                 \/ handleCallback(l) \/ readAuthorizationRequest(l)
                 \/ ReadFails(l) \/ checkState(l)
                 \/ clearAuthorizationRequest(l) \/ ClearFails(l)
                 \/ exchangeCode(l)
          PROVE  SessionInv'
      BY <2>3, HandleCallbackKeeps, ReadKeeps, FailuresKeep, CheckKeeps,
         ClearKeeps, ExchangeKeeps
    <2>4. CASE UNCHANGED vars
      BY <2>4 DEF vars, SessionInv, Shape, LandingShape, Whole, WrittenWhole,
           HalfWritten,
           HasWritten, Of, ReadsWhole, HoldsWhole, Gone, IsGone, Due,
           RefusalDue, Kept, StorageKept, Contested, OthersWrote, ReadsKept,
           Rival
    <2> QED
      BY <2>1, <2>2, <2>3, <2>4 DEF Next
  <1> QED
    BY SessionInit, <1>1, PTL DEF Spec

-----------------------------------------------------------------------------
(* The theorems.                                                           *)

\* Whatever fails or is abandoned on the way, a callback that returns does so
\* with the verifier and redirect URI of the request the code belongs to, as
\* long as no request wrote while another wrote or a landing read.
THEOREM SerialCallbacksAreWhole == Spec => []SerialRequestsStayWhole
  <1>1. SessionInv => SerialRequestsStayWhole
    <2> SUFFICES ASSUME SessionInv, NEW l \in Landing,
                        store[l] \notin overlap, Accepted(l)
                 PROVE  /\ landing[l].code \in Request
                        /\ \A key \in Main :
                             landing[l].holds[key] = Stored(landing[l].code, key)
      BY DEF SerialRequestsStayWhole, Main
    <2>1. IsTaker(landing[l])
      BY DEF Accepted, IsTaker, IsAccepted
    <2>2. LandingShape(l, landing[l]) /\ HoldsWhole(landing[l])
      BY DEF SessionInv, Shape, Whole
    <2> QED
      BY <2>1, <2>2 DEF LandingShape, HoldsWhole
  <1> QED
    BY SessionInvariance, <1>1, PTL

\* An exchange is refused only for a code redeemed before, for a redirect URI
\* that was left to the default, or after overlapping requests.
THEOREM RefusalsHaveReasons == Spec => []RefusedForAReason
  <1>1. SessionInv => RefusedForAReason
    BY DEF SessionInv, Shape, LandingShape, IsTaker, IsAccepted, Due,
           RefusalDue, RefusedForAReason
  <1> QED
    BY SessionInvariance, <1>1, PTL

\* A landing of a granted request is turned away only in another storage than
\* its request's, after that storage was lost, or after another request wrote
\* there or another landing of it went on to clear it.
THEOREM LostLandingsHaveReasons == Spec => []LostForAReason
  <1>1. SessionInv => LostForAReason
    <2> SUFFICES ASSUME SessionInv, NEW l \in Landing,
                        landing[l].code \in Request,
                        landing[l].error \in {"missing_verifier",
                                              "state_mismatch"},
                        store[l] = store[landing[l].code],
                        landing[l].code \notin lost,
                        ~OthersWrote(landing[l].code)
                 PROVE  \E other \in Landing \ {l} :
                          /\ store[other] = store[l]
                          /\ landing[other].code = landing[l].code
                          /\ IsTaker(landing[other])
      BY DEF LostForAReason, OthersWrote, IsTaker, IsAccepted, Accepted
    <2>1. ReadsKept(l, landing[l])
      BY DEF SessionInv, Kept
    <2>2. PICK other \in Landing \ {l} :
            landing[other].code = landing[l].code /\ IsTaker(landing[other])
      BY <2>1 DEF ReadsKept, Rival
    <2>3. store[other] = store[l]
      BY <2>2 DEF SessionInv, Shape, LandingShape
    <2> QED
      BY <2>2, <2>3
  <1> QED
    BY SessionInvariance, <1>1, PTL

\* A request whose callback was returned is not found by a landing that reads
\* the storage afterwards.
THEOREM TakenRequestsStayTaken == Spec => LaterLandingsFindNothing
  <1>1. SessionInv /\ [Next]_vars =>
          [\A l, earlier \in Landing :
             /\ Accepted(earlier)
             /\ landing[l].holds["state"] # landing'[l].holds["state"]
             => landing'[l].holds["state"] # landing[earlier].code]_vars
    <2> SUFFICES ASSUME SessionInv, [Next]_vars,
                        NEW l \in Landing, NEW earlier \in Landing,
                        Accepted(earlier),
                        landing[l].holds["state"]
                          # landing'[l].holds["state"]
                 PROVE  landing'[l].holds["state"] # landing[earlier].code
      OBVIOUS
    <2>1. landing \in [Landing -> LandingState]
      BY DEF SessionInv, Shape
    \* Only a read changes the state that a landing holds.
    <2>2. readAuthorizationRequest(l)
      <3>1. \A m \in Landing : /\ "state" \in DOMAIN landing[m].holds
                               /\ landing[m].holds \in [Key -> Value]
        BY <2>1 DEF LandingState, Key
      <3>2. ASSUME NEW m \in Landing, NEW e, Throw(m, e)
            PROVE  FALSE
        BY <2>1, <3>2 DEF Throw, LandingState
      <3>3. ASSUME NEW m \in Landing, NEW code, Arrive(m, code)
            PROVE  FALSE
        BY <2>1, <3>3 DEF Arrive, LandingState
      <3>4. ASSUME NEW m \in Landing, Proceed(m)
            PROVE  FALSE
        BY <2>1, <3>1, <3>4 DEF Proceed, LandingState
      <3>5. landing' # landing
        OBVIOUS
      <3>6. ASSUME NEW s \in Store, Unload(s)
            PROVE  FALSE
        <4>1. landing[l] \in LandingState
          BY <2>1
        <4>2. landing'[l] = landing[l]
              \/ landing'[l] = [landing[l] EXCEPT !.at = "threw",
                                  !.error = "unloaded", !.left = << >>]
          BY <3>6 DEF Unload
        <4> QED
          BY <4>1, <4>2 DEF LandingState
      <3>7. ASSUME NEW m \in Landing
            PROVE  /\ ~handleCallback(m) /\ ~ReadFails(m)
                   /\ ~checkState(m) /\ ~ClearFails(m)
        BY <3>2, <3>3, <3>4
           DEF handleCallback, ReadFails, checkState, ClearFails
      <3>8. ASSUME NEW m \in Landing
            PROVE  ~clearAuthorizationRequest(m)
        BY <2>1 DEF clearAuthorizationRequest, LandingState
      <3>9. ASSUME NEW m \in Landing, exchangeCode(m)
            PROVE  FALSE
        <4>1. \E at, e : landing' = [landing EXCEPT ![m].at = at,
                                                   ![m].error = e]
          BY <3>9 DEF exchangeCode
        <4> QED
          BY <2>1, <4>1 DEF LandingState
      <3>10. ASSUME NEW m \in Landing, readAuthorizationRequest(m)
             PROVE  m = l
        BY <2>1, <3>2, <3>10 DEF readAuthorizationRequest, LandingState
      <3>11. ASSUME NEW r \in Request
             PROVE  /\ ~buildAuthorizeUrl(r)
                    /\ ~persistAuthorizationRequest(r)
                    /\ ~PersistFails(r) /\ ~Consent(r)
        BY <3>5 DEF buildAuthorizeUrl, persistAuthorizationRequest,
                    PersistFails, Consent
      <3> QED
        BY <3>5, <3>6, <3>7, <3>8, <3>9, <3>10, <3>11 DEF Next, vars
    <2>3. landing'[l].holds["state"] = storage[store[l]]["state"]
      BY <2>1, <2>2 DEF readAuthorizationRequest, Throw, LandingState, Key
    \* The code is nowhere: not in its own storage, and never in another.
    <2>4. storage[store[l]]["state"] # landing[earlier].code
      <3>1. /\ landing[earlier].code \in Request
            /\ storage[store[landing[earlier].code]]["state"]
                 # landing[earlier].code
        BY DEF SessionInv, Shape, LandingShape, Gone, IsGone, IsTaker,
               IsAccepted, Accepted
      <3>2. /\ store[l] \in Store
            /\ storage[store[l]]["state"] \in Request =>
                 store[storage[store[l]]["state"]] = store[l]
        BY DEF SessionInv, Shape
      <3> QED
        BY <3>1, <3>2
    <2> QED
      BY <2>3, <2>4
  <1> QED
    BY SessionInvariance, <1>1, PTL DEF Spec, LaterLandingsFindNothing
=============================================================================
