------------------------- MODULE CantonFetchProofs -------------------------
(***************************************************************************)
(* Proofs about CantonFetch, for all calls, retry settings and timeouts,   *)
(* whatever the network and the participant do.                            *)
(*                                                                         *)
(* The inductive invariant says, phase by phase, how many attempts have    *)
(* been sent and have failed (InStep), that every failure before the       *)
(* current attempt was a transient one (Swallowed), what a call that has   *)
(* ended ended with (Outcome), and how much of the waiting the attempts so *)
(* far account for (Waits).                                                *)
(***************************************************************************)
EXTENDS CantonFetch, SequenceTheorems, FiniteSetTheorems, TLAPS

-----------------------------------------------------------------------------
(* The inductive invariant.                                                *)

\* What n whole attempts and the backoffs after them may take.
Budget(n) == n * (effectiveTimeout + RequestTimeout)

InStep ==
  /\ phase = "ready" => Len(thrown) = attempt - 1 /\ Len(wire) = attempt - 1
  /\ phase \in {"sending", "reading"} =>
       Len(thrown) = attempt - 1 /\ Len(wire) = attempt
  /\ phase = "backoff" =>
       Len(thrown) = attempt /\ Len(wire) = attempt /\ attempt < maxAttempts
  /\ phase = "done" =>
       Len(thrown) \in {attempt - 1, attempt} /\ Len(wire) <= attempt

Swallowed ==
  \A i \in 1..Len(thrown) :
    i < attempt \/ phase = "backoff" => thrown[i] \in Transient

Outcome ==
  /\ phase # "done" => result = "none"
  /\ result \in ErrorCode =>
       /\ Len(thrown) = attempt
       /\ result = thrown[attempt]
       /\ result \in Transient => Len(wire) = maxAttempts

Waits ==
  /\ phase = "ready" => waited <= Budget(attempt - 1)
  /\ phase = "sending" =>
       age <= effectiveTimeout /\ waited <= Budget(attempt - 1) + age
  /\ phase \in {"reading", "done"} =>
       waited <= Budget(attempt - 1) + effectiveTimeout
  /\ phase = "backoff" => waited + pause <= Budget(attempt)

FetchInv ==
  /\ TypeOK
  /\ InStep
  /\ Swallowed
  /\ Outcome
  /\ Waits

-----------------------------------------------------------------------------
(* Numbers.                                                                *)

\* There are that many subsets of 1..n.
LEMMA PowerOfTwo ==
  ASSUME NEW n \in Nat
  PROVE  2^n \in Nat
  <1>1. IsFiniteSet(1..n) /\ Cardinality(1..n) = n
    BY FS_Interval
  <1>2. IsFiniteSet(SUBSET (1..n)) /\ Cardinality(SUBSET (1..n)) = 2^n
    BY <1>1, FS_SUBSET
  <1> QED
    BY <1>2, FS_CardinalityType

LEMMA CallBounds ==
  ASSUME call \in Call
  PROVE  /\ maxAttempts \in Nat /\ 1 <= maxAttempts
         /\ effectiveTimeout \in Nat /\ effectiveTimeout # 0
         /\ RequestTimeout \in Nat
  BY ConfigAssumption DEF maxAttempts, effectiveTimeout

LEMMA BackoffIsCapped ==
  ASSUME attempt \in Nat, attempt # 0
  PROVE  Backoff \in 0..RequestTimeout
  <1> DEFINE grown == RetryBaseDelay * 2^(attempt - 1)
  <1>1. 2^(attempt - 1) \in Nat
    BY PowerOfTwo
  <1>2. PICK power \in Nat : power = 2^(attempt - 1)
    BY <1>1
  <1>3. RetryBaseDelay * power \in Nat /\ RequestTimeout \in Nat
    BY ConfigAssumption
  <1>4. grown \in Nat
    BY <1>2, <1>3
  <1> HIDE DEF grown
  <1>5. (IF grown < RequestTimeout THEN grown ELSE RequestTimeout)
          \in 0..RequestTimeout
    BY <1>3, <1>4
  <1> QED
    BY <1>5 DEF Backoff, grown

LEMMA BudgetGrows ==
  ASSUME call \in Call, NEW n \in Nat
  PROVE  /\ Budget(n) \in Nat
         /\ Budget(n + 1) = Budget(n) + effectiveTimeout + RequestTimeout
         /\ Budget(n) = n * effectiveTimeout + n * RequestTimeout
         /\ Budget(0) = 0
  <1>1. PICK t \in Nat, r \in Nat : t = effectiveTimeout /\ r = RequestTimeout
    BY CallBounds
  <1>2. /\ n * (t + r) \in Nat
        /\ (n + 1) * (t + r) = n * (t + r) + t + r
        /\ n * (t + r) = n * t + n * r
        /\ 0 * (t + r) = 0
    OBVIOUS
  <1> QED
    BY <1>1, <1>2 DEF Budget

-----------------------------------------------------------------------------
(* Every step keeps the invariant.                                         *)

LEMMA FetchInitially == Init => FetchInv
  <1> SUFFICES ASSUME Init
               PROVE  FetchInv
    OBVIOUS
  <1>1. call \in Call /\ maxAttempts \in Nat /\ 1 <= maxAttempts
    BY CallBounds DEF Init
  <1>2. TypeOK
    BY <1>1, ConfigAssumption DEF Init, TypeOK, Status, ErrorCode
  <1>3. Waits
    BY <1>1, BudgetGrows DEF Init, Waits
  <1>4. InStep /\ Swallowed /\ Outcome
    BY DEF Init, InStep, Swallowed, Outcome, ErrorCode, Transient, Refusal
  <1> QED
    BY <1>2, <1>3, <1>4 DEF FetchInv

\* The bounds depend on the call alone.
LEMMA BoundsStay ==
  ASSUME call' = call
  PROVE  /\ maxAttempts' = maxAttempts
         /\ effectiveTimeout' = effectiveTimeout
         /\ \A n : Budget(n)' = Budget(n)
  BY DEF maxAttempts, retryMode, effectiveTimeout, Budget

LEMMA Numbers ==
  ASSUME FetchInv
  PROVE  /\ attempt \in Nat /\ attempt # 0 /\ attempt - 1 \in Nat
         /\ maxAttempts \in Nat /\ attempt <= maxAttempts
         /\ effectiveTimeout \in Nat /\ RequestTimeout \in Nat
         /\ age \in Nat /\ waited \in Nat /\ pause \in 0..RequestTimeout
         /\ Budget(attempt - 1) \in Nat
         /\ Budget(attempt) \in Nat
         /\ Budget(attempt)
              = Budget(attempt - 1) + effectiveTimeout + RequestTimeout
  <1>1. /\ attempt \in Nat /\ attempt # 0 /\ attempt - 1 \in Nat
        /\ maxAttempts \in Nat /\ attempt <= maxAttempts
        /\ effectiveTimeout \in Nat /\ RequestTimeout \in Nat
        /\ age \in Nat /\ waited \in Nat /\ pause \in 0..RequestTimeout
        /\ call \in Call
    BY CallBounds DEF FetchInv, TypeOK
  <1>2. PICK n \in Nat : n = attempt - 1
    BY <1>1
  <1>3. attempt = n + 1
    BY <1>1, <1>2
  <1>4. /\ Budget(n) \in Nat /\ Budget(n + 1) \in Nat
        /\ Budget(n + 1) = Budget(n) + effectiveTimeout + RequestTimeout
    BY <1>1, BudgetGrows
  <1> QED
    BY <1>1, <1>2, <1>3, <1>4

\* An attempt that fails, whether it was ever sent or not.
LEMMA ThrowKeepsInv ==
  ASSUME FetchInv, NEW code \in ErrorCode, Throw(code),
         phase \in {"ready", "sending", "reading"},
         phase = "ready" => code \notin Transient,
         UNCHANGED <<call, attempt, age, status, waited, wire>>
  PROVE  FetchInv'
  <1>1. /\ call \in Call /\ attempt \in 1..maxAttempts
        /\ maxAttempts \in Nat /\ attempt \in Nat /\ attempt # 0
        /\ effectiveTimeout \in Nat /\ RequestTimeout \in Nat
        /\ age \in Nat /\ pause \in Nat /\ waited \in Nat
        /\ thrown \in Seq(ErrorCode) /\ Len(thrown) = attempt - 1
        /\ Len(wire) \in Nat
    BY CallBounds, ConfigAssumption DEF FetchInv, TypeOK, InStep
  <1>2. /\ thrown' \in Seq(ErrorCode) /\ Len(thrown') = attempt
        /\ thrown'[attempt] = code
        /\ \A i \in 1..(attempt - 1) : thrown'[i] = thrown[i]
    <2>1. thrown' = Append(thrown, code)
      BY DEF Throw
    <2> QED
      BY <1>1, <2>1, AppendProperties
  <1>3. \/ /\ code \in Transient /\ attempt < maxAttempts
           /\ phase' = "backoff" /\ pause' = Backoff /\ result' = result
        \/ /\ code \in Transient => ~(attempt < maxAttempts)
           /\ phase' = "done" /\ result' = code /\ pause' = pause
    BY DEF Throw
  <1>4. pause' \in 0..RequestTimeout
    BY <1>1, <1>3, BackoffIsCapped DEF FetchInv, TypeOK
  <1>5. /\ maxAttempts' = maxAttempts
        /\ effectiveTimeout' = effectiveTimeout
        /\ Budget(attempt - 1)' = Budget(attempt - 1)
        /\ Budget(attempt)' = Budget(attempt)
    BY BoundsStay
  <1>6. TypeOK'
    BY <1>1, <1>2, <1>3, <1>4, <1>5 DEF FetchInv, TypeOK
  <1>7. InStep'
    BY <1>1, <1>2, <1>3, <1>5 DEF FetchInv, InStep
  <1>8. Swallowed'
    BY <1>1, <1>2, <1>3 DEF FetchInv, Swallowed
  <1>9. Outcome'
    BY <1>1, <1>2, <1>3, <1>5 DEF FetchInv, Outcome, InStep
  <1>10. Waits'
    <2>1. waited <= Budget(attempt - 1) + effectiveTimeout
      BY <1>1, Numbers DEF FetchInv, Waits
    <2> QED
      BY <1>1, <1>3, <1>4, <1>5, <2>1, Numbers DEF Waits
  <1> QED
    BY <1>6, <1>7, <1>8, <1>9, <1>10 DEF FetchInv

LEMMA SendKeepsInv ==
  ASSUME FetchInv, Send
  PROVE  FetchInv'
  <1>1. /\ attempt \in Nat /\ maxAttempts \in Nat /\ effectiveTimeout \in Nat
        /\ wire \in Seq({"sent", "applied", "refused", "duplicate"})
        /\ Len(wire) = attempt - 1 /\ waited \in Nat
        /\ attempt - 1 \in Nat /\ Budget(attempt - 1) \in Nat
    BY Numbers DEF FetchInv, TypeOK, InStep, Send
  <1>2. /\ wire' \in Seq({"sent", "applied", "refused", "duplicate"})
        /\ Len(wire') = attempt
    BY <1>1, AppendProperties DEF Send
  <1>3. /\ maxAttempts' = maxAttempts /\ effectiveTimeout' = effectiveTimeout
        /\ Budget(attempt - 1)' = Budget(attempt - 1)
    BY BoundsStay DEF Send
  <1>4. TypeOK'
    BY <1>1, <1>2, <1>3 DEF FetchInv, TypeOK, Send
  <1>5. InStep'
    BY <1>1, <1>2 DEF FetchInv, InStep, Send
  <1>6. Swallowed'
    BY DEF FetchInv, Swallowed, Send
  <1>7. Outcome'
    BY DEF FetchInv, Outcome, Send, ErrorCode, Transient, Refusal
  <1>8. Waits'
    BY <1>1, <1>3 DEF FetchInv, Waits, Send
  <1> QED
    BY <1>4, <1>5, <1>6, <1>7, <1>8 DEF FetchInv

LEMMA HeadersKeepInv ==
  ASSUME FetchInv, NEW s \in Status, HeadersArrive(s)
  PROVE  FetchInv'
  <1>1. /\ attempt \in Nat /\ effectiveTimeout \in Nat
        /\ age \in Nat /\ waited \in Nat
        /\ attempt - 1 \in Nat /\ Budget(attempt - 1) \in Nat
    BY Numbers
  <1>2. /\ maxAttempts' = maxAttempts /\ effectiveTimeout' = effectiveTimeout
        /\ Budget(attempt - 1)' = Budget(attempt - 1)
    BY BoundsStay DEF HeadersArrive
  <1>3. TypeOK'
    BY <1>2 DEF FetchInv, TypeOK, HeadersArrive
  <1>4. InStep' /\ Swallowed'
    BY DEF FetchInv, InStep, Swallowed, HeadersArrive
  <1>5. Outcome'
    BY DEF FetchInv, Outcome, HeadersArrive, ErrorCode, Transient, Refusal
  <1>6. Waits'
    BY <1>1, <1>2 DEF FetchInv, Waits, HeadersArrive
  <1> QED
    BY <1>3, <1>4, <1>5, <1>6 DEF FetchInv

LEMMA ValueKeepsInv ==
  ASSUME FetchInv, ValidBodyArrives
  PROVE  FetchInv'
  <1>1. attempt \in Nat
    BY CallBounds DEF FetchInv, TypeOK
  <1>2. /\ maxAttempts' = maxAttempts /\ effectiveTimeout' = effectiveTimeout
        /\ Budget(attempt - 1)' = Budget(attempt - 1)
    BY BoundsStay DEF ValidBodyArrives
  <1>3. TypeOK'
    BY <1>2 DEF FetchInv, TypeOK, ValidBodyArrives
  <1>4. InStep' /\ Swallowed'
    BY <1>1 DEF FetchInv, InStep, Swallowed, ValidBodyArrives
  <1>5. Outcome'
    BY DEF FetchInv, Outcome, ValidBodyArrives, ErrorCode, Transient, Refusal
  <1>6. Waits'
    BY <1>2 DEF FetchInv, Waits, ValidBodyArrives
  <1> QED
    BY <1>3, <1>4, <1>5, <1>6 DEF FetchInv

LEMMA NextAttemptKeepsInv ==
  ASSUME FetchInv, NextAttempt
  PROVE  FetchInv'
  <1>1. /\ attempt \in Nat /\ maxAttempts \in Nat /\ attempt < maxAttempts
        /\ waited \in Nat /\ pause = 0
        /\ Budget(attempt) \in Nat
        /\ Len(thrown) = attempt /\ Len(wire) = attempt
        /\ phase = "backoff" /\ phase' = "ready" /\ attempt' = attempt + 1
        /\ waited <= Budget(attempt)
    BY Numbers DEF FetchInv, TypeOK, InStep, Waits, NextAttempt
  <1>2. maxAttempts' = maxAttempts /\ effectiveTimeout' = effectiveTimeout
    BY BoundsStay DEF NextAttempt
  <1>3. TypeOK'
    BY <1>1, <1>2 DEF FetchInv, TypeOK, NextAttempt
  <1>4. InStep' /\ Swallowed'
    BY <1>1 DEF FetchInv, InStep, Swallowed, NextAttempt
  <1>5. Outcome'
    BY DEF FetchInv, Outcome, NextAttempt, ErrorCode, Transient, Refusal
  <1>6. Waits'
    <2>1. PICK n \in Nat : n = attempt
      BY <1>1
    <2>2. attempt' - 1 = n
      BY <1>1, <2>1
    <2>3. Budget(n)' = Budget(n)
      BY BoundsStay DEF NextAttempt
    <2>4. waited' <= Budget(n)'
      BY <1>1, <2>1, <2>3 DEF NextAttempt
    <2> QED
      BY <1>1, <2>2, <2>4 DEF Waits, NextAttempt, Budget
  <1> QED
    BY <1>3, <1>4, <1>5, <1>6 DEF FetchInv

LEMMA TickKeepsInv ==
  ASSUME FetchInv, Tick
  PROVE  FetchInv'
  <1>1. /\ attempt \in Nat /\ effectiveTimeout \in Nat /\ RequestTimeout \in Nat
        /\ age \in Nat /\ waited \in Nat /\ pause \in 0..RequestTimeout
        /\ attempt - 1 \in Nat /\ Budget(attempt - 1) \in Nat
        /\ Budget(attempt) \in Nat
    BY Numbers
  <1>2. /\ maxAttempts' = maxAttempts /\ effectiveTimeout' = effectiveTimeout
        /\ Budget(attempt - 1)' = Budget(attempt - 1)
        /\ Budget(attempt)' = Budget(attempt)
    BY BoundsStay DEF Tick
  <1>3. TypeOK'
    BY <1>1, <1>2 DEF FetchInv, TypeOK, Tick
  <1>4. InStep' /\ Swallowed'
    BY <1>2 DEF FetchInv, InStep, Swallowed, Tick
  <1>5. Outcome'
    BY <1>2 DEF FetchInv, Outcome, Tick
  <1>6. Waits'
    BY <1>1, <1>2 DEF FetchInv, Waits, Tick
  <1> QED
    BY <1>3, <1>4, <1>5, <1>6 DEF FetchInv

LEMMA ProcessKeepsInv ==
  ASSUME FetchInv, Participant
  PROVE  FetchInv'
  <1>1. PICK i \in DOMAIN wire, outcome \in {"applied", "refused", "duplicate"} :
          Process(i, outcome)
    BY DEF Participant
  <1>2. /\ wire' \in Seq({"sent", "applied", "refused", "duplicate"})
        /\ Len(wire') = Len(wire)
    BY <1>1 DEF FetchInv, TypeOK, Process
  <1>3. /\ maxAttempts' = maxAttempts /\ effectiveTimeout' = effectiveTimeout
        /\ Budget(attempt - 1)' = Budget(attempt - 1)
        /\ Budget(attempt)' = Budget(attempt)
    BY <1>1, BoundsStay DEF Process
  <1> QED
    BY <1>1, <1>2, <1>3
       DEF Process, FetchInv, TypeOK, InStep, Swallowed, Outcome, Waits

LEMMA ClientKeepsInv ==
  ASSUME FetchInv, Client
  PROVE  FetchInv'
  <1>1. ASSUME RejectBody
        PROVE  FetchInv'
    <2>1. PICK code \in {"invalid_command", "unexpected"} : Throw(code)
      BY <1>1 DEF RejectBody
    <2>2. code \in ErrorCode /\ code \notin Transient
      BY DEF ErrorCode, Refusal, Transient
    <2> QED
      BY <1>1, <2>1, <2>2, ThrowKeepsInv DEF RejectBody
  <1>2. ASSUME Abort \/ ConnectionFails
        PROVE  FetchInv'
    <2>1. PICK code \in {"request_timeout", "network_error"} : Throw(code)
      BY <1>2 DEF Abort, ConnectionFails
    <2>2. code \in ErrorCode
      BY DEF ErrorCode, Transient
    <2> QED
      BY <1>2, <2>1, <2>2, ThrowKeepsInv DEF Abort, ConnectionFails
  <1>3. ASSUME ErrorBodyArrives
        PROVE  FetchInv'
    <2>1. Throw(mapHttpError[status]) /\ status \in Status \ {"ok"}
      BY <1>3 DEF ErrorBodyArrives, FetchInv, TypeOK
    <2>2. mapHttpError[status] \in ErrorCode
      BY <2>1 DEF mapHttpError, Status, ErrorCode, Transient, Refusal
    <2>3. PICK code \in ErrorCode : Throw(code)
      BY <2>1, <2>2
    <2> QED
      BY <1>3, <2>3, ThrowKeepsInv DEF ErrorBodyArrives
  <1>4. ASSUME NEW code \in {"empty_response", "invalid_response"},
               UnusableBodyArrives(code)
        PROVE  FetchInv'
    <2>1. code \in ErrorCode
      BY DEF ErrorCode
    <2> QED
      BY <1>4, <2>1, ThrowKeepsInv DEF UnusableBodyArrives
  <1> QED
    BY <1>1, <1>2, <1>3, <1>4, SendKeepsInv, HeadersKeepInv, ValueKeepsInv,
       NextAttemptKeepsInv DEF Client, BodyEnds

LEMMA FetchInvariance == Spec => []FetchInv
  <1>1. FetchInv /\ [Next]_vars => FetchInv'
    <2> SUFFICES ASSUME FetchInv, [Next]_vars
                 PROVE  FetchInv'
      OBVIOUS
    <2>1. CASE UNCHANGED vars
      BY <2>1 DEF vars, FetchInv, TypeOK, InStep, Swallowed, Outcome, Waits,
                  maxAttempts, retryMode, effectiveTimeout, Budget
    <2> QED
      BY <2>1, ClientKeepsInv, TickKeepsInv, ProcessKeepsInv DEF Next, Returned
  <1> QED
    BY <1>1, FetchInitially, PTL DEF Spec

-----------------------------------------------------------------------------
(* Theorems about every call.                                              *)

\* The loop keeps its bounds, whatever they are: no more attempts than the
\* retry mode allows, no more requests than attempts, no backoff above its
\* ceiling.
THEOREM FetchTypeCorrect == Spec => []TypeOK
  BY FetchInvariance, PTL DEF FetchInv

\* A call that fails has a definite reason or has used up its attempts, and
\* swallowed nothing but transient errors.
THEOREM CallsGiveUpForAReason == Spec => []GivesUpForAReason
  <1>1. FetchInv => GivesUpForAReason
    <2> SUFFICES ASSUME FetchInv, result \in ErrorCode
                 PROVE  /\ result = thrown[Len(thrown)]
                        /\ \A i \in 1..(Len(thrown) - 1) : thrown[i] \in Transient
                        /\ result \in Transient => Len(wire) = maxAttempts
      BY DEF GivesUpForAReason
    <2>1. /\ Len(thrown) = attempt /\ result = thrown[attempt]
          /\ result \in Transient => Len(wire) = maxAttempts
      BY DEF FetchInv, Outcome
    <2>2. ASSUME NEW i \in 1..(Len(thrown) - 1)
          PROVE  thrown[i] \in Transient
      BY <2>1, Numbers DEF FetchInv, Swallowed
    <2> QED
      BY <2>1, <2>2
  <1> QED
    BY <1>1, FetchInvariance, PTL

\* The time a call waits for answers and backoffs is bounded by its attempts'
\* timeouts and a ceiling for each backoff, for all timeouts and delays.
THEOREM WaitsAreBounded == Spec => []TotalWaitIsBounded
  <1>1. FetchInv => TotalWaitIsBounded
    <2> SUFFICES ASSUME FetchInv
                 PROVE  waited <= attempt * effectiveTimeout
                                    + Len(thrown) * RequestTimeout
      BY DEF TotalWaitIsBounded
    <2>1. PICK n \in Nat, t \in Nat, r \in Nat :
            n = attempt - 1 /\ t = effectiveTimeout /\ r = RequestTimeout
      BY Numbers
    <2>2. /\ Budget(n) = n * t + n * r
          /\ Budget(n + 1) = Budget(n) + t + r
          /\ attempt = n + 1
      BY <2>1, Numbers, BudgetGrows DEF FetchInv, TypeOK
    <2>3. /\ (n + 1) * t = n * t + t /\ (n + 1) * r = n * r + r
          /\ n * t \in Nat /\ n * r \in Nat
      BY <2>1
    <2>4. Len(thrown) \in {n, n + 1} /\ (phase = "backoff" => Len(thrown) = n + 1)
      BY <2>1, <2>2 DEF FetchInv, InStep, TypeOK
    <2>5. /\ phase # "backoff" => waited <= n * t + n * r + t
          /\ phase = "backoff" => waited <= n * t + n * r + t + r
      <3>1. PICK b \in Nat : b = Budget(n) /\ Budget(attempt) = b + t + r
        BY <2>1, Numbers
      <3>2. /\ phase # "backoff" => waited <= b + t
            /\ phase = "backoff" => waited <= b + t + r
        BY <2>1, <3>1, Numbers DEF FetchInv, Waits, TypeOK
      <3> QED
        BY <2>2, <3>1, <3>2
    <2>6. waited \in Nat
      BY Numbers
    <2> DEFINE all == n * t + n * r + t
    <2>7. CASE Len(thrown) = n
      <3>1. attempt * effectiveTimeout + Len(thrown) * RequestTimeout = all
        BY <2>7, <2>1, <2>2, <2>3
      <3> QED
        BY <3>1, <2>4, <2>5, <2>7
    <2>8. CASE Len(thrown) = n + 1
      <3>1. attempt * effectiveTimeout + Len(thrown) * RequestTimeout = all + r
        BY <2>8, <2>1, <2>2, <2>3
      <3>2. waited <= all + r
        BY <2>1, <2>3, <2>5, <2>6
      <3> QED
        BY <3>1, <3>2
    <2> QED
      BY <2>4, <2>7, <2>8
  <1> QED
    BY <1>1, FetchInvariance, PTL

-----------------------------------------------------------------------------
(* A call that never retries implements Submission.                        *)

Outcomes == {"sent", "applied", "refused", "duplicate"}

IsApplied(w) == 1 \in DOMAIN w /\ w[1] = "applied"

\* A write is sent once at most, and whatever was heard of it is true.
SubmitInv ==
  Submits =>
    /\ 1 \in DOMAIN wire /\ wire[1] = "duplicate" => call.replays
    /\ phase = "reading" => Answers(status, wire[1])
    /\ result = "value" => IsApplied(wire)
    /\ result \in Refusal => wire = << >> \/ wire[1] = "refused"
    /\ result = "command_already_submitted" =>
         1 \in DOMAIN wire /\ wire[1] = "duplicate"

\* Among at most one request, at most one was applied.
LEMMA OneRequest ==
  ASSUME NEW w \in Seq(Outcomes), Len(w) <= 1
  PROVE  /\ IsApplied(w) =>
              Cardinality({i \in DOMAIN w : w[i] = "applied"}) = 1
         /\ ~IsApplied(w) =>
              Cardinality({i \in DOMAIN w : w[i] = "applied"}) = 0
  <1>1. DOMAIN w = 1..Len(w) /\ Len(w) \in Nat
    OBVIOUS
  <1>2. \A i \in DOMAIN w : i = 1
    BY <1>1
  <1>3. CASE IsApplied(w)
    <2>1. {i \in DOMAIN w : w[i] = "applied"} = {1}
      BY <1>2, <1>3 DEF IsApplied
    <2> QED
      BY <1>3, <2>1, FS_Singleton
  <1>4. CASE ~IsApplied(w)
    <2>1. {i \in DOMAIN w : w[i] = "applied"} = {}
      BY <1>2, <1>4 DEF IsApplied
    <2> QED
      BY <1>4, <2>1, FS_EmptySet
  <1> QED
    BY <1>3, <1>4

LEMMA SentOnce ==
  ASSUME FetchInv, Submits
  PROVE  /\ attempt = 1 /\ maxAttempts = 1
         /\ wire \in Seq(Outcomes) /\ Len(wire) <= 1
         /\ phase \in {"sending", "reading"} => Len(wire) = 1
         /\ phase = "ready" => wire = << >>
         /\ phase # "backoff"
  <1>1. maxAttempts = 1
    BY DEF Submits, maxAttempts
  <1>2. attempt = 1
    BY <1>1 DEF FetchInv, TypeOK
  <1> QED
    BY <1>1, <1>2 DEF FetchInv, TypeOK, InStep, Outcomes

\* The mapping, case by case.
LEMMA MapsTo ==
  /\ ~Submits => Effects = 0 /\ Answer = "pending"
  /\ Submits =>
       /\ phase # "done" => Answer = "pending"
       /\ phase = "done" =>
            /\ result = "value" => Answer = "done"
            /\ result \in Refusal => Answer = "refused"
            /\ result = "command_already_submitted" => Answer = "already"
            /\ result \notin Refusal \cup {"value", "command_already_submitted"}
                 => Answer = "unknown"
  <1>1. "value" \notin Refusal /\ "command_already_submitted" \notin Refusal
    BY DEF Refusal
  <1>2. /\ result = "value" => Told = "done"
        /\ result \in Refusal => Told = "refused"
        /\ result = "command_already_submitted" => Told = "already"
        /\ result \notin Refusal \cup {"value", "command_already_submitted"}
             => Told = "unknown"
    BY <1>1, Zenon DEF Told
  <1> QED
    BY <1>2 DEF Effects, Answer

LEMMA MapsToAfter ==
  /\ ~Submits' => Effects' = 0 /\ Answer' = "pending"
  /\ Submits' =>
       /\ phase' # "done" => Answer' = "pending"
       /\ phase' = "done" =>
            /\ result' = "value" => Answer' = "done"
            /\ result' \in Refusal => Answer' = "refused"
            /\ result' = "command_already_submitted" => Answer' = "already"
            /\ result' \notin Refusal \cup {"value", "command_already_submitted"}
                 => Answer' = "unknown"
  <1>1. "value" \notin Refusal /\ "command_already_submitted" \notin Refusal
    BY DEF Refusal
  <1>2. /\ result' = "value" => Told' = "done"
        /\ result' \in Refusal => Told' = "refused"
        /\ result' = "command_already_submitted" => Told' = "already"
        /\ result' \notin Refusal \cup {"value", "command_already_submitted"}
             => Told' = "unknown"
    BY <1>1, Zenon DEF Told
  <1> QED
    BY <1>2 DEF Effects, Answer

LEMMA EffectsCount ==
  ASSUME FetchInv, Submits
  PROVE  /\ IsApplied(wire) => Effects = 1
         /\ ~IsApplied(wire) => Effects = 0
  BY SentOnce, OneRequest DEF Effects

LEMMA EffectsCountAfter ==
  ASSUME Submits', wire' \in Seq(Outcomes), Len(wire') <= 1
  PROVE  /\ IsApplied(wire') => Effects' = 1
         /\ ~IsApplied(wire') => Effects' = 0
  <1>1. PICK w : w = wire'
    OBVIOUS
  <1>2. /\ IsApplied(w) =>
             Cardinality({i \in DOMAIN w : w[i] = "applied"}) = 1
        /\ ~IsApplied(w) =>
             Cardinality({i \in DOMAIN w : w[i] = "applied"}) = 0
    BY <1>1, OneRequest
  <1>3. Effects' = Cardinality({i \in DOMAIN w : w[i] = "applied"})
    BY <1>1 DEF Effects
  <1> QED
    BY <1>1, <1>2, <1>3

LEMMA EffectsStay ==
  ASSUME UNCHANGED <<call, wire>>
  PROVE  Effects' = Effects /\ Submits' = Submits
  BY DEF Effects, Submits, retryMode

Unheard == UNCHANGED <<call, Effects, Answer>>

Heard == Unheard \/ (call' = call /\ Submitted!Next)

\* An attempt of a write that fails ends the call, truthfully.
LEMMA FailureIsHeard ==
  ASSUME FetchInv, SubmitInv, Submits, NEW code \in ErrorCode, Throw(code),
         phase \in {"ready", "sending", "reading"},
         UNCHANGED <<call, attempt, age, status, waited, wire>>,
         code \in Refusal => wire = << >> \/ wire[1] = "refused",
         code = "command_already_submitted" =>
           1 \in DOMAIN wire /\ wire[1] = "duplicate"
  PROVE  SubmitInv' /\ Heard
  <1>1. phase' = "done" /\ result' = code
    BY SentOnce DEF Throw
  <1>2. Submits' /\ Effects' = Effects /\ code # "value"
    BY EffectsStay DEF ErrorCode, Transient, Refusal
  <1>3. SubmitInv'
    BY <1>1, <1>2 DEF SubmitInv
  <1>4. Answer = "pending"
    BY MapsTo
  <1>5. CASE code \in Refusal
    <2>1. Effects = 0
      <3>1. ~IsApplied(wire)
        BY <1>5 DEF IsApplied
      <3> QED
        BY <3>1, EffectsCount
    <2>2. Answer' = "refused"
      BY <1>1, <1>2, <1>5, MapsToAfter
    <2> QED
      BY <1>2, <1>3, <1>4, <2>1, <2>2
         DEF Heard, Submitted!Next, Submitted!Refused, Submitted!Answer
  <1>6. CASE code = "command_already_submitted"
    <2>1. Effects = 0 /\ call.replays
      BY <1>6, EffectsCount DEF IsApplied, SubmitInv
    <2>2. Answer' = "already"
      BY <1>1, <1>2, <1>6, MapsToAfter
    <2> QED
      BY <1>2, <1>3, <1>4, <2>1, <2>2
         DEF Heard, Submitted!Next, Submitted!Already, Submitted!Answer
  <1>7. CASE code \notin Refusal \cup {"command_already_submitted"}
    <2>1. Answer' = "unknown"
      BY <1>1, <1>2, <1>7, MapsToAfter
    <2> QED
      BY <1>2, <1>3, <1>4, <2>1
         DEF Heard, Submitted!Next, Submitted!Unknown, Submitted!Answer
  <1> QED
    BY <1>5, <1>6, <1>7

\* Codes that leave the outcome open, or that need nothing of the request.
LEMMA CodeKinds ==
  /\ Transient \cap Refusal = {}
  /\ {"empty_response", "invalid_response"} \cap Refusal = {}
  /\ "command_already_submitted" \notin Transient
  /\ Transient \subseteq ErrorCode /\ Refusal \subseteq ErrorCode
  /\ {"empty_response", "invalid_response"} \subseteq ErrorCode
  /\ {"invalid_command", "unexpected"} \subseteq Refusal
  /\ {"request_timeout", "network_error"} \subseteq Transient
  /\ "none" \notin ErrorCode
  /\ "value" \notin ErrorCode
  BY DEF Transient, Refusal, ErrorCode

\* A status line tells what became of the request unless it is a gateway's.
LEMMA StatusTells ==
  ASSUME NEW s \in Status \ {"ok"}, NEW request, Answers(s, request)
  PROVE  /\ mapHttpError[s] \in ErrorCode
         /\ mapHttpError[s] \in Refusal => request = "refused"
         /\ mapHttpError[s] = "command_already_submitted"
              => request = "duplicate"
  <1>1. CASE s = "401"
    BY <1>1 DEF mapHttpError, Status, ErrorCode, Refusal, Transient, Answers
  <1>2. CASE s = "403"
    BY <1>2 DEF mapHttpError, Status, ErrorCode, Refusal, Transient, Answers
  <1>3. CASE s = "404"
    BY <1>3 DEF mapHttpError, Status, ErrorCode, Refusal, Transient, Answers
  <1>4. CASE s = "conflict"
    BY <1>4 DEF mapHttpError, Status, ErrorCode, Refusal, Transient, Answers
  <1>5. CASE s = "duplicate"
    BY <1>5 DEF mapHttpError, Status, ErrorCode, Refusal, Transient, Answers
  <1>6. CASE s = "5xx"
    BY <1>6 DEF mapHttpError, Status, ErrorCode, Refusal, Transient, Answers
  <1>7. CASE s = "other"
    BY <1>7 DEF mapHttpError, Status, ErrorCode, Refusal, Transient, Answers
  <1> QED
    BY <1>1, <1>2, <1>3, <1>4, <1>5, <1>6, <1>7 DEF Status

LEMMA FailuresAreHeard ==
  ASSUME FetchInv, SubmitInv, Submits,
         \/ RejectBody
         \/ Abort
         \/ ConnectionFails
         \/ ErrorBodyArrives
         \/ \E code \in {"empty_response", "invalid_response"} :
               UnusableBodyArrives(code)
  PROVE  SubmitInv' /\ Heard
  <1>1. CASE RejectBody
    <2>1. PICK code \in {"invalid_command", "unexpected"} : Throw(code)
      BY <1>1 DEF RejectBody
    <2>2. /\ code \in ErrorCode /\ wire = << >>
          /\ code # "command_already_submitted" /\ phase = "ready"
      BY <1>1, CodeKinds, SentOnce DEF RejectBody
    <2> QED
      BY <1>1, <2>1, <2>2, FailureIsHeard DEF RejectBody
  <1>2. CASE Abort \/ ConnectionFails
    <2>1. PICK code \in {"request_timeout", "network_error"} : Throw(code)
      BY <1>2 DEF Abort, ConnectionFails
    <2>2. /\ code \in ErrorCode /\ code \notin Refusal
          /\ code # "command_already_submitted"
      BY CodeKinds
    <2> QED
      BY <1>2, <2>1, <2>2, FailureIsHeard DEF Abort, ConnectionFails
  <1>3. CASE ErrorBodyArrives
    <2>1. PICK code : code = mapHttpError[status]
      OBVIOUS
    <2>2. /\ Throw(code) /\ phase = "reading"
          /\ UNCHANGED <<call, attempt, age, status, waited, wire>>
      BY <1>3, <2>1 DEF ErrorBodyArrives
    <2>3. /\ status \in Status \ {"ok"} /\ Answers(status, wire[1])
          /\ 1 \in DOMAIN wire
      BY <1>3, SentOnce DEF ErrorBodyArrives, FetchInv, TypeOK, SubmitInv
    <2>4. /\ code \in ErrorCode
          /\ code \in Refusal => wire[1] = "refused"
          /\ code = "command_already_submitted" => wire[1] = "duplicate"
      BY <2>1, <2>3, StatusTells
    <2> QED
      BY <2>2, <2>3, <2>4, FailureIsHeard
  <1>4. ASSUME NEW code \in {"empty_response", "invalid_response"},
               UnusableBodyArrives(code)
        PROVE  SubmitInv' /\ Heard
    <2>1. /\ code \in ErrorCode /\ code \notin Refusal
          /\ code # "command_already_submitted"
      BY CodeKinds
    <2> QED
      BY <1>4, <2>1, FailureIsHeard DEF UnusableBodyArrives
  <1> QED
    BY <1>1, <1>2, <1>3, <1>4

LEMMA ValueIsHeard ==
  ASSUME FetchInv, SubmitInv, Submits, ValidBodyArrives
  PROVE  SubmitInv' /\ Heard
  <1>1. /\ phase = "reading" /\ status = "ok" /\ Len(wire) = 1
        /\ wire \in Seq(Outcomes) /\ Answers("ok", wire[1])
    BY SentOnce DEF ValidBodyArrives, SubmitInv
  <1>2. IsApplied(wire)
    BY <1>1 DEF Answers, IsApplied
  <1>3. /\ phase' = "done" /\ result' = "value" /\ wire' = wire /\ call' = call
        /\ Submits' /\ Effects' = Effects
    BY EffectsStay DEF ValidBodyArrives
  <1>4. SubmitInv'
    BY <1>1, <1>2, <1>3 DEF SubmitInv, Refusal, IsApplied
  <1>5. Effects = 1 /\ Answer = "pending" /\ Answer' = "done"
    BY <1>1, <1>2, <1>3, EffectsCount, MapsTo, MapsToAfter
  <1> QED
    BY <1>3, <1>4, <1>5
       DEF Heard, Submitted!Next, Submitted!Done, Submitted!Answer

LEMMA QuietSteps ==
  ASSUME FetchInv, SubmitInv, Submits,
         Send \/ (\E s \in Status : HeadersArrive(s)) \/ NextAttempt \/ Tick
  PROVE  SubmitInv' /\ Heard
  <1>1. /\ call' = call /\ Submits' /\ phase # "done" /\ phase' # "done"
        /\ result' = result
    BY EffectsStay
       DEF Send, HeadersArrive, NextAttempt, Tick, Submits, retryMode
  <1>2. result = "none"
    BY <1>1 DEF FetchInv, Outcome
  <1>3. Answer' = Answer
    BY <1>1, MapsTo, MapsToAfter
  <1>4. CASE Send
    <2>1. wire = << >> /\ wire' = Append(wire, "sent") /\ phase' = "sending"
      BY <1>4, SentOnce DEF Send
    <2>2. /\ wire' \in Seq(Outcomes) /\ Len(wire') = 1
          /\ wire'[1] = "sent"
      BY <2>1 DEF Outcomes
    <2>3. ~IsApplied(wire) /\ ~IsApplied(wire')
      BY <2>1, <2>2 DEF IsApplied
    <2>4. Effects = 0
      BY <2>3, EffectsCount
    <2>5. Effects' = 0
      BY <1>1, <2>2, <2>3, EffectsCountAfter
    <2>6. SubmitInv'
      BY <1>1, <1>2, <2>1, <2>2, CodeKinds DEF SubmitInv
    <2> QED
      BY <1>1, <1>3, <2>4, <2>5, <2>6 DEF Heard, Unheard
  <1>5. CASE NextAttempt
    BY <1>5, SentOnce DEF NextAttempt
  <1>6. ASSUME NEW s \in Status, HeadersArrive(s)
        PROVE  SubmitInv' /\ Heard
    <2>1. Answers(status', wire'[1]) /\ UNCHANGED <<call, wire>>
      BY <1>6, SentOnce DEF HeadersArrive
    <2>2. SubmitInv'
      BY <1>1, <1>2, <2>1, CodeKinds DEF SubmitInv
    <2> QED
      BY <1>3, <2>1, <2>2, EffectsStay DEF Heard, Unheard
  <1>7. CASE Tick
    <2>1. UNCHANGED <<call, wire, phase, status, result>>
      BY <1>7 DEF Tick
    <2>2. SubmitInv'
      BY <1>1, <2>1 DEF SubmitInv
    <2> QED
      BY <1>3, <2>1, <2>2, EffectsStay DEF Heard, Unheard
  <1> QED
    BY <1>4, <1>5, <1>6, <1>7

LEMMA ProcessIsHeard ==
  ASSUME FetchInv, SubmitInv, Submits, Participant
  PROVE  SubmitInv' /\ Heard
  <1>1. PICK i \in DOMAIN wire, outcome \in {"applied", "refused", "duplicate"} :
          Process(i, outcome)
    BY DEF Participant
  <1>2. /\ wire \in Seq(Outcomes) /\ Len(wire) = 1 /\ i = 1 /\ wire[1] = "sent"
        /\ wire' \in Seq(Outcomes) /\ Len(wire') = 1 /\ wire'[1] = outcome
        /\ DOMAIN wire = {1} /\ DOMAIN wire' = {1}
    <2>1. wire \in Seq(Outcomes) /\ Len(wire) <= 1
      BY SentOnce
    <2>2. DOMAIN wire = 1..Len(wire) /\ Len(wire) \in Nat
      BY <2>1
    <2>3. Len(wire) = 1 /\ i = 1
      BY <1>1, <2>1, <2>2
    <2>4. wire' = [wire EXCEPT ![1] = outcome] /\ wire[1] = "sent"
      BY <1>1, <2>3 DEF Process
    <2>5. DOMAIN wire = {1} /\ outcome \in Outcomes
      BY <2>2, <2>3 DEF Outcomes
    <2>6. wire' \in Seq(Outcomes) /\ Len(wire') = 1 /\ wire'[1] = outcome
      BY <2>1, <2>3, <2>4, <2>5
    <2>7. DOMAIN wire' = {1}
      BY <2>4, <2>5
    <2> QED
      BY <2>1, <2>3, <2>4, <2>5, <2>6, <2>7
  <1>3. /\ UNCHANGED <<call, phase, status, result>>
        /\ outcome = "duplicate" => call.replays
    BY <1>1, <1>2 DEF Process, KnownCommand
  <1>4. /\ Submits' /\ Answer' = Answer
    BY <1>3 DEF Submits, retryMode, Answer, Told
  \* Nothing definite has been heard of a request that is still under way.
  <1>5. /\ result # "value" /\ result \notin Refusal
        /\ result # "command_already_submitted"
        /\ phase = "reading" => status \in {"5xx", "other"}
    BY <1>2 DEF SubmitInv, IsApplied, Answers, FetchInv, TypeOK, Status
  <1>6. SubmitInv'
    BY <1>2, <1>3, <1>4, <1>5 DEF SubmitInv, Answers
  <1>7. Effects = 0
    BY <1>2, EffectsCount DEF IsApplied
  <1>8. CASE outcome = "applied"
    <2>1. Effects' = 1
      BY <1>2, <1>4, <1>8, EffectsCountAfter DEF IsApplied
    <2>2. Answer \in {"pending", "unknown"}
      BY <1>5, MapsTo
    <2> QED
      BY <1>3, <1>4, <1>6, <1>7, <2>1, <2>2
         DEF Heard, Submitted!Next, Submitted!TakeEffect
  <1>9. CASE outcome # "applied"
    <2>1. Effects' = 0
      BY <1>2, <1>4, <1>9, EffectsCountAfter DEF IsApplied
    <2> QED
      BY <1>3, <1>4, <1>6, <1>7, <2>1 DEF Heard, Unheard
  <1> QED
    BY <1>8, <1>9

LEMMA SubmissionStep ==
  ASSUME FetchInv, SubmitInv, [Next]_vars
  PROVE  SubmitInv' /\ Heard
  <1>1. CASE ~Submits
    <2>1. call' = call
      BY DEF Next, Client, RejectBody, Send, Abort, ConnectionFails,
             HeadersArrive, BodyEnds, ErrorBodyArrives, UnusableBodyArrives,
             ValidBodyArrives, NextAttempt, Tick, Participant, Process,
             Returned, vars
    <2>2. ~Submits'
      BY <1>1, <2>1 DEF Submits, retryMode
    <2>3. Effects' = Effects /\ Answer' = Answer
      BY <1>1, <2>2, MapsTo, MapsToAfter
    <2> QED
      BY <2>1, <2>2, <2>3 DEF Heard, Unheard, SubmitInv
  <1>2. CASE Submits /\ UNCHANGED vars
    <2>1. UNCHANGED <<call, wire, phase, status, result>>
      BY <1>2 DEF vars
    <2> QED
      BY <2>1 DEF Heard, Unheard, SubmitInv, Effects, Answer, Told, Submits,
                  retryMode
  <1>3. CASE Submits /\ Client
    BY <1>3, FailuresAreHeard, ValueIsHeard, QuietSteps DEF Client, BodyEnds
  <1>4. CASE Submits /\ (Tick \/ Participant)
    BY <1>4, QuietSteps, ProcessIsHeard
  <1> QED
    BY <1>1, <1>2, <1>3, <1>4 DEF Next, Returned

\* A write takes effect at most once, whenever the participant gets to it, and
\* a caller who is told that it succeeded, was refused or was known already is
\* told the truth, for good.
THEOREM WritesAreSubmissions == Spec => ImplementsSubmission
  <1>1. Init => SubmitInv /\ Submitted!Init
    <2> SUFFICES ASSUME Init
                 PROVE  SubmitInv /\ Submitted!Init
      OBVIOUS
    <2>1. /\ wire = << >> /\ phase = "ready" /\ result = "none"
          /\ call.replays \in BOOLEAN
      BY CallAssumption DEF Init
    <2>2. Effects = 0
      <3>1. CASE Submits
        <4>1. ~IsApplied(wire)
          BY <2>1 DEF IsApplied
        <4> QED
          BY <3>1, <4>1, FetchInitially, EffectsCount
      <3>2. CASE ~Submits
        BY <3>2, MapsTo
      <3> QED
        BY <3>1, <3>2
    <2>3. Answer = "pending"
      BY <2>1, MapsTo
    <2>4. SubmitInv
      BY <2>1, CodeKinds DEF SubmitInv
    <2> QED
      BY <2>1, <2>2, <2>3, <2>4 DEF Submitted!Init
  <1>2. FetchInv /\ SubmitInv /\ [Next]_vars
          => SubmitInv' /\ [Submitted!Next]_<<call.replays, Effects, Answer>>
    <2> SUFFICES ASSUME FetchInv, SubmitInv, [Next]_vars
                 PROVE  /\ SubmitInv'
                        /\ [Submitted!Next]_<<call.replays, Effects, Answer>>
      OBVIOUS
    <2>1. SubmitInv' /\ Heard
      BY SubmissionStep
    <2> QED
      BY <2>1 DEF Heard, Unheard
  <1> QED
    BY <1>1, <1>2, FetchInvariance, PTL
       DEF Spec, Submitted!Spec, ImplementsSubmission

=============================================================================
