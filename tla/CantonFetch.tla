---------------------------- MODULE CantonFetch ----------------------------
(***************************************************************************)
(* One call of cantonFetch (packages/core/src/http.ts): attempts, the      *)
(* abort timer of an attempt, the mapping of failures to error codes, and  *)
(* the retry loop with its backoff.                                        *)
(*                                                                         *)
(* The other side is external: a network that loses and delays, and a      *)
(* participant that may process a request at any time after it was sent,   *)
(* also when the client has given up on it, and that recognises a command  *)
(* id it has seen within its deduplication window.                         *)
(*                                                                         *)
(* Time is discrete.  A timer that is due is handled before time goes on.  *)
(***************************************************************************)
EXTENDS Naturals, Sequences, FiniteSets

CONSTANTS
  Call,            \* the calls made: how, and with which retry option
  MaxRetries,      \* CantonConfig.maxRetries
  RequestTimeout,  \* CantonConfig.requestTimeoutMs, in ticks
  SubmitTimeout,   \* CantonConfig.submitTimeoutMs
  RetryBaseDelay,  \* CantonConfig.retryBaseDelayMs
  MaxWait          \* bound on the ticks a body is waited for

ASSUME CallAssumption ==
  Call \subseteq [method : {"GET", "POST"},
                  retry : {"auto", "never", "unset"},
                  submits : BOOLEAN,    \* the path is a submit-and-wait
                  body : {"fits", "oversized", "unserializable"},
                  replays : BOOLEAN]    \* the command id was used before

ASSUME ConfigAssumption ==
  /\ MaxRetries \in Nat /\ RetryBaseDelay \in Nat /\ MaxWait \in Nat
  /\ RequestTimeout \in Nat \ {0} /\ SubmitTimeout \in Nat \ {0}

VARIABLES
  call,     \* the options of the call
  attempt,  \* the number of the current attempt
  phase,    \* what the client awaits
  age,      \* ticks since the current attempt was sent
  pause,    \* ticks left of the backoff
  status,   \* the status line of the response being read
  thrown,   \* history: the error codes of the failed attempts
  result,   \* how the call ended
  waited,   \* history: ticks waited for an answer or a backoff
  wire      \* what became of the request of each attempt

vars == <<call, attempt, phase, age, pause, status, thrown, result, waited,
          wire>>

-----------------------------------------------------------------------------
\* Status lines, as far as mapHttpError tells them apart: "duplicate" is a
\* 409 or 422 whose body names DUPLICATE_COMMAND, "conflict" any other one,
\* "other" every failure without a code of its own.
Status == {"ok", "401", "403", "404", "conflict", "duplicate", "5xx", "other"}

mapHttpError ==
  [s \in Status \ {"ok"} |->
     CASE s = "401" -> "unauthorized"
       [] s = "403" -> "forbidden"
       [] s = "404" -> "not_found"
       [] s = "duplicate" -> "command_already_submitted"
       [] s = "conflict" -> "submit_failed"
       [] s = "5xx" -> "service_unavailable"
       [] s = "other" -> "http_error"]

Transient == {"network_error", "request_timeout", "service_unavailable"}

Refusal ==
  {"unauthorized", "forbidden", "not_found", "submit_failed",
   "invalid_command", "unexpected"}

ErrorCode ==
  Transient \cup Refusal
    \cup {"command_already_submitted", "http_error", "empty_response",
          "invalid_response"}

retryMode ==
  IF call.retry # "unset" THEN call.retry
  ELSE IF call.method = "GET" THEN "auto" ELSE "never"

maxAttempts == IF retryMode = "auto" THEN MaxRetries + 1 ELSE 1

effectiveTimeout == IF call.submits THEN SubmitTimeout ELSE RequestTimeout

\* Mutant: exponential growth without the ceiling.
Backoff_NoCeiling == RetryBaseDelay * 2^(attempt - 1)

Backoff ==
  LET grown == RetryBaseDelay * 2^(attempt - 1)
  IN IF grown < RequestTimeout THEN grown ELSE RequestTimeout

Init ==
  /\ call \in Call
  /\ attempt = 1
  /\ phase = "ready"
  /\ age = 0
  /\ pause = 0
  /\ status = "ok"
  /\ thrown = << >>
  /\ result = "none"
  /\ waited = 0
  /\ wire = << >>

-----------------------------------------------------------------------------
(* The client.                                                             *)

\* Mutant: every transient error is retried, whatever the retry mode.
Throw_RetryWrites(code) ==
  /\ thrown' = Append(thrown, code)
  /\ IF code \in Transient /\ attempt <= MaxRetries
     THEN phase' = "backoff" /\ pause' = Backoff /\ UNCHANGED result
     ELSE phase' = "done" /\ result' = code /\ UNCHANGED pause

\* Mutant: any error is retried while attempts are left.
Throw_RetryAll(code) ==
  /\ thrown' = Append(thrown, code)
  /\ IF attempt < maxAttempts
     THEN phase' = "backoff" /\ pause' = Backoff /\ UNCHANGED result
     ELSE phase' = "done" /\ result' = code /\ UNCHANGED pause

\* An attempt ends in an error: retry after a backoff, or rethrow.
Throw(code) ==
  /\ thrown' = Append(thrown, code)
  /\ IF code \in Transient /\ attempt < maxAttempts
     THEN phase' = "backoff" /\ pause' = Backoff /\ UNCHANGED result
     ELSE phase' = "done" /\ result' = code /\ UNCHANGED pause

\* encodeBody rejects the body before anything is sent; what it throws
\* itself is wrapped as "unexpected".
RejectBody ==
  /\ phase = "ready"
  /\ call.body # "fits"
  /\ Throw(IF call.body = "oversized" THEN "invalid_command"
           ELSE "unexpected")
  /\ UNCHANGED <<call, attempt, age, status, waited, wire>>

Send ==
  /\ phase = "ready"
  /\ call.body = "fits"
  /\ phase' = "sending"
  /\ age' = 0
  /\ wire' = Append(wire, "sent")
  /\ UNCHANGED <<call, attempt, pause, status, thrown, result, waited>>

\* Mutant: only the first attempt gets an abort timer.
Abort_FirstOnly ==
  /\ phase = "sending"
  /\ attempt = 1
  /\ age = effectiveTimeout
  /\ Throw("request_timeout")
  /\ UNCHANGED <<call, attempt, age, status, waited, wire>>

\* The abort timer of the attempt; it is cleared when the headers arrive.
Abort ==
  /\ phase = "sending"
  /\ age = effectiveTimeout
  /\ Throw("request_timeout")
  /\ UNCHANGED <<call, attempt, age, status, waited, wire>>

ConnectionFails ==
  /\ phase \in {"sending", "reading"}
  /\ Throw("network_error")
  /\ UNCHANGED <<call, attempt, age, status, waited, wire>>

\* The status lines the participant, or a gateway in front of it, can
\* answer with when this is what became of the request.
Answers(s, request) ==
  CASE s = "ok" -> request = "applied"
    [] s = "duplicate" -> request = "duplicate"
    [] s \in {"5xx", "other"} -> TRUE
    [] OTHER -> request = "refused"

HeadersArrive(s) ==
  /\ phase = "sending"
  /\ Answers(s, wire[attempt])
  /\ status' = s
  /\ phase' = "reading"
  /\ UNCHANGED <<call, attempt, age, pause, thrown, result, waited, wire>>

ErrorBodyArrives ==
  /\ phase = "reading"
  /\ status # "ok"
  /\ Throw(mapHttpError[status])
  /\ UNCHANGED <<call, attempt, age, status, waited, wire>>

\* A 2xx body may be empty, not JSON, or not what the schema expects.
UnusableBodyArrives(code) ==
  /\ phase = "reading"
  /\ status = "ok"
  /\ Throw(code)
  /\ UNCHANGED <<call, attempt, age, status, waited, wire>>

ValidBodyArrives ==
  /\ phase = "reading"
  /\ status = "ok"
  /\ phase' = "done"
  /\ result' = "value"
  /\ UNCHANGED <<call, attempt, age, pause, status, thrown, waited, wire>>

BodyEnds ==
  \/ ErrorBodyArrives
  \/ \E code \in {"empty_response", "invalid_response"} :
        UnusableBodyArrives(code)
  \/ ValidBodyArrives

NextAttempt ==
  /\ phase = "backoff"
  /\ pause = 0
  /\ attempt' = attempt + 1
  /\ phase' = "ready"
  /\ UNCHANGED <<call, age, pause, status, thrown, result, waited, wire>>

-----------------------------------------------------------------------------
(* The environment.                                                        *)

\* No timer runs while a body is read.
Tick ==
  /\ \/ phase = "sending" /\ age < effectiveTimeout
     \/ phase = "reading" /\ age < MaxWait
     \/ phase = "backoff" /\ pause > 0
  /\ IF phase = "backoff"
     THEN pause' = pause - 1 /\ UNCHANGED age
     ELSE age' = age + 1 /\ UNCHANGED pause
  /\ waited' = IF phase = "reading" THEN waited ELSE waited + 1
  /\ UNCHANGED <<call, attempt, phase, status, thrown, result, wire>>

\* Attempts of one call send the same body, so the same command id.
KnownCommand(i) ==
  call.replays \/ \E j \in DOMAIN wire \ {i} : wire[j] = "applied"

\* The participant need not recognise a command id: its window is finite.
Process(i, outcome) ==
  /\ wire[i] = "sent"
  /\ outcome = "duplicate" => KnownCommand(i)
  /\ wire' = [wire EXCEPT ![i] = outcome]
  /\ UNCHANGED <<call, attempt, phase, age, pause, status, thrown, result,
                 waited>>

Participant ==
  \E i \in DOMAIN wire, outcome \in {"applied", "refused", "duplicate"} :
    Process(i, outcome)

Client ==
  \/ RejectBody
  \/ Send
  \/ Abort
  \/ ConnectionFails
  \/ \E s \in Status : HeadersArrive(s)
  \/ BodyEnds
  \/ NextAttempt

\* A call that is over stays as it is.
Returned == phase = "done" /\ UNCHANGED vars

Next == Client \/ Tick \/ Participant \/ Returned

Spec == Init /\ [][Next]_vars

\* Time passes, timers that are due are served, and the participant sends
\* or drops the body of a response it has begun.  Nothing makes it begin.
LiveSpec ==
  /\ Spec
  /\ WF_vars(Tick)
  /\ WF_vars(RejectBody \/ Send \/ Abort \/ NextAttempt)
  /\ WF_vars(BodyEnds)

-----------------------------------------------------------------------------
(* Properties.                                                             *)

\* Types, and the bounds of the loop: no more attempts than the retry mode
\* allows, one request for each attempt at most.
TypeOK ==
  /\ call \in Call
  /\ attempt \in 1..maxAttempts
  /\ phase \in {"ready", "sending", "reading", "backoff", "done"}
  /\ age \in Nat /\ pause \in 0..RequestTimeout /\ waited \in Nat
  /\ status \in Status
  /\ thrown \in Seq(ErrorCode) /\ Len(thrown) <= attempt
  /\ result \in {"none", "value"} \cup ErrorCode
  /\ wire \in Seq({"sent", "applied", "refused", "duplicate"})
  /\ Len(wire) <= attempt

\* A call fails only for a definite reason or with its attempts used up, and
\* what it swallowed on the way were transient errors: a refusal is neither
\* repeated nor replaced by a later error.
GivesUpForAReason ==
  result \in ErrorCode =>
    /\ result = thrown[Len(thrown)]
    /\ \A i \in 1..(Len(thrown) - 1) : thrown[i] \in Transient
    /\ result \in Transient => Len(wire) = maxAttempts

\* Nothing but the body of a response keeps a caller waiting for longer than
\* the timeouts of its attempts and a ceiling for each backoff between them.
\* (There is no timeout around the whole call.)
TotalWaitIsBounded ==
  waited <= attempt * effectiveTimeout + Len(thrown) * RequestTimeout

\* Every call returns, whatever the participant never answers.
CallReturns == <>(phase = "done")

-----------------------------------------------------------------------------
(* A call that never retries is a submission.  One that may retry, a read,  *)
(* maps to a submission that is never made.                                *)

Submits == retryMode = "never"

Effects ==
  IF Submits THEN Cardinality({i \in DOMAIN wire : wire[i] = "applied"})
  ELSE 0

\* What the result tells of the write.
Told ==
  CASE result = "value" -> "done"
    [] result \in Refusal -> "refused"
    [] result = "command_already_submitted" -> "already"
    [] OTHER -> "unknown"

Answer == IF Submits /\ phase = "done" THEN Told ELSE "pending"

Submitted == INSTANCE Submission
  WITH replayed <- call.replays, effects <- Effects, answer <- Answer

\* A write (the calls of ledger.ts all say retry: 'never') takes effect at
\* most once; success, refusal and "already submitted" are what they say,
\* and only the codes that leave the outcome open leave it open.
ImplementsSubmission == Submitted!Spec
=============================================================================
