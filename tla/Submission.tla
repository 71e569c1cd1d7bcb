----------------------------- MODULE Submission -----------------------------
(***************************************************************************)
(* What a caller of a ledger write may rely on, whatever the network does: *)
(* the command takes effect at most once, success is only reported of a    *)
(* command that did, and a refusal only of one that did not and never      *)
(* will.  Every other failure leaves the outcome open, and the command may *)
(* still take effect after the caller was told.                            *)
(***************************************************************************)
EXTENDS Naturals

VARIABLES
  replayed,  \* an earlier call has submitted the same command id
  effects,   \* how often this call's command took effect
  answer     \* what the caller was told

Init ==
  /\ replayed \in BOOLEAN
  /\ effects = 0
  /\ answer = "pending"

TakeEffect ==
  /\ effects = 0
  /\ answer \in {"pending", "unknown"}
  /\ effects' = 1
  /\ UNCHANGED <<replayed, answer>>

Answer(a) ==
  /\ answer = "pending"
  /\ answer' = a
  /\ UNCHANGED <<replayed, effects>>

Done == effects = 1 /\ Answer("done")

Refused == effects = 0 /\ Answer("refused")

\* The participant has seen the command id before, and not from this call.
Already == effects = 0 /\ replayed /\ Answer("already")

Unknown == Answer("unknown")

Next == TakeEffect \/ Done \/ Refused \/ Already \/ Unknown

Spec == Init /\ [][Next]_<<replayed, effects, answer>>
=============================================================================
