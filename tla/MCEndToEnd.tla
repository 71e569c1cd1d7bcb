----------------------------- MODULE MCEndToEnd -----------------------------
(***************************************************************************)
(* Two runs of any of the scripts, each with an issuer and holder of its   *)
(* own.                                                                    *)
(***************************************************************************)
EXTENDS EndToEnd

CONSTANTS issuer1, holder1, issuer2, holder2, noClaims

MCScopeOf ==
  <<[admin |-> issuer1, issuer |-> issuer1, holder |-> holder1],
    [admin |-> issuer2, issuer |-> issuer2, holder |-> holder2]>>

MCScope == {MCScopeOf[r] : r \in 1..2}

MCClaimMap ==
  [subject : {"A", "B", "C", "D"}, humanScore : {95, 99}] \cup {noClaims}

MCExpiry == 0..MaxClock
=============================================================================
