--------------------------- MODULE MCOAuthSession ---------------------------
(***************************************************************************)
(* Two requests of one client, with and without a nonce and a redirect URI *)
(* of their own, and two landings: all with one storage of the firm's own, *)
(* or spread over two tabs in every way.                                   *)
(***************************************************************************)
EXTENDS OAuthSession, TLC

CONSTANTS r1, r2, home, settings, l1, l2, tab, otherTab, custom

MCRequest == {r1, r2}
MCLanding == {l1, l2}
MCPage == {home, settings}
MCStore == {tab, otherTab, custom}
MCLasting == {custom}

Call == MCRequest \cup MCLanding

MCPlacement ==
  {[c \in Call |-> custom]} \cup {p \in [Call -> {tab, otherTab}] : p[r1] = tab}

MCOptions ==
  r1 :> [scope |-> {"openid", "kyc"}, nonce |-> FALSE, redirectUri |-> settings]
  @@ r2 :> [scope |-> {"kyc"}, nonce |-> FALSE, redirectUri |-> home]

Landings == Permutations(MCLanding)
=============================================================================
