--------------------------- MODULE MCCantonFetch ---------------------------
(***************************************************************************)
(* The calls the SDK makes: reads that retry (GET, and the POST queries of *)
(* query.ts marked 'auto'), allocateParty and the submissions of           *)
(* ledger.ts, which never do.                                              *)
(***************************************************************************)
EXTENDS CantonFetch

Calls(method, retries, submits, bodies, replays) ==
  [method : {method}, retry : retries, submits : submits, body : bodies,
   replays : replays]

Bodies == {"fits", "oversized", "unserializable"}

MCReads ==
  Calls("GET", {"unset"}, {FALSE}, {"fits"}, {FALSE})
    \cup Calls("POST", {"auto"}, {FALSE}, Bodies, {FALSE})

MCWrites == Calls("POST", {"never", "unset"}, BOOLEAN, Bodies, BOOLEAN)

MCCalls == MCReads \cup MCWrites
=============================================================================
