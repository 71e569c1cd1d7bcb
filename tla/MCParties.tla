----------------------------- MODULE MCParties -----------------------------
(***************************************************************************)
(* Constants for model-checking Parties.                                   *)
(***************************************************************************)
EXTENDS Parties, TLC

\* Once all configurations are loaded, the environment and the singletons
\* have no part in any further call.
PartiesView ==
  <<configs, namespaceCache, hosted, call,
    IF Len(configs) < MaxConfigs THEN <<env, refused, cached>> ELSE << >> >>

PartiesSymmetry == Permutations(Participant) \cup Permutations(Call)
=============================================================================
