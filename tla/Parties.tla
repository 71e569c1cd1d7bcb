------------------------------ MODULE Parties ------------------------------
(***************************************************************************)
(* packages/core before the first command: the configuration read from the *)
(* environment, the clients of one process, the namespace each finds out   *)
(* once, and the parties it looks up and allocates.                        *)
(*                                                                         *)
(* A configuration is an object of its own, numbered as it is loaded; the  *)
(* namespace cache is keyed by it.  A participant is named by its          *)
(* namespace and reached at the base URL of the same name.  Several calls  *)
(* run at once, and a request may be answered late or never.               *)
(***************************************************************************)
EXTENDS Naturals, Sequences

CONSTANTS
  Participant,  \* the participants that a base URL leads to
  Hint,         \* labels a party may have
  badHint,      \* a text that is no label
  Call,         \* calls that may be under way at once
  MaxConfigs    \* bound on the configurations loaded

ASSUME PartiesAssumption ==
  /\ badHint \notin Hint /\ "" \notin Hint \cup {badHint}
  /\ MaxConfigs \in Nat

VARIABLES
  env,      \* process.env: the URL, and one of the optional variables
  configs,  \* the configurations loaded: the participant each leads to
  refused,  \* history: the variables that were wrong when a load failed
  cached,   \* config.ts and client.ts: the two singletons
  namespaceCache,
  hosted,   \* the parties of each participant (external)
  call

processVars == <<env, configs, refused, cached, namespaceCache>>
vars == <<processVars, hosted, call>>

Unset == "unset"
NoNamespace == "no namespace"

\* What a call has been told, besides a namespace.
Reply == {"none", "malformed", "found", "not found", "refused", "allocated"}

\* No participant goes by one of the words used here: a namespace is a hash.
ASSUME NamesAssumption ==
  Participant \cap
    ({Unset, "", "no url", NoNamespace, "lost", "invalid"} \cup Reply) = {}

\* What a variable may be set to; the operator party, which is required as
\* well, is like the URL.
Env ==
  [baseUrl : {Unset, "", "no url"} \cup Participant,
   option : {Unset, "", "valid", "invalid"}]

\* The variables that are missing or wrong.
Faults(e) ==
  {v \in {"baseUrl", "option"} :
     e[v] \in (IF v = "baseUrl" THEN {Unset, "", "no url"} ELSE {"invalid"})}

NotYet == {"no load failed"}

IdleCall ==
  [at |-> "idle", op |-> "none", config |-> 0, hint |-> badHint,
   reply |-> "none", result |-> "none", mine |-> FALSE, absent |-> FALSE]

Init ==
  /\ env \in Env
  /\ configs = << >>
  /\ refused = NotYet
  /\ cached = [config |-> 0, client |-> 0]
  /\ namespaceCache = << >>
  /\ hosted = [p \in Participant |-> {}]
  /\ call = [c \in Call |-> IdleCall]

-----------------------------------------------------------------------------
(* config.ts and client.ts.                                                *)

\* An optional variable: the default unless it is set to something.
pick(value) == IF value \in {Unset, ""} THEN "valid" ELSE value

\* Whether the required variables are set and everything parses.
CantonConfigSchema(e) ==
  /\ e.baseUrl \in Participant
  /\ pick(e.option) = "valid"

loadCantonConfig ==
  IF CantonConfigSchema(env)
  THEN configs' = Append(configs, env.baseUrl) /\ UNCHANGED refused
  ELSE refused' = Faults(env) /\ UNCHANGED configs

\* Mutant: the singleton is set whether or not the load threw.
NewConfig_Anyway == Len(configs) + 1

NewConfig == IF CantonConfigSchema(env) THEN Len(configs) + 1 ELSE 0

\* The process environment is changed.
SetEnv ==
  /\ env' \in Env \ {env}
  /\ UNCHANGED <<configs, refused, cached, namespaceCache, hosted, call>>

buildCantonClientFromEnv ==
  /\ Len(configs) < MaxConfigs
  /\ loadCantonConfig
  /\ UNCHANGED <<env, cached, namespaceCache, hosted, call>>

\* The configuration is loaded by the first call that succeeds.
getCantonConfig ==
  /\ cached.config = 0 /\ Len(configs) < MaxConfigs
  /\ loadCantonConfig
  /\ cached' = [cached EXCEPT !.config = NewConfig]
  /\ UNCHANGED <<env, namespaceCache, hosted, call>>

getCantonClient ==
  /\ cached.client = 0
  /\ IF cached.config # 0
     THEN /\ cached' = [cached EXCEPT !.client = cached.config]
          /\ UNCHANGED <<configs, refused>>
     ELSE /\ Len(configs) < MaxConfigs
          /\ loadCantonConfig
          /\ cached' = [config |-> NewConfig, client |-> NewConfig]
  /\ UNCHANGED <<env, namespaceCache, hosted, call>>

resetForTests ==
  /\ \E which \in {"config", "client"} :
       cached[which] # 0 /\ cached' = [cached EXCEPT ![which] = 0]
  /\ UNCHANGED <<env, configs, refused, namespaceCache, hosted, call>>

Process ==
  \/ SetEnv \/ buildCantonClientFromEnv \/ getCantonConfig
  \/ getCantonClient \/ resetForTests

-----------------------------------------------------------------------------
(* party.ts.                                                               *)

\* Mutant: one namespace for the process.
cacheNamespace_Global(config, namespace) ==
  namespaceCache' = [c \in DOMAIN configs |-> namespace]

cacheNamespace(config, namespace) ==
  namespaceCache' =
    [c \in DOMAIN namespaceCache \cup {config} |->
       IF c = config THEN namespace ELSE namespaceCache[c]]

getCachedNamespace(config) ==
  IF config \in DOMAIN namespaceCache
  THEN namespaceCache[config] ELSE NoNamespace

resetNamespaceCacheForConfig(config) ==
  /\ config \in DOMAIN namespaceCache
  /\ namespaceCache' = [c \in DOMAIN namespaceCache \ {config} |->
                          namespaceCache[c]]
  /\ UNCHANGED <<env, configs, refused, cached, hosted, call>>

\* The label and the fingerprint are checked as they are put together.
resolvePartyFromInput(hint, namespace) == <<hint, namespace>>

-----------------------------------------------------------------------------
(* ledger.ts: the calls.                                                   *)

Begins(c, op, config, hint) ==
  /\ call[c].at \in {"idle", "returned"}
  /\ call' = [call EXCEPT ![c] =
       [IdleCall EXCEPT !.at = "sent", !.op = op, !.config = config,
                        !.hint = hint]]
  /\ UNCHANGED <<processVars, hosted>>

\* A call that sends nothing.
ReturnsAtOnce(c, op, config, hint, result) ==
  /\ call[c].at \in {"idle", "returned"}
  /\ call' = [call EXCEPT ![c] =
       [IdleCall EXCEPT !.at = "returned", !.op = op, !.config = config,
                        !.hint = hint, !.result = result]]
  /\ UNCHANGED <<processVars, hosted>>

Returns(c, result) ==
  call' = [call EXCEPT ![c].at = "returned", ![c].result = result]

At(c) == configs[call[c].config]

resolveNamespace(c, config) ==
  IF getCachedNamespace(config) # NoNamespace
  THEN ReturnsAtOnce(c, "resolveNamespace", config, badHint,
                     getCachedNamespace(config))
  ELSE Begins(c, "resolveNamespace", config, badHint)

\* Asked of a party in the namespace of the client.
partyExists(c, config, hint) ==
  /\ hint \in Hint
  /\ getCachedNamespace(config) # NoNamespace
  /\ call[c].at \in {"idle", "returned"}
  /\ LET party == resolvePartyFromInput(hint, getCachedNamespace(config))
     IN call' = [call EXCEPT ![c] =
          [IdleCall EXCEPT !.at = "sent", !.op = "partyExists",
             !.config = config, !.hint = hint,
             !.absent = party \notin hosted[configs[config]]]]
  /\ UNCHANGED <<processVars, hosted>>

\* An empty hint is refused before anything is sent.
allocateParty(c, config, hint) ==
  IF hint = "" THEN ReturnsAtOnce(c, "allocateParty", config, hint, "invalid")
  ELSE Begins(c, "allocateParty", config, hint)

\* The participant gets the request, perhaps after the caller has given up;
\* it gives a hint to one party only.  The id it answers with may be missing,
\* or one that parsePartyId throws at, and the party be there all the same.
Answers(c) ==
  LET p == At(c)
      party == <<call[c].hint, p>>
      Replies(reply) == call' = [call EXCEPT ![c].reply = reply]
  IN /\ call[c].op # "none" /\ call[c].at \in {"sent", "returned"}
     /\ call[c].reply = "none" /\ call[c].result \in {"none", "lost"}
     /\ \/ /\ call[c].op = "resolveNamespace"
           /\ Replies(p) \/ Replies("malformed")
           /\ UNCHANGED hosted
        \/ /\ call[c].op = "partyExists"
           /\ Replies(IF party \in hosted[p] THEN "found" ELSE "not found")
           /\ UNCHANGED hosted
        \/ /\ call[c].op = "allocateParty"
           /\ call[c].hint = badHint \/ party \in hosted[p]
           /\ Replies("refused")
           /\ UNCHANGED hosted
        \/ /\ call[c].op = "allocateParty"
           /\ call[c].hint # badHint /\ party \notin hosted[p]
           /\ \E reply \in {"allocated", "malformed"} :
                call' = [call EXCEPT ![c].reply = reply, ![c].mine = TRUE]
           /\ hosted' = [hosted EXCEPT ![p] = @ \cup {party}]
     /\ UNCHANGED processVars

\* The answer arrives.
Arrives(c) ==
  /\ call[c].at = "sent" /\ call[c].reply # "none"
  /\ Returns(c, call[c].reply)
  /\ IF call[c].op = "resolveNamespace" /\ call[c].reply # "malformed"
     THEN cacheNamespace(call[c].config, call[c].reply)
     ELSE UNCHANGED namespaceCache
  /\ UNCHANGED <<env, configs, refused, cached, hosted>>

\* Mutant: an error is an absence.
LookupError_Any(error) == "not found"

\* What partyExists makes of an error that is no 404.
LookupError(error) == error

\* Mutant: an allocation that got no answer is sent again.
GivesUp_Never(c) ==
  IF call[c].op = "allocateParty"
  THEN call' = [call EXCEPT ![c].reply = "none"]
  ELSE Returns(c, "lost")

GivesUp(c) ==
  Returns(c, IF call[c].op = "partyExists" THEN LookupError("lost") ELSE "lost")

\* No answer, after the retries that a read may make.
Lost(c) ==
  /\ call[c].at = "sent"
  /\ GivesUp(c)
  /\ UNCHANGED <<processVars, hosted>>

Calls(c) ==
  \/ \E config \in DOMAIN configs :
       \/ resolveNamespace(c, config)
       \/ \E hint \in Hint \cup {badHint, ""} :
            partyExists(c, config, hint) \/ allocateParty(c, config, hint)
  \/ Answers(c) \/ Arrives(c) \/ Lost(c)

Next ==
  \/ Process
  \/ \E c \in Call : Calls(c)
  \/ \E config \in DOMAIN configs : resetNamespaceCacheForConfig(config)

Spec == Init /\ [][Next]_vars

-----------------------------------------------------------------------------
(* Properties.                                                             *)

\* A load is refused for a variable that is missing or wrong, an empty one
\* counting as unset, and leaves neither singleton behind: each of them holds a
\* configuration that was loaded (config.ts and client.ts, the cached values).
LoadsFailCleanly ==
  /\ refused # {}
  /\ \A which \in {"config", "client"} : cached[which] \in 0 .. Len(configs)

\* With several configurations, clients and calls at once, every namespace
\* that is cached or returned is that of the participant its configuration
\* leads to (party.ts: "tests that build multiple configs never see a stale
\* entry").
NamespacesAreTheirOwn ==
  /\ \A i \in DOMAIN namespaceCache : namespaceCache[i] = configs[i]
  /\ \A c \in Call :
       call[c].op = "resolveNamespace" /\ call[c].at = "returned"
       => call[c].result \in {At(c), "malformed", "lost"}

\* An allocation that is refused, here or by the participant, has not taken
\* place, so a caller told of a refusal never leaves a party of its own behind
\* (retry: 'never').  An answer it cannot read is no refusal.
RefusalMeansNotMine ==
  \A c \in Call :
    /\ call[c].result \in {"refused", "invalid"} => ~call[c].mine
    /\ call[c].result = "allocated" => call[c].mine

\* partyExists says yes of a party that is there, and no only of one that was
\* not there when it was called, whatever failed in between.
LookupsAreTrue ==
  \A c \in Call :
    /\ call[c].result = "found" => <<call[c].hint, At(c)>> \in hosted[At(c)]
    /\ call[c].result = "not found" => call[c].absent
=============================================================================
