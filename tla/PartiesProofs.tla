--------------------------- MODULE PartiesProofs ---------------------------
(***************************************************************************)
(* Proofs about Parties, for any participants, hints, calls and number of  *)
(* configurations.                                                         *)
(*                                                                         *)
(* The inductive invariant says of each call what it may have been told,   *)
(* by the operation it is (IsTrue), beside the types: a reply on its way   *)
(* is as binding as a result, and an absence is one at the time of the     *)
(* call, because a participant never loses a party.                        *)
(***************************************************************************)
EXTENDS Parties, TLAPS

-----------------------------------------------------------------------------
(* The inductive invariant.                                                *)

CallState ==
  [at : {"idle", "sent", "returned"},
   op : {"none", "resolveNamespace", "partyExists", "allocateParty"},
   config : Nat, hint : Hint \cup {badHint, ""},
   reply : Reply \cup Participant,
   result : Reply \cup Participant \cup {"lost", "invalid"},
   mine : BOOLEAN, absent : BOOLEAN]

\* What call k has been told by participant p, which hosts these parties.
IsTrue(k, p, parties) ==
  /\ k.at = "sent" => k.result = "none"
  /\ k.at = "returned" => k.result # "none"
  /\ k.result \in {"none", "lost", "invalid", k.reply} \cup Participant
  /\ k.op = "resolveNamespace" =>
       /\ k.reply \in {"none", "malformed", p} /\ k.mine = FALSE
       /\ k.result \in {"none", "malformed", "lost", p}
  /\ k.op = "partyExists" =>
       /\ k.reply \in {"none", "found", "not found"} /\ k.mine = FALSE
       /\ k.result \notin Participant
       /\ k.reply = "found" => <<k.hint, p>> \in parties
       /\ k.reply = "not found" => k.absent = TRUE
       /\ k.absent = FALSE => <<k.hint, p>> \in parties
  /\ k.op = "allocateParty" =>
       /\ k.reply \in {"none", "refused", "allocated", "malformed"}
       /\ k.result \notin Participant
       /\ k.result = "invalid" => k.reply = "none"
       /\ k.mine = TRUE <=> k.reply \in {"allocated", "malformed"}

Told(c) ==
  IF call[c].op = "none" THEN call[c] = IdleCall
  ELSE /\ call[c].config \in DOMAIN configs
       /\ IsTrue(call[c], At(c), hosted[At(c)])

CachesAreOwn ==
  /\ cached \in [{"config", "client"} -> 0..Len(configs)]
  /\ \A i \in DOMAIN namespaceCache :
       i \in DOMAIN configs /\ namespaceCache[i] = configs[i]

PartiesInv ==
  /\ env \in Env
  /\ configs \in Seq(Participant)
  /\ refused # {}
  /\ CachesAreOwn
  /\ DOMAIN hosted = Participant
  /\ call \in [Call -> CallState]
  /\ \A c \in Call : Told(c)

-----------------------------------------------------------------------------
(* Loading configurations.                                                 *)

\* A refused environment has a fault.
LEMMA RefusedForAFault ==
  ASSUME NEW e \in Env, ~CantonConfigSchema(e)
  PROVE  Faults(e) # {}
  <1>1. e.baseUrl \in {Unset, "", "no url"} \/ e.option = "invalid"
    BY DEF CantonConfigSchema, pick, Env
  <1> QED
    BY <1>1 DEF Faults

\* Configurations are only added.
LEMMA Loads ==
  ASSUME env \in Env, configs \in Seq(Participant), refused # {},
         loadCantonConfig
  PROVE  /\ configs' \in Seq(Participant)
         /\ refused' # {}
         /\ Len(configs) \in Nat /\ Len(configs) <= Len(configs')
         /\ \A i \in DOMAIN configs :
              i \in DOMAIN configs' /\ configs'[i] = configs[i]
         /\ NewConfig \in 0..Len(configs')
  <1>1. CASE CantonConfigSchema(env)
    <2>1. configs' = Append(configs, env.baseUrl) /\ refused' = refused
      BY <1>1 DEF loadCantonConfig
    <2>2. env.baseUrl \in Participant
      BY <1>1 DEF CantonConfigSchema
    <2> QED
      BY <1>1, <2>1, <2>2 DEF NewConfig
  <1>2. CASE ~CantonConfigSchema(env)
    BY <1>2, RefusedForAFault DEF loadCantonConfig, NewConfig
  <1> QED
    BY <1>1, <1>2

\* Nothing a call was told depends on the configurations added after it.
LEMMA CallsKeep ==
  ASSUME PartiesInv, UNCHANGED <<call, hosted>>,
         configs' \in Seq(Participant),
         \A i \in DOMAIN configs :
           i \in DOMAIN configs' /\ configs'[i] = configs[i]
  PROVE  \A c \in Call : Told(c)'
  <1> SUFFICES ASSUME NEW c \in Call
               PROVE  Told(c)'
    OBVIOUS
  <1> QED
    BY DEF PartiesInv, Told, At

LEMMA ProcessKeeps ==
  ASSUME PartiesInv, Process
  PROVE  PartiesInv'
  <1> USE DEF PartiesInv
  <1>1. CASE SetEnv
    <2>1. env' \in Env /\ UNCHANGED <<configs, refused, cached, namespaceCache>>
          /\ UNCHANGED <<call, hosted>>
      BY <1>1 DEF SetEnv
    <2>2. \A c \in Call : Told(c)'
      BY <2>1, CallsKeep
    <2> QED
      BY <2>1, <2>2 DEF CachesAreOwn
  <1>2. CASE buildCantonClientFromEnv
    <2>1. loadCantonConfig /\ UNCHANGED <<env, cached, namespaceCache>>
          /\ UNCHANGED <<call, hosted>>
      BY <1>2 DEF buildCantonClientFromEnv
    <2>2. \A c \in Call : Told(c)'
      BY <2>1, Loads, CallsKeep
    <2>3. CachesAreOwn'
      BY <2>1, Loads DEF CachesAreOwn
    <2> QED
      BY <2>1, <2>2, <2>3, Loads
  <1>3. CASE getCantonConfig
    <2>1. loadCantonConfig /\ UNCHANGED <<env, namespaceCache>>
          /\ cached' = [cached EXCEPT !.config = NewConfig]
          /\ UNCHANGED <<call, hosted>>
      BY <1>3 DEF getCantonConfig
    <2>2. \A c \in Call : Told(c)'
      BY <2>1, Loads, CallsKeep
    <2>3. CachesAreOwn'
      BY <2>1, Loads DEF CachesAreOwn
    <2> QED
      BY <2>1, <2>2, <2>3, Loads
  <1>4. CASE getCantonClient
    <2>1. /\ UNCHANGED <<env, namespaceCache>> /\ UNCHANGED <<call, hosted>>
          /\ \/ /\ cached' = [cached EXCEPT !.client = cached.config]
                /\ UNCHANGED <<configs, refused>>
             \/ /\ loadCantonConfig
                /\ cached' = [config |-> NewConfig, client |-> NewConfig]
      BY <1>4 DEF getCantonClient
    <2>2. CASE loadCantonConfig
               /\ cached' = [config |-> NewConfig, client |-> NewConfig]
      <3>1. \A c \in Call : Told(c)'
        BY <2>1, <2>2, Loads, CallsKeep
      <3>2. CachesAreOwn'
        BY <2>1, <2>2, Loads DEF CachesAreOwn
      <3> QED
        BY <2>1, <2>2, <3>1, <3>2, Loads
    <2>3. CASE cached' = [cached EXCEPT !.client = cached.config]
               /\ UNCHANGED <<configs, refused>>
      <3>1. \A c \in Call : Told(c)'
        BY <2>1, <2>3, CallsKeep
      <3>2. CachesAreOwn'
        BY <2>1, <2>3 DEF CachesAreOwn
      <3> QED
        BY <2>1, <2>3, <3>1, <3>2
    <2> QED
      BY <2>1, <2>2, <2>3
  <1>5. CASE resetForTests
    <2>1. /\ UNCHANGED <<env, configs, refused, namespaceCache>>
          /\ UNCHANGED <<call, hosted>>
      BY <1>5 DEF resetForTests
    <2>2. PICK which \in {"config", "client"} :
            cached' = [cached EXCEPT ![which] = 0]
      BY <1>5 DEF resetForTests
    <2>3. \A c \in Call : Told(c)'
      BY <2>1, CallsKeep
    <2>4. CachesAreOwn'
      BY <2>1, <2>2 DEF CachesAreOwn
    <2> QED
      BY <2>1, <2>3, <2>4
  <1> QED
    BY <1>1, <1>2, <1>3, <1>4, <1>5 DEF Process

-----------------------------------------------------------------------------
(* Calls.                                                                  *)

\* A call that is left alone is still told the truth: parties are only added.
LEMMA OthersKeep ==
  ASSUME PartiesInv, NEW c \in Call, UNCHANGED configs,
         \A p \in Participant : hosted[p] \subseteq hosted'[p],
         \A d \in Call \ {c} : call'[d] = call[d]
  PROVE  \A d \in Call \ {c} : Told(d)'
  <1> SUFFICES ASSUME NEW d \in Call \ {c}
               PROVE  Told(d)'
    OBVIOUS
  <1>1. Told(d) /\ call'[d] = call[d] /\ configs \in Seq(Participant)
    BY DEF PartiesInv
  <1>2. CASE call[d].op = "none"
    BY <1>1, <1>2 DEF Told
  <1>3. CASE call[d].op # "none"
    <2>1. /\ call[d].config \in DOMAIN configs /\ At(d) \in Participant
          /\ IsTrue(call[d], At(d), hosted[At(d)])
      BY <1>1, <1>3 DEF Told, At
    <2>2. IsTrue(call[d], At(d), hosted'[At(d)])
      BY <2>1 DEF IsTrue
    <2>3. At(d)' = At(d)
      BY <1>1 DEF At
    <2> QED
      BY <1>1, <1>3, <2>1, <2>2, <2>3 DEF Told
  <1> QED
    BY <1>2, <1>3

\* What is left to show of a step that changes one call, and hosts no less.
LEMMA CallKeeps ==
  ASSUME PartiesInv, NEW c \in Call, NEW k \in CallState,
         UNCHANGED <<env, configs, refused, cached>>,
         CachesAreOwn',
         DOMAIN hosted' = Participant,
         \A p \in Participant : hosted[p] \subseteq hosted'[p],
         call' = [call EXCEPT ![c] = k],
         k.op # "none",
         k.config \in DOMAIN configs,
         IsTrue(k, configs[k.config], hosted'[configs[k.config]])
  PROVE  PartiesInv'
  <1>1. call' \in [Call -> CallState] /\ call'[c] = k
        /\ \A d \in Call \ {c} : call'[d] = call[d]
    BY DEF PartiesInv
  <1>2. \A d \in Call \ {c} : Told(d)'
    BY <1>1, OthersKeep
  <1>3. Told(c)'
    BY <1>1 DEF Told, At
  <1> QED
    BY <1>1, <1>2, <1>3 DEF PartiesInv

LEMMA ConfigsLeadSomewhere ==
  ASSUME PartiesInv, NEW config \in DOMAIN configs
  PROVE  config \in Nat /\ configs[config] \in Participant
  BY DEF PartiesInv

\* A call that begins, or that is answered at once.
LEMMA BeginningKeeps ==
  ASSUME PartiesInv, NEW c \in Call, NEW config \in DOMAIN configs,
         NEW hint \in Hint \cup {badHint, ""},
         \/ resolveNamespace(c, config)
         \/ partyExists(c, config, hint)
         \/ allocateParty(c, config, hint)
  PROVE  PartiesInv'
  <1>1. UNCHANGED <<processVars, hosted>>
    BY DEF resolveNamespace, partyExists, allocateParty, Begins, ReturnsAtOnce
  <1>2. /\ UNCHANGED <<env, configs, refused, cached>> /\ CachesAreOwn'
        /\ DOMAIN hosted' = Participant /\ hosted' = hosted
        /\ config \in Nat /\ configs[config] \in Participant
    <2>1. UNCHANGED <<env, configs, refused, cached, namespaceCache, hosted>>
      BY <1>1 DEF processVars
    <2>2. CachesAreOwn'
      BY <2>1 DEF PartiesInv, CachesAreOwn
    <2>3. config \in Nat /\ configs[config] \in Participant
      BY ConfigsLeadSomewhere
    <2> QED
      BY <2>1, <2>2, <2>3 DEF PartiesInv
  <1>3. getCachedNamespace(config) # NoNamespace =>
          getCachedNamespace(config) = configs[config]
    BY DEF getCachedNamespace, PartiesInv, CachesAreOwn
  <1>4. ASSUME NEW k,
               call' = [call EXCEPT ![c] = k],
               k \in CallState, k.op # "none", k.config = config,
               IsTrue(k, configs[config], hosted[configs[config]])
        PROVE  PartiesInv'
    BY <1>2, <1>4, CallKeeps
  <1>5. CASE resolveNamespace(c, config)
    <2>1. CASE getCachedNamespace(config) # NoNamespace
      <3> DEFINE k == [IdleCall EXCEPT !.at = "returned",
                         !.op = "resolveNamespace", !.config = config,
                         !.hint = badHint, !.result = configs[config]]
      <3>1. call' = [call EXCEPT ![c] = k]
        BY <1>3, <1>5, <2>1 DEF resolveNamespace, ReturnsAtOnce
      <3>2. /\ k \in CallState /\ k.op # "none" /\ k.config = config
            /\ IsTrue(k, configs[config], hosted[configs[config]])
        BY <1>2, NamesAssumption DEF IdleCall, CallState, IsTrue, Reply
      <3> QED
        BY <1>4, <3>1, <3>2
    <2>2. CASE getCachedNamespace(config) = NoNamespace
      <3> DEFINE k == [IdleCall EXCEPT !.at = "sent",
                         !.op = "resolveNamespace", !.config = config,
                         !.hint = badHint]
      <3>1. call' = [call EXCEPT ![c] = k]
        BY <1>5, <2>2 DEF resolveNamespace, Begins
      <3>2. /\ k \in CallState /\ k.op # "none" /\ k.config = config
            /\ IsTrue(k, configs[config], hosted[configs[config]])
        BY <1>2 DEF IdleCall, CallState, IsTrue, Reply
      <3> QED
        BY <1>4, <3>1, <3>2
    <2> QED
      BY <2>1, <2>2
  <1>6. CASE partyExists(c, config, hint)
    <2> DEFINE party == <<hint, configs[config]>>
    <2>1. PICK absent : absent = (party \notin hosted[configs[config]])
      OBVIOUS
    <2> DEFINE k == [IdleCall EXCEPT !.at = "sent", !.op = "partyExists",
                       !.config = config, !.hint = hint, !.absent = absent]
    <2>2. call' = [call EXCEPT ![c] = k]
      BY <1>3, <1>6, <2>1 DEF partyExists, resolvePartyFromInput
    <2>3. /\ absent \in BOOLEAN
          /\ absent = FALSE => party \in hosted[configs[config]]
      BY <2>1
    <2>4. /\ k.at = "sent" /\ k.op = "partyExists" /\ k.config = config
          /\ k.hint = hint /\ k.reply = "none" /\ k.result = "none"
          /\ k.mine = FALSE /\ k.absent = absent
      BY DEF IdleCall
    <2>5. k \in CallState
      BY <1>2, <2>3 DEF IdleCall, CallState, Reply
    <2>6. IsTrue(k, configs[config], hosted[configs[config]])
      BY <2>3, <2>4, <1>2, NamesAssumption DEF IsTrue, Reply
    <2> QED
      BY <1>4, <2>2, <2>4, <2>5, <2>6
  <1>7. CASE allocateParty(c, config, hint) /\ hint = ""
    <2> DEFINE k == [IdleCall EXCEPT !.at = "returned", !.op = "allocateParty",
                       !.config = config, !.hint = hint, !.result = "invalid"]
    <2>1. call' = [call EXCEPT ![c] = k]
      BY <1>7 DEF allocateParty, ReturnsAtOnce
    <2>2. /\ k.at = "returned" /\ k.op = "allocateParty" /\ k.config = config
          /\ k.reply = "none" /\ k.result = "invalid" /\ k.mine = FALSE
      BY DEF IdleCall
    <2>3. k \in CallState
      BY <1>2 DEF IdleCall, CallState, Reply
    <2>4. IsTrue(k, configs[config], hosted[configs[config]])
      BY <2>2, NamesAssumption DEF IsTrue, Reply
    <2> QED
      BY <1>4, <2>1, <2>2, <2>3, <2>4
  <1>8. CASE allocateParty(c, config, hint) /\ hint # ""
    <2> DEFINE k == [IdleCall EXCEPT !.at = "sent", !.op = "allocateParty",
                       !.config = config, !.hint = hint]
    <2>1. call' = [call EXCEPT ![c] = k]
      BY <1>8 DEF allocateParty, Begins
    <2>2. /\ k.at = "sent" /\ k.op = "allocateParty" /\ k.config = config
          /\ k.reply = "none" /\ k.result = "none" /\ k.mine = FALSE
      BY DEF IdleCall
    <2>3. k \in CallState
      BY <1>2 DEF IdleCall, CallState, Reply
    <2>4. IsTrue(k, configs[config], hosted[configs[config]])
      BY <2>2, NamesAssumption DEF IsTrue, Reply
    <2> QED
      BY <1>4, <2>1, <2>2, <2>3, <2>4
  <1> QED
    BY <1>5, <1>6, <1>7, <1>8

LEMMA AnswersKeeps ==
  ASSUME PartiesInv, NEW c \in Call, Answers(c)
  PROVE  PartiesInv'
  <1> DEFINE p == At(c)
             party == <<call[c].hint, p>>
  <1>1. /\ call[c].op # "none" /\ call[c] \in CallState
        /\ call[c].config \in DOMAIN configs /\ p \in Participant
        /\ IsTrue(call[c], p, hosted[p])
        /\ call[c].reply = "none" /\ call[c].result \in {"none", "lost"}
    <2>1. /\ call[c].op # "none"
          /\ call[c].reply = "none" /\ call[c].result \in {"none", "lost"}
      BY DEF Answers
    <2>2. call[c] \in CallState /\ Told(c) /\ configs \in Seq(Participant)
      BY DEF PartiesInv
    <2> QED
      BY <2>1, <2>2 DEF Told, At
  <1>2. UNCHANGED <<env, configs, refused, cached>> /\ CachesAreOwn'
    BY DEF Answers, processVars, PartiesInv, CachesAreOwn
  <1>3. CASE /\ call[c].op = "resolveNamespace" /\ hosted' = hosted
             /\ \/ call' = [call EXCEPT ![c].reply = p]
                \/ call' = [call EXCEPT ![c].reply = "malformed"]
    <2>1. PICK answer \in {p, "malformed"} :
            call' = [call EXCEPT ![c] = [call[c] EXCEPT !.reply = answer]]
      BY <1>3
    <2> DEFINE k == [call[c] EXCEPT !.reply = answer]
    <2>2. /\ k \in CallState /\ k.op # "none" /\ k.config = call[c].config
          /\ IsTrue(k, p, hosted'[p])
      BY <1>1, <1>3, NamesAssumption DEF CallState, IsTrue, Reply
    <2> QED
      BY <1>1, <1>2, <1>3, <2>1, <2>2, CallKeeps DEF At, PartiesInv
  <1>4. CASE /\ call[c].op = "partyExists" /\ hosted' = hosted
             /\ call' = [call EXCEPT ![c].reply =
                   IF party \in hosted[p] THEN "found" ELSE "not found"]
    <2>1. PICK answer : /\ answer = (IF party \in hosted[p] THEN "found"
                                     ELSE "not found")
                        /\ call' = [call EXCEPT ![c] =
                                      [call[c] EXCEPT !.reply = answer]]
      BY <1>4
    <2> DEFINE k == [call[c] EXCEPT !.reply = answer]
    <2>2. /\ k \in CallState /\ k.op # "none" /\ k.config = call[c].config
          /\ IsTrue(k, p, hosted'[p])
      BY <1>1, <1>4, <2>1 DEF CallState, IsTrue, Reply
    <2> QED
      BY <1>1, <1>2, <1>4, <2>1, <2>2, CallKeeps DEF At, PartiesInv
  <1>5. CASE /\ call[c].op = "allocateParty" /\ hosted' = hosted
             /\ call' = [call EXCEPT ![c].reply = "refused"]
    <2> DEFINE k == [call[c] EXCEPT !.reply = "refused"]
    <2>1. call' = [call EXCEPT ![c] = k]
      BY <1>5
    <2>2. /\ k \in CallState /\ k.op # "none" /\ k.config = call[c].config
          /\ IsTrue(k, p, hosted'[p])
      BY <1>1, <1>5 DEF CallState, IsTrue, Reply
    <2> QED
      BY <1>1, <1>2, <1>5, <2>1, <2>2, CallKeeps DEF At, PartiesInv
  <1>6. ASSUME NEW answer \in {"allocated", "malformed"},
               call[c].op = "allocateParty",
               call' = [call EXCEPT ![c].reply = answer, ![c].mine = TRUE],
               hosted' = [hosted EXCEPT ![p] = @ \cup {party}]
        PROVE  PartiesInv'
    <2> DEFINE k == [call[c] EXCEPT !.reply = answer, !.mine = TRUE]
    <2>1. call' = [call EXCEPT ![c] = k]
      BY <1>6 DEF PartiesInv
    <2>2. /\ k \in CallState /\ k.op # "none" /\ k.config = call[c].config
          /\ IsTrue(k, p, hosted'[p])
      BY <1>1, <1>6 DEF CallState, IsTrue, Reply
    <2>3. DOMAIN hosted' = Participant
          /\ \A q \in Participant : hosted[q] \subseteq hosted'[q]
      BY <1>1, <1>6 DEF PartiesInv
    <2> QED
      BY <1>1, <1>2, <2>1, <2>2, <2>3, CallKeeps DEF At
  <1> QED
    BY <1>3, <1>4, <1>5, <1>6 DEF Answers

LEMMA ArrivesKeeps ==
  ASSUME PartiesInv, NEW c \in Call, Arrives(c)
  PROVE  PartiesInv'
  <1> DEFINE p == At(c)
             k == [call[c] EXCEPT !.at = "returned", !.result = call[c].reply]
  <1>1. /\ call[c].at = "sent" /\ call[c].reply # "none"
        /\ call' = [call EXCEPT ![c] = k]
        /\ UNCHANGED <<env, configs, refused, cached, hosted>>
    BY DEF Arrives, Returns, PartiesInv
  <1>2. /\ call[c].op # "none" /\ call[c] \in CallState
        /\ call[c].config \in DOMAIN configs /\ p \in Participant
        /\ IsTrue(call[c], p, hosted[p])
    BY <1>1 DEF PartiesInv, Told, At, IdleCall
  <1>3. /\ k \in CallState /\ k.op # "none" /\ k.config = call[c].config
        /\ IsTrue(k, p, hosted[p])
    BY <1>1, <1>2, NamesAssumption DEF CallState, IsTrue, Reply
  <1>4. CachesAreOwn'
    <2>1. CASE UNCHANGED namespaceCache
      BY <1>1, <2>1 DEF PartiesInv, CachesAreOwn
    <2>2. CASE /\ call[c].op = "resolveNamespace"
               /\ call[c].reply # "malformed"
               /\ cacheNamespace(call[c].config, call[c].reply)
      <3>1. call[c].reply = configs[call[c].config]
        BY <1>1, <1>2, <2>2 DEF IsTrue, At
      <3>2. \A i \in DOMAIN namespaceCache' :
              /\ i \in DOMAIN namespaceCache \cup {call[c].config}
              /\ namespaceCache'[i] = IF i = call[c].config
                                      THEN call[c].reply ELSE namespaceCache[i]
        BY <2>2 DEF cacheNamespace
      <3> QED
        BY <1>1, <1>2, <3>1, <3>2 DEF PartiesInv, CachesAreOwn
    <2> QED
      BY <2>1, <2>2 DEF Arrives
  <1> QED
    BY <1>1, <1>2, <1>3, <1>4, CallKeeps DEF At, PartiesInv

LEMMA LostKeeps ==
  ASSUME PartiesInv, NEW c \in Call, Lost(c)
  PROVE  PartiesInv'
  <1> DEFINE p == At(c)
             k == [call[c] EXCEPT !.at = "returned", !.result = "lost"]
  <1>1. /\ call[c].at = "sent" /\ call' = [call EXCEPT ![c] = k]
        /\ UNCHANGED <<processVars, hosted>>
    BY DEF Lost, GivesUp, Returns, LookupError, PartiesInv
  <1>2. /\ call[c].op # "none" /\ call[c] \in CallState
        /\ call[c].config \in DOMAIN configs /\ p \in Participant
        /\ IsTrue(call[c], p, hosted[p])
    BY <1>1 DEF PartiesInv, Told, At, IdleCall
  <1>3. /\ k \in CallState /\ k.op # "none" /\ k.config = call[c].config
        /\ IsTrue(k, p, hosted[p])
    BY <1>1, <1>2, NamesAssumption DEF CallState, IsTrue, Reply
  <1>4. UNCHANGED <<env, configs, refused, cached>> /\ CachesAreOwn'
    BY <1>1 DEF processVars, PartiesInv, CachesAreOwn
  <1> QED
    BY <1>1, <1>2, <1>3, <1>4, CallKeeps DEF At, PartiesInv

LEMMA ResetKeeps ==
  ASSUME PartiesInv, NEW config, resetNamespaceCacheForConfig(config)
  PROVE  PartiesInv'
  <1>1. UNCHANGED <<env, configs, refused, cached>> /\ UNCHANGED <<call, hosted>>
    BY DEF resetNamespaceCacheForConfig
  <1>2. CachesAreOwn'
    BY <1>1 DEF resetNamespaceCacheForConfig, PartiesInv, CachesAreOwn
  <1>3. \A c \in Call : Told(c)'
    BY <1>1, CallsKeep DEF PartiesInv
  <1> QED
    BY <1>1, <1>2, <1>3 DEF PartiesInv

LEMMA PartiesInvariance == Spec => []PartiesInv
  <1>1. Init => PartiesInv
    <2> SUFFICES ASSUME Init
                 PROVE  PartiesInv
      OBVIOUS
    <2>1. IdleCall \in CallState
      BY DEF IdleCall, CallState, Reply
    <2>2. call \in [Call -> CallState] /\ \A c \in Call : Told(c)
      BY <2>1 DEF Init, Told, IdleCall
    <2>3. configs \in Seq(Participant) /\ CachesAreOwn
      BY DEF Init, CachesAreOwn
    <2>4. env \in Env /\ refused # {} /\ DOMAIN hosted = Participant
      BY DEF Init, NotYet
    <2> QED
      BY <2>2, <2>3, <2>4 DEF PartiesInv
  <1>2. PartiesInv /\ [Next]_vars => PartiesInv'
    <2> SUFFICES ASSUME PartiesInv, [Next]_vars
                 PROVE  PartiesInv'
      OBVIOUS
    <2>1. CASE UNCHANGED vars
      BY <2>1 DEF vars, processVars, PartiesInv, CachesAreOwn, Told, At
    <2>2. CASE Process
      BY <2>2, ProcessKeeps
    <2>3. ASSUME NEW c \in Call, Calls(c)
          PROVE  PartiesInv'
      BY <2>3, BeginningKeeps, AnswersKeeps, ArrivesKeeps, LostKeeps DEF Calls
    <2>4. ASSUME NEW config \in DOMAIN configs,
                 resetNamespaceCacheForConfig(config)
          PROVE  PartiesInv'
      BY <2>4, ResetKeeps
    <2> QED
      BY <2>1, <2>2, <2>3, <2>4 DEF Next
  <1> QED
    BY <1>1, <1>2, PTL DEF Spec

-----------------------------------------------------------------------------
(* Theorems.                                                               *)

\* A load that fails has a fault to name and leaves no singleton behind.
THEOREM FailedLoadsAreClean == Spec => []LoadsFailCleanly
  <1>1. PartiesInv => LoadsFailCleanly
    BY DEF PartiesInv, CachesAreOwn, LoadsFailCleanly
  <1> QED
    BY <1>1, PartiesInvariance, PTL

\* No configuration is ever given the namespace of another one's
\* participant, with any number of configurations, resets and calls.
THEOREM NamespacesStayApart == Spec => []NamespacesAreTheirOwn
  <1>1. PartiesInv => NamespacesAreTheirOwn
    BY DEF PartiesInv, CachesAreOwn, Told, IsTrue, NamespacesAreTheirOwn
  <1> QED
    BY <1>1, PartiesInvariance, PTL

\* Whoever is refused a party has none, and whoever is given one has it.
THEOREM RefusalsAreDefinite == Spec => []RefusalMeansNotMine
  <1>1. PartiesInv => RefusalMeansNotMine
    <2> SUFFICES ASSUME PartiesInv, NEW c \in Call
                 PROVE  /\ call[c].result \in {"refused", "invalid"}
                             => ~call[c].mine
                        /\ call[c].result = "allocated" => call[c].mine
      BY DEF RefusalMeansNotMine
    <2>1. call[c] \in CallState /\ Told(c) /\ configs \in Seq(Participant)
      BY DEF PartiesInv
    <2>2. {"refused", "allocated", "invalid"} \cap Participant = {}
      BY NamesAssumption DEF Reply
    <2>3. CASE call[c].op = "none"
      <3>1. call[c].result = "none"
        BY <2>1, <2>3 DEF Told, IdleCall
      <3> QED
        BY <3>1
    <2>4. CASE call[c].op # "none"
      <3>1. IsTrue(call[c], At(c), hosted[At(c)]) /\ At(c) \in Participant
        BY <2>1, <2>4 DEF Told, At
      <3>2. /\ call[c].result \in {"refused", "invalid"}
                 => call[c].mine = FALSE
            /\ call[c].result = "allocated" => call[c].mine = TRUE
        BY <2>1, <2>2, <2>4, <3>1 DEF IsTrue, CallState
      <3> QED
        BY <3>2
    <2> QED
      BY <2>3, <2>4
  <1> QED
    BY <1>1, PartiesInvariance, PTL

\* A lookup is true of the party it was asked about, however long its answer
\* took and whoever allocated meanwhile.
THEOREM LookupsTellTheTruth == Spec => []LookupsAreTrue
  <1>1. PartiesInv => LookupsAreTrue
    <2> SUFFICES ASSUME PartiesInv, NEW c \in Call
                 PROVE  /\ call[c].result = "found" =>
                             <<call[c].hint, At(c)>> \in hosted[At(c)]
                        /\ call[c].result = "not found" => call[c].absent
      BY DEF LookupsAreTrue
    <2>1. call[c] \in CallState /\ Told(c) /\ configs \in Seq(Participant)
      BY DEF PartiesInv
    <2>2. "found" \notin Participant /\ "not found" \notin Participant
      BY NamesAssumption DEF Reply
    <2>3. CASE call[c].op = "none"
      <3>1. call[c].result = "none"
        BY <2>1, <2>3 DEF Told, IdleCall
      <3> QED
        BY <3>1
    <2>4. CASE call[c].op # "none"
      <3>1. IsTrue(call[c], At(c), hosted[At(c)]) /\ At(c) \in Participant
        BY <2>1, <2>4 DEF Told, At
      <3>2. /\ call[c].result = "found" =>
                 <<call[c].hint, At(c)>> \in hosted[At(c)]
            /\ call[c].result = "not found" => call[c].absent = TRUE
        BY <2>1, <2>2, <2>4, <3>1 DEF IsTrue, CallState
      <3> QED
        BY <3>2
    <2> QED
      BY <2>3, <2>4
  <1> QED
    BY <1>1, PartiesInvariance, PTL
=============================================================================
