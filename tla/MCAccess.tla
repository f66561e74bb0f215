------------------------------- MODULE MCAccess -------------------------------
(***************************************************************************)
(* A small instance of who may act and what is decided about it: sessions, *)
(* and the decisions that are functions of a request.                      *)
(***************************************************************************)
EXTENDS Access, TLC

IdleTimes == [r \in BOOLEAN |-> IF r THEN 2 ELSE 1]
LifeTimes == [r \in BOOLEAN |-> IF r THEN 3 ELSE 2]

SmallPolicySets ==
  {{}, {"unknown"}, {"regional-data-residency", "destructive-action-safety"},
   {"azureblob-approved-tagging", "unknown"}, {"azureblob-metadata-discovery"}}

\* Every kind of runtime, with an action for each combination of needs.
SmallActions ==
  {[id |-> "plain", guardian |-> FALSE, hitl |-> FALSE, confirm |-> FALSE],
   [id |-> "tag", guardian |-> TRUE, hitl |-> TRUE, confirm |-> FALSE],
   [id |-> "delete", guardian |-> TRUE, hitl |-> TRUE, confirm |-> TRUE],
   [id |-> "notify", guardian |-> FALSE, hitl |-> TRUE, confirm |-> TRUE]}

SmallConnectors ==
  [kind : Kinds, entrypoint : BOOLEAN, actions : {{}, SmallActions}]

SmallConnectorCalls ==
  [operation : {"scan_metadata", "preview_action", "execute_action", "unknown"},
   action : {"", "plain", "tag", "delete", "notify"}, apply : BOOLEAN, preview : BOOLEAN,
   allowed : BOOLEAN, approved : BOOLEAN, confirmed : BOOLEAN, endpoint : BOOLEAN]

SmallProviders ==
  [kind : Kinds \ {"external_process_or_http"}, tasks : {{"chat"}, {"chat", "prepare_hitl"}},
   endpoint : BOOLEAN]

SmallEvidence ==
  SUBSET {[id |-> 1, level |-> "critical", risk |-> "absent"],
          [id |-> 2, level |-> "low", risk |-> "high"],
          [id |-> 3, level |-> "", risk |-> "high"],
          [id |-> 4, level |-> "absent", risk |-> "critical"]}

SmallProviderCalls ==
  [task : {"chat", "prepare_hitl", "unknown"}, autonomous : BOOLEAN, archive : BOOLEAN,
   evidence : SmallEvidence]

SmallPatterns ==
  {[type |-> "SECRET", severity |-> "critical", scopes |-> Parts],
   [type |-> "BUSINESS_SENSITIVE", severity |-> "high", scopes |-> {"path", "content"}],
   [type |-> "CUSTOM", severity |-> "low", scopes |-> {"path", "content"}]}

SmallMatches ==
  {[s \in Parts |-> CASE s = "path" -> p [] s = "content" -> c [] OTHER -> {}] :
     p \in SUBSET SmallPatterns, c \in SUBSET SmallPatterns}

SmallSamples ==
  {{}, {<<"SECRET", 1>>}, {<<"EMAIL", 1>>, <<"EMAIL", 2>>}, {<<"SSN", 1>>, <<"PHONE", 2>>}}

SmallObjects ==
  {o \in [matches : SmallMatches, excluded : {{}, {"path"}}, sample : SmallSamples,
          hasSample : BOOLEAN, sensitivePath : BOOLEAN, publicPath : BOOLEAN, typed : BOOLEAN,
          large : {FALSE}, knownModel : BOOLEAN] :
     ~o.hasSample => o.sample = {} /\ o.matches["content"] = {}}

Symmetry == Permutations(Handlers) \cup Permutations(Names)
=============================================================================
