--------------------------- MODULE MCDaemonState ---------------------------
(* Small parts of the daemons' state and of what they share: the            *)
(* configuration directory, the application database, the queued input of a *)
(* run, the event numbers and the call identities of a session, the         *)
(* connections of the desktop, the providers, models and tools they offer,  *)
(* and what becomes of a tool call.                                         *)
(* They share no variable and no step: TLC explores each by itself, in one  *)
(* run.                                                                     *)
EXTENDS ProviderStore, AppStore, RunQueue, EventSequence, CallIdentity, DesktopBridge, Routing,
        ToolGate

VARIABLE part

vars == <<part, storeVars, appVars, queueVars, sequenceVars, identityVars, bridgeVars,
          routingVars, gateVars>>

Init == /\ part \in {"connections", "database", "queue", "sequence", "calls", "bridge",
                     "routing", "tools"}
        /\ StoreInit /\ AppInit /\ QueueInit /\ SequenceInit /\ IdentityInit /\ BridgeInit
        /\ RoutingInit /\ GateInit
        /\ part # "connections" => \A n \in Names : legacy[n] = None
        /\ part # "database" => db = Blank
        /\ part # "tools" => host = AnyHost

Stores      == StoreNext /\ UNCHANGED <<appVars, queueVars, sequenceVars, identityVars, bridgeVars>>
Database    == AppNext /\ UNCHANGED <<storeVars, queueVars, sequenceVars, identityVars, bridgeVars>>
Queue       == QueueNext /\ UNCHANGED <<storeVars, appVars, sequenceVars, identityVars, bridgeVars>>
Sequence    == SequenceNext /\ UNCHANGED <<storeVars, appVars, queueVars, identityVars, bridgeVars>>
Calls       == IdentityNext /\ UNCHANGED <<storeVars, appVars, queueVars, sequenceVars, bridgeVars>>
Bridge      == BridgeNext /\ UNCHANGED <<storeVars, appVars, queueVars, sequenceVars, identityVars>>
Others      == /\ \/ part = "routing" /\ RoutingNext /\ UNCHANGED gateVars
                  \/ part = "tools" /\ GateNext /\ UNCHANGED routingVars
               /\ UNCHANGED <<storeVars, appVars, queueVars, sequenceVars, identityVars, bridgeVars>>

Next == /\ UNCHANGED part
        /\ part \notin {"routing", "tools"} => UNCHANGED <<routingVars, gateVars>>
        /\ \/ part = "connections" /\ Stores
           \/ part = "database" /\ Database
           \/ part = "queue" /\ Queue
           \/ part = "sequence" /\ Sequence
           \/ part = "calls" /\ Calls
           \/ part = "bridge" /\ Bridge
           \/ Others

Spec == Init /\ [][Next]_vars

MCSpecs ==
  {[id |-> "groq", family |-> "chat", key |-> "GROQ", models |-> {"m1", "m2"}, images |-> FALSE],
   [id |-> "openrouter", family |-> "images", key |-> "OPENROUTER", models |-> {"m1"},
    images |-> TRUE],
   [id |-> "mistral", family |-> "mistral", key |-> "MISTRAL", models |-> {"m2"},
    images |-> FALSE]}

MCLegacy ==
  {[id |-> "compatible", family |-> NoFamily, key |-> "OPENAI", models |-> AnyModel,
    images |-> FALSE],
   [id |-> "openrouter", family |-> "images", key |-> "OPENROUTER", models |-> {"m1"},
    images |-> TRUE],
   [id |-> "mistral", family |-> NoFamily, key |-> "MISTRAL", models |-> AnyModel,
    images |-> FALSE]}

Identity(id, family, adapter, media, models, bindings) ==
  [id |-> id, family |-> family, adapter |-> adapter, auth |-> {"k"}, bindings |-> bindings,
   media |-> media, models |-> models, images |-> id = "openrouter"]
MCManifest ==
  {Identity("groq", "chat", "a1", "text", {"m1", "m2"}, {}),
   Identity("openrouter", "images", "a2", "image", {"m1"}, {{"E"}}),
   Identity("openrouter", "chat", "a1", "text", {"m1"}, {})}

Everything ==
  [adapters |-> {"a1", "a2"}, auth |-> {"k"}, names |-> {"E"},
   features |-> [r \in {<<m.id, m.family>> : m \in MCManifest} |->
                   {"authentication", "text", "image_input", "image_output"}]]
TextOnly == [Everything EXCEPT !.names = {}, !.features[<<"groq", "chat">>] = {"text"}]

Bare == [conformance |-> FALSE, families |-> FALSE, config |-> Absent, presence |-> Absent,
         keys |-> {}, endpoints |-> {}]
AllKeys == [Bare EXCEPT !.keys = {r.key : r \in MCSpecs \cup MCLegacy}]
Narrowed(id, family) == [id |-> id, family |-> family, model |-> "m2"]
MCEnvironments ==
  {Bare, AllKeys,
   [AllKeys EXCEPT !.families = TRUE, !.endpoints = {"compatible", "mistral", "openrouter"}],
   [AllKeys EXCEPT !.families = TRUE, !.endpoints = {"compatible", "mistral"},
                   !.keys = {"OPENAI", "OPENROUTER"}],
   [AllKeys EXCEPT !.conformance = TRUE, !.families = TRUE, !.endpoints = {"mistral"},
                   !.config = Narrowed("mistral", "mistral")],
   [AllKeys EXCEPT !.conformance = TRUE, !.families = TRUE, !.config = Narrowed("groq", "chat")],
   [AllKeys EXCEPT !.conformance = TRUE, !.presence = Everything],
   [Bare EXCEPT !.conformance = TRUE, !.presence = TextOnly],
   [Bare EXCEPT !.presence = Everything]}

MCConnections ==
  {[enabled |-> TRUE, family |-> "chat", models |-> {"m1", "m2"}, imageIn |-> TRUE,
    imageOut |-> TRUE],
   [enabled |-> TRUE, family |-> "responses", models |-> {"m1"}, imageIn |-> FALSE,
    imageOut |-> FALSE],
   [enabled |-> FALSE, family |-> "chat", models |-> {"m1"}, imageIn |-> FALSE,
    imageOut |-> FALSE]}
MCRelayRoutes == {[family |-> "chat", models |-> {"m1"}]}

ASSUME ConformanceAssumption == ConfigAlone

\* The parts have their values in common: a permutation is cheaper so.
Symm == Permutations(Procs \union Clients \union Commands) \union Permutations(Providers)
        \union Permutations(Urls \union Backends)
============================================================================
