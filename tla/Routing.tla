------------------------------- MODULE Routing --------------------------------
(***************************************************************************)
(* Which providers and models a process offers, and which it runs: the     *)
(* canonical routes of the frozen manifest (provider_route.rs), the        *)
(* identity-only advertisement (provider_identity.rs), the custom          *)
(* connections' start-up snapshot (provider_connection.rs), the installed  *)
(* sponsored routes (commercial_state.rs), the adapters build_agent        *)
(* registers (main.rs), and the three places that read them: initialize,   *)
(* models/list and run/start of the daemon (daemon.rs, agent.rs), and the  *)
(* command line's run.                                                     *)
(*                                                                         *)
(* A process freezes what it found when it started; connections, stored    *)
(* keys and installed routes go on changing under it.  The environment of  *)
(* a process never changes, so a canonical credential that was present at  *)
(* the start stays present.                                                *)
(*                                                                         *)
(* Abstractions: endpoints, headers and the manifest's consistency checks  *)
(* are left out; a descriptor keeps its identity and whether it claims     *)
(* image input; a file that cannot be read is a process that fails to      *)
(* start.                                                                  *)
(***************************************************************************)
EXTENDS Naturals, FiniteSets, FiniteSetsExt, Functions, TLC

CONSTANTS
  Specs,          \* ROUTE_SPECS: [id, family, key, models, images]
  Legacy,         \* adapters of the family runners: [id, family, key, models, images]
  Manifest,       \* identity routes: [id, family, adapter, auth, bindings, media, models, images]
  Environments,   \* what a process may find in its environment
  CustomIds,      \* provider IDs users give their connections
  Connections,    \* what a connection may hold: [enabled, family, models, imageIn, imageOut]
  Relays,         \* provider IDs (relay-<entry>) of sponsored entries
  RelayRoutes     \* what an installed route may hold: [family, models]

NoFamily == "none"
Absent == [none |-> TRUE]
AnyModel == {"*"}                              \* a legacy adapter takes every model
Key(id) == <<id, "key">>                   \* credential of a provider
ImageKey(id) == <<id, "image">>           \* second credential of a connection
CanonicalIds == {r.id : r \in Specs \cup Manifest}
Keys == {Key(id) : id \in CustomIds \cup Relays} \cup {ImageKey(id) : id \in CustomIds}

\* The tables of the program have no two routes of one provider and family; a family
\* runner that shares its provider with a route shares its key, and its family when it
\* has one; sponsored entries have IDs of their own, and no connection is called faux.
ASSUME RoutingAssumption ==
  /\ "faux" \notin CustomIds \cup Relays \cup {r.id : r \in Specs \cup Manifest \cup Legacy}
  /\ Relays \cap (CustomIds \cup {r.id : r \in Specs \cup Manifest \cup Legacy}) = {}
  /\ \A routes \in {Specs, Manifest, Legacy} : \A r, s \in routes :
       r.id = s.id /\ r.family = s.family => r = s
  /\ \A r \in Specs \cup Manifest \cup Connections \cup RelayRoutes :
       r.models # AnyModel /\ r.family # NoFamily
  /\ \A s \in Specs : s.models # {}
  /\ \A l \in Legacy :
       /\ l.models = AnyModel \/ \E s \in Specs : l.models = s.models
       /\ l.family = NoFamily \/ \E s \in Specs : l.id = s.id /\ l.family = s.family
       /\ \A s \in Specs : l.id = s.id => l.key = s.key

VARIABLES configured,    \* custom connections document: id -> record or Absent
          stored,        \* CredentialStore: the provider IDs that have a key
          installed,     \* installed sponsored routes: entry -> record or Absent
          process        \* the running daemon, or Absent
routingVars == <<configured, stored, installed, process>>

(***************************************************************************)
(* What main decides from the environment before it parses its arguments.  *)
(***************************************************************************)
Mode(env) ==
  IF env.config # Absent
    THEN IF env.conformance /\ env.families /\ env.presence = Absent
              /\ \E s \in Specs : s.id = env.config.id /\ s.family = env.config.family
                                  /\ env.config.model \in s.models
           THEN "config" ELSE "refused"
    ELSE IF env.presence # Absent
           THEN IF env.conformance THEN "identity" ELSE "refused"
           ELSE "production"

EndpointSet(env, id) == env.families /\ id \in env.endpoints

\* A conformance configuration comes without the endpoints of the family runners of
\* other canonical providers; one of its own provider is asked for by another family.
ConfigAlone ==
  \A env \in Environments : Mode(env) = "config" =>
    \A l \in Legacy : EndpointSet(env, l.id) /\ l.key \in env.keys =>
      (l.id \in {s.id : s \in Specs} => l.id = env.config.id /\ l.family # env.config.family)

CredentialAvailable(env, spec) ==
  /\ spec.key \in env.keys
  /\ Mode(env) = "production" => ~EndpointSet(env, spec.id)

\* build_snapshot: a conformance configuration only narrows to one model.
Snapshot(env) ==
  LET chosen == {s \in Specs : Mode(env) = "config" =>
                   s.id = env.config.id /\ s.family = env.config.family}
      models(s) == IF Mode(env) = "config" THEN {env.config.model} ELSE s.models
  IN  {[id |-> s.id, family |-> s.family, models |-> models(s), images |-> s.images] :
         s \in {x \in chosen : CredentialAvailable(env, x)}}

(***************************************************************************)
(* identity-only: a route is advertised when adapter, features, credential *)
(* and endpoint are all declared present.                                  *)
(***************************************************************************)
RouteIsUsable(r, presence) ==
  LET features == presence.features[<<r.id, r.family>>] IN
  /\ r.adapter \in presence.adapters
  /\ <<r.id, r.family>> \in DOMAIN presence.features
  /\ "authentication" \in features
  /\ IF r.media = "text" THEN "text" \in features
       ELSE "image_output" \in features /\ features \cap {"text", "image_input"} # {}
  /\ r.auth \cap presence.auth # {}
  /\ \A names \in r.bindings : names \cap presence.names # {}

Inputs(r, features) ==
  (IF "text" \in features THEN {"text"} ELSE {})
    \cup (IF r.images /\ "image_input" \in features THEN {"image"} ELSE {})

Advertisement(presence) ==
  UNION {{[id |-> r.id, model |-> m, family |-> r.family,
           images |-> "image" \in Inputs(r, presence.features[<<r.id, r.family>>])] :
            m \in r.models} :
         r \in {x \in Manifest : /\ RouteIsUsable(x, presence)
                                 /\ Inputs(x, presence.features[<<x.id, x.family>>]) # {}}}

(***************************************************************************)
(* The custom connections' snapshot.                                       *)
(***************************************************************************)
RuntimeSnapshot ==
  {[id |-> i, family |-> configured[i].family, models |-> configured[i].models,
    images |-> configured[i].imageIn,
    needs |-> {Key(i)} \cup (IF configured[i].imageOut /\ ImageKey(i) \in stored
                          THEN {ImageKey(i)} ELSE {})] :
     i \in {j \in CustomIds : /\ configured[j] # Absent /\ configured[j].enabled
                              /\ configured[j].models # {} /\ Key(j) \in stored}}

(***************************************************************************)
(* build_agent: an adapter is what the registry holds: its ID, its API     *)
(* family, the models it takes, whether it takes images, and the stored    *)
(* keys it looks for before each run.                                      *)
(***************************************************************************)
Adapter(id, family, models, images, needs) ==
  [id |-> id, family |-> family, models |-> models, images |-> images, needs |-> needs]

Faux == Adapter("faux", NoFamily, AnyModel, FALSE, {})

\* ExecutableRouteProvider does not pass its inner adapter's image support on.
RouteAdapters(env) ==
  {Adapter(r.id, r.family, r.models, FALSE, {}) : r \in Snapshot(env)}

RelayAdapters ==
  {Adapter(e, installed[e].family, installed[e].models, FALSE, {Key(e)}) :
     e \in {x \in Relays : installed[x] # Absent}}

LegacyAdapters(env) ==
  {Adapter(l.id, l.family, l.models, l.images, {}) :
     l \in {x \in Legacy : EndpointSet(env, x.id) /\ x.key \in env.keys}}

\* A registry that takes every connection for a chat-completions endpoint.
CustomAdaptersChat ==
  {Adapter(c.id, "chat", c.models, c.images, c.needs) : c \in RuntimeSnapshot}

CustomAdapters ==
  {Adapter(c.id, c.family, c.models, c.images, c.needs) : c \in RuntimeSnapshot}

BaseRegistry(env) ==
  {Faux} \cup IF Mode(env) = "identity" THEN {}
              ELSE RouteAdapters(env) \cup RelayAdapters \cup LegacyAdapters(env)

\* register_into refuses to start with two providers of one ID.
Conflicts(env) ==
  Mode(env) # "identity" /\ \E c \in CustomAdapters, b \in BaseRegistry(env) : c.id = b.id

AtStart(env) ==
  [env |-> env, mode |-> Mode(env),
   routes |-> IF Mode(env) = "identity" THEN {} ELSE Snapshot(env),
   custom |-> IF Mode(env) = "identity" THEN {} ELSE RuntimeSnapshot,
   registry |-> BaseRegistry(env)
                  \cup IF Mode(env) = "identity" THEN {} ELSE CustomAdapters]

-----------------------------------------------------------------------------
RoutingInit ==
  /\ configured = [i \in CustomIds |-> Absent]
  /\ stored = {}
  /\ installed = [e \in Relays |-> Absent]
  /\ process = Absent

StartDaemon(env) ==
  /\ process = Absent
  /\ Mode(env) # "refused" /\ ~Conflicts(env)
  /\ process' = AtStart(env)
  /\ UNCHANGED <<configured, stored, installed>>

StopDaemon ==
  /\ process # Absent
  /\ process' = Absent
  /\ UNCHANGED <<configured, stored, installed>>

EditConnection(i) ==
  /\ i \notin CanonicalIds
  /\ \E c \in Connections \cup {Absent} : configured' = [configured EXCEPT ![i] = c]
  /\ UNCHANGED <<stored, installed, process>>

SetKey(k) ==
  /\ k \notin stored
  /\ stored' = stored \cup {k}
  /\ UNCHANGED <<configured, installed, process>>

RemoveKey(k) ==
  /\ k \in stored
  /\ stored' = stored \ {k}
  /\ UNCHANGED <<configured, installed, process>>

InstallRelay(e) ==
  /\ \E r \in RelayRoutes \cup {Absent} : installed' = [installed EXCEPT ![e] = r]
  /\ UNCHANGED <<configured, stored, process>>

RoutingNext ==
  \/ \E env \in Environments : StartDaemon(env)
  \/ StopDaemon
  \/ \E i \in CustomIds : EditConnection(i)
  \/ \E k \in Keys : SetKey(k) \/ RemoveKey(k)
  \/ \E e \in Relays : InstallRelay(e)

RoutingSpec == RoutingInit /\ [][RoutingNext]_routingVars

-----------------------------------------------------------------------------
(***************************************************************************)
(* models/list and initialize.                                             *)
(***************************************************************************)
Descriptors(routes) ==
  UNION {{[id |-> r.id, model |-> m, family |-> r.family, images |-> r.images] :
            m \in r.models} : r \in routes}

FauxModel == [id |-> "faux", model |-> "faux-v1", family |-> "faux", images |-> FALSE]

AdvertisedModels(p) ==
  {FauxModel} \cup Descriptors(p.routes \cup
                     {[id |-> c.id, family |-> c.family, models |-> c.models,
                       images |-> c.images] : c \in p.custom})
    \cup IF p.mode = "identity" THEN Advertisement(p.env.presence) ELSE {}

Available(a) == a.needs \subseteq stored

AnnouncedIds(p) ==
  {m.id : m \in AdvertisedModels(p)}
    \cup IF p.mode = "identity" THEN {} ELSE {a.id : a \in {x \in p.registry : Available(x)}}

(***************************************************************************)
(* run/start: the selection is checked against the identity advertisement, *)
(* resolved against the canonical routes, then against the custom          *)
(* connections, and last matched with an adapter.                          *)
(***************************************************************************)
Selects(r, sel) ==
  r.id = sel.id /\ sel.model \in r.models /\ sel.family \in {NoFamily, r.family}

MatchingRouteCount(p, sel) ==
  IF p.mode # "identity" THEN 0
  ELSE Cardinality({m \in Advertisement(p.env.presence) :
                      /\ m.id = sel.id /\ m.model = sel.model
                      /\ sel.family \in {NoFamily, m.family}})

LegacyFallback(p, sel) ==
  /\ p.mode = "production" /\ EndpointSet(p.env, sel.id)
  /\ \E s \in Specs : s.id = sel.id /\ sel.family \in {NoFamily, s.family}

ResolveRoute(p, sel) ==
  LET matches == {r \in p.routes : Selects(r, sel)} IN
  IF Cardinality(matches) > 1 THEN "ambiguous"
  ELSE IF Cardinality(matches) = 1 THEN "resolved"
  ELSE IF LegacyFallback(p, sel) THEN "passed"
  ELSE IF sel.id \in {s.id : s \in Specs} THEN "unavailable"
  ELSE "passed"

ResolvedFamily(p, sel) ==
  LET matches == {r \in p.routes \cup p.custom : Selects(r, sel)}
  IN  IF sel.id = "faux" \/ matches = {} THEN sel.family
      ELSE (CHOOSE r \in matches : TRUE).family

\* An adapter of the right family that is not asked whether it takes the model.
ProviderForAnyModel(p, sel, family) ==
  LET matches == {a \in p.registry : a.id = sel.id /\ a.family = family} IN
  IF matches = {} THEN "invalid"
  ELSE IF Available(CHOOSE a \in matches : TRUE) THEN "accepted" ELSE "unavailable"

ProviderFor(p, sel, family) ==
  LET wanted == IF sel.id = "faux" /\ family = "faux" THEN NoFamily ELSE family
      matches == {a \in p.registry : a.id = sel.id /\ a.family = wanted}
      a == CHOOSE x \in matches : TRUE
  IN  IF matches = {} THEN "invalid"
      ELSE IF Cardinality(matches) > 1 THEN "internal"
      ELSE IF a.models # AnyModel /\ sel.model \notin a.models THEN "invalid"
      ELSE IF ~Available(a) THEN "unavailable"
      ELSE IF sel.images /\ ~a.images THEN "imageRefused"
      ELSE "accepted"

KnownProvider(p, sel) ==
  \/ sel.id \in {"faux"} \cup {l.id : l \in Legacy} \cup {s.id : s \in Specs}
  \/ \E c \in p.custom : c.id = sel.id

RunStart(p, sel) ==
  LET count == MatchingRouteCount(p, sel)
      canonical == p.mode # "identity" /\ sel.id # "faux" IN
  IF sel.id # "faux" /\ count > 1 /\ sel.family = NoFamily THEN "ambiguous"
  ELSE IF sel.id # "faux" /\ count = 1 THEN "unavailable"
  ELSE IF canonical /\ ResolveRoute(p, sel) \in {"ambiguous", "unavailable"}
    THEN ResolveRoute(p, sel)
  ELSE IF ~KnownProvider(p, sel) THEN "unknown"
  ELSE ProviderFor(p, sel, ResolvedFamily(p, sel))

(***************************************************************************)
(* `qxnm-forge run`: a process of its own, which asks the installed routes *)
(* for the family of a provider that is neither custom nor canonical.      *)
(***************************************************************************)
InstalledFamily(sel) ==
  LET e == {x \in Relays : /\ installed[x] # Absent /\ x = sel.id
                           /\ sel.model \in installed[x].models}
  IN  IF e = {} THEN NoFamily ELSE installed[CHOOSE x \in e : TRUE].family

RunOnce(env, sel) ==
  LET p == AtStart(env)
      custom == \E c \in p.custom : Selects(c, sel)
      resolved == ResolveRoute(p, sel)
      family == IF sel.id # "faux" /\ ResolvedFamily(p, sel) = NoFamily
                  THEN InstalledFamily(sel) ELSE ResolvedFamily(p, sel)
  IN  IF sel.id # "faux" /\ ~custom /\ p.mode # "identity"
           /\ resolved \in {"ambiguous", "unavailable"}
        THEN resolved
        ELSE ProviderFor(p, sel, family)

-----------------------------------------------------------------------------
KeyGone(p, id) == \E c \in p.custom : c.id = id /\ ~(c.needs \subseteq stored)
Selecting(m, family) == [id |-> m.id, model |-> m.model, family |-> family, images |-> FALSE]
Alone(p, m) ==
  \A n \in AdvertisedModels(p) : (n.id = m.id /\ n.model = m.model) => n = m

(***************************************************************************)
(* What models/list names can be run, with its family given, and without   *)
(* one when no other descriptor shares its provider and model; the only    *)
(* refusal is that a key has gone from the credential store since the      *)
(* process started.  An identity-only process lists what it refuses.       *)
(***************************************************************************)
ListedRuns ==
  process # Absent => \A m \in AdvertisedModels(process) : \A family \in {m.family, NoFamily} :
    (family = m.family \/ Alone(process, m)) =>
      IF process.mode = "identity" /\ m.id # "faux"
        THEN RunStart(process, Selecting(m, family)) = "unavailable"
        ELSE \/ RunStart(process, Selecting(m, family)) = "accepted"
             \/ KeyGone(process, m.id)
                  /\ RunStart(process, Selecting(m, family)) = "unavailable"

(***************************************************************************)
(* Nothing else runs: a selection run/start accepts is one models/list     *)
(* names, or goes to an adapter that a conformance endpoint registered.    *)
(* Of a process that would find now what it has found, the command line    *)
(* accepts the same, and the installed sponsored routes.                   *)
(***************************************************************************)
Listed(p, sel) ==
  \E m \in AdvertisedModels(p) :
    m.id = sel.id /\ m.model = sel.model /\ sel.family \in {NoFamily, m.family}
ForRunners(env, sel) == sel.id = "faux" \/ \E l \in Legacy : l.id = sel.id /\ EndpointSet(env, l.id)
Selections ==
  [id : {"faux", "stranger"} \cup {r.id : r \in Specs \cup Legacy \cup Manifest}
          \cup CustomIds \cup Relays,
   model : {"faux-v1"} \cup UNION {r.models : r \in Specs \cup Manifest \cup Connections \cup RelayRoutes},
   family : {NoFamily} \cup {r.family : r \in Specs \cup Manifest \cup Connections \cup RelayRoutes},
   images : {FALSE}]

OnlyListedRuns ==
  process # Absent => \A sel \in Selections :
    /\ RunStart(process, sel) = "accepted" =>
         Listed(process, sel) \/ ForRunners(process.env, sel)
    /\ process = AtStart(process.env) =>
         /\ RunOnce(process.env, sel) = "accepted" =>
              \/ Listed(process, sel) \/ ForRunners(process.env, sel)
              \/ \E e \in Relays : /\ e = sel.id /\ installed[e] # Absent
                                   /\ sel.model \in installed[e].models
         /\ RunStart(process, sel) = "accepted" => RunOnce(process.env, sel) = "accepted"

(***************************************************************************)
(* A provider initialize announces has a selection the daemon accepts, and *)
(* a custom model listed with image input takes images.  Two offers of the *)
(* code are not kept, and left out here: a sponsored relay is announced,   *)
(* but run/start knows no such provider; and a canonical route refuses     *)
(* images it lists, as its adapter does not pass their support on.         *)
(***************************************************************************)
OffersKept ==
  (process # Absent /\ process.mode # "identity") =>
    /\ \A id \in AnnouncedIds(process) \ Relays :
         \/ \E c \in process.custom : c.id = id
         \/ \E sel \in Selections : sel.id = id /\ RunStart(process, sel) = "accepted"
    /\ \A c \in process.custom : \A m \in c.models : c.images =>
         LET sel == [id |-> c.id, model |-> m, family |-> c.family, images |-> TRUE]
         IN  RunStart(process, sel) # "imageRefused"

(***************************************************************************)
(* What a daemon offers is what it runs.                                   *)
(***************************************************************************)
OffersHold == ListedRuns /\ OnlyListedRuns /\ OffersKept
===============================================================================
