---------------------------- MODULE ProviderPlan ----------------------------
(***************************************************************************)
(* The provider bridge (host/provider): which route the gateway wants in   *)
(* the llm-pi-ai settings, whether it may touch the one that is there, and *)
(* which leaves it sets.  A list of models, deduplicated by its first      *)
(* declarations and sorted, is a function from model ids; a base URL is a  *)
(* host and a path; a settings section is its cpa route or None.           *)
(***************************************************************************)
EXTENDS Naturals, Sequences, SequencesExt

CONSTANTS None,       \* undefined
          Invalid,    \* a ProviderBridgeError about the input
          Conflict,   \* the ProviderBridgeError provider_conflict
          MaxModels   \* MAX_MODELS

ASSUME MaxModelsAssumption == MaxModels \in Nat
ASSUME ConflictAssumption  == \A b \in BOOLEAN : Conflict # [noOp |-> b]

CPA_PROVIDER_API == "openai-completions"

\* A route: extra says whether it has a key that the gateway does not manage.
RouteFields == {"api", "base", "key", "models"}
IsRoute(route) ==
  route = [f \in RouteFields \cup {"extra"} |-> route[f]] /\ route.extra \in BOOLEAN

normalizeEndpoint(url) ==
  IF url.path \in {"", "/", "/v1", "/v1/"} THEN [url EXCEPT !.path = "/v1"] ELSE Invalid

\* The first of the declarations of one id survives.
firstById(seq) ==
  [id \in {seq[i].id : i \in DOMAIN seq} |-> seq[SelectInSeq(seq, LAMBDA d : d.id = id)]]

\* The models endpoint lists ids; a malformed entry refuses the whole list.
normalizeCpaModels(list) ==
  IF Len(list) > MaxModels \/ \E i \in DOMAIN list : list[i].id = None
  THEN Invalid ELSE firstById(list)

normalizeCapabilities(models) ==
  IF Len(models) > MaxModels \/ \E i \in DOMAIN models : models[i].id = None
  THEN Invalid ELSE firstById(models)

\* The model entries of the profile; an image flag that is absent is FALSE.
buildModels(caps) ==
  [id \in DOMAIN caps |-> [name  |-> IF caps[id].name = None THEN id ELSE caps[id].name,
                           image |-> caps[id].image = TRUE]]

createCpaProviderRoute(endpoint, key, models) ==
  LET base == normalizeEndpoint(endpoint)
      caps == normalizeCapabilities(models)
  IN  IF base = Invalid \/ caps = Invalid THEN Invalid
      ELSE [extra |-> FALSE, api |-> CPA_PROVIDER_API, base |-> base, key |-> key,
            models |-> buildModels(caps)]

routeIsExact(route, profile) == route = profile

routeHasOwnedIdentity(route, profile) ==
  /\ ~route.extra /\ route.api = profile.api /\ route.key = profile.key
  /\ normalizeEndpoint(route.base) = profile.base

\* settings.user is the route of the user section, settings.base one that a
\* lower layer supplies.
assertNoProviderConflict(settings, profile) ==
  IF settings.user # None
  THEN IF routeHasOwnedIdentity(settings.user, profile)
       THEN [noOp |-> routeIsExact(settings.user, profile)] ELSE Conflict
  ELSE IF settings.base # None THEN Conflict ELSE [noOp |-> FALSE]

(* Mutant of routeOps: the models of an existing route are never replaced.  *)
routeOps_NewOnly(route, profile) ==
  {f \in RouteFields : route = None \/ (f # "models" /\ route[f] # profile[f])}

routeOps(route, profile) ==
  {f \in RouteFields : route = None \/ route[f] # profile[f]}

planCpaProviderSettings(settings, endpoint, key, models) ==
  LET profile  == createCpaProviderRoute(endpoint, key, models)
      existing == assertNoProviderConflict(settings, profile)
  IN  IF profile = Invalid THEN Invalid
      ELSE IF existing = Conflict THEN Conflict
      ELSE [changed |-> ~existing.noOp, route |-> profile,
            ops |-> IF existing.noOp THEN {} ELSE routeOps(settings.user, profile)]

\* What the settings service makes of the operations: it sets the leaves.
withOps(route, plan) ==
  IF plan.ops = {} THEN route
  ELSE [f \in RouteFields \cup {"extra"} |->
          IF f \in plan.ops \/ route = None THEN plan.route[f] ELSE route[f]]

\* The host's reading of the route (gateway-service.ts).
ownRoute(route, endpoint, key) ==
  /\ route # None /\ route.api = CPA_PROVIDER_API /\ route.key = key
  /\ normalizeEndpoint(route.base) # Invalid
  /\ normalizeEndpoint(route.base) = normalizeEndpoint(endpoint)

cpaProviderConfigured(route, endpoint, key) ==
  ownRoute(route, endpoint, key) /\ DOMAIN route.models # {}

configuredImageModels(route, endpoint, key) ==
  IF ownRoute(route, endpoint, key) THEN {id \in DOMAIN route.models : route.models[id].image} ELSE {}
=============================================================================
