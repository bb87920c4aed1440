----------------------------- MODULE GatewayHost -----------------------------
(***************************************************************************)
(* GatewayHostService (gateway-service.ts): the remotes that the pages and *)
(* the analytics plugin call.  An action is what a handler does between    *)
(* two awaits; the calls of several callers interleave at every await with *)
(* other writers of the settings, the managed process and the CPA server.  *)
(*                                                                         *)
(* op[c].pc: "idle", "sent" (not yet at the host), the await the handler   *)
(* is in, "done" with out.  by and cur belong to the caller (GatewayPages),*)
(* abort is its signal.  The runtime and the device login are those of     *)
(* GatewayRuntime and DeviceLogin as far as the handlers see them.         *)
(***************************************************************************)
EXTENDS CpaClient

CONSTANTS Endpoint,      \* the root URL of the endpoint
          KeyRef,        \* proxyCredentialRef
          Catalogs,      \* what the models endpoint may list
          WriterRoutes,  \* routes other writers of the settings put there
          MaxRev,        \* bound: no write is begun at this revision
          MaxLogins,     \* bound: no login is begun after so many
          MaxLoginsSeen, \* bound: no runtime operation is begun after more
          Pages          \* pages of rows the analytics store has for a query

ASSUME ExchangeAssumption == Exchange \subseteq Nat
ASSUME EndpointAssumption == Endpoint = [f \in {"host", "path"} |-> Endpoint[f]]
ASSUME CatalogsAssumption == \A list \in Catalogs : IsFiniteSet(DOMAIN list)
ASSUME WriterAssumption   == \A route \in WriterRoutes : route = None \/ IsRoute(route)

VARIABLES settings,  \* the llm-pi-ai descriptor: rev, user, base; None without the plugin
          cred,      \* ref -> value, or None
          fresh,     \* random values generated so far
          runtime,   \* mode, state, and the credentials its process has read
          login,     \* the device login of the manager: id, state
          account,   \* the CPA server has a healthy Codex account
          op

hostState == <<settings, cred, fresh, runtime, login, account>>
hostVars  == <<hostState, op, clientVars>>

ModelIds == {e.id : e \in UNION {Range(l) : l \in Catalogs}} \ {None}
Refs == <<"proxy", "management">>
Call == Exchange
Starts == {"start", "restart"}
RuntimeOps == Starts \cup {"install", "stop"}
Abortable  == {"models", "probe", "dequeue", "accounts", "quota"}
Finishes == {"stop", "error", "aborted", "content-filter"}
Free == [kind |-> "none", pc |-> "idle", arg |-> None, loc |-> None, out |-> None,
         by |-> "none", cur |-> FALSE, abort |-> FALSE]

HostInit(desc, keys, mode, state, connected) ==
  /\ settings = desc /\ cred = keys /\ fresh = 0 /\ account = connected
  /\ runtime = [mode |-> mode, state |-> state, keys |-> IF state = "ready" THEN keys ELSE None]
  /\ login = [id |-> 0, state |-> "none"]
  /\ op = [c \in Call |-> Free]

Configured == settings # None /\ cpaProviderConfigured(settings.user, Endpoint, KeyRef)

-----------------------------------------------------------------------------
\* The caller's side: a call is sent with a free id, its answer is consumed.

FreeCalls(o) == {c \in Call : o[c].kind = "none"}
NextCall(o)  == CHOOSE c \in FreeCalls(o) : \A d \in FreeCalls(o) : c <= d
MayBegin(kind) ==    \* the bounds
  /\ FreeCalls(op) # {}
  /\ kind = "apply" /\ settings # None => settings.rev < MaxRev
  /\ kind = "loginStart" => login.id < MaxLogins
  /\ kind \in RuntimeOps => login.id <= MaxLoginsSeen
request(kind, arg, by) ==
  [Free EXCEPT !.kind = kind, !.pc = "sent", !.arg = arg, !.by = by, !.cur = TRUE]
Consumed(c) ==
  exch' = [exch EXCEPT ![c] = Idle] /\ popped' = [popped EXCEPT ![c] = <<>>] /\ UNCHANGED queue

\* A caller that is no page: another window, or the analytics plugin.
Send(kind, arg) ==
  /\ MayBegin(kind) /\ op' = [op EXCEPT ![NextCall(op)] = request(kind, arg, "other")]
  /\ UNCHANGED <<hostState, clientVars>>
Forget(c) ==
  /\ op[c].pc = "done" /\ op[c].by = "other"
  /\ op' = [op EXCEPT ![c] = Free] /\ Consumed(c) /\ UNCHANGED hostState
Abort(c) ==
  /\ op[c].by = "other" /\ op[c].kind \in Abortable /\ op[c].pc # "done" /\ ~op[c].abort
  /\ op' = [op EXCEPT ![c].abort = TRUE] /\ UNCHANGED <<hostState, clientVars>>

-----------------------------------------------------------------------------
At(c, kind, pc) == op[c].kind = kind /\ op[c].pc = pc
go(c, pc, loc) == op' = [op EXCEPT ![c].pc = pc, ![c].loc = loc]
\* The answer that a page no longer waits for does not matter.
finish(c, out) ==
  op' = [op EXCEPT ![c].pc = "done", ![c].loc = None, ![c].out = IF op[c].cur THEN out ELSE None]
only == UNCHANGED <<hostState, clientVars>>
Open(c, operation) ==
  exch' = [exch EXCEPT ![c] = Opened(operation)] /\ UNCHANGED <<hostState, queue, popped>>

\* status: the two credential views, then in one go the runtime view and the
\* first segment of codexAccountState.
Status(c) == At(c, "status", "sent") /\ go(c, "views", cred["management"] # None) /\ only

StatusViews(c) ==
  /\ At(c, "status", "views")
  /\ IF op[c].loc /\ runtime.state = "ready"
     THEN go(c, "client", runtime.state) /\ Open(c, "authStatus")
     ELSE /\ finish(c, value([runtime |-> runtime.state, codex |-> "unavailable", provider |-> Configured]))
          /\ only

codexAccountState(res) ==
  IF ~res.ok THEN "unavailable"
  ELSE IF \E i \in DOMAIN res.val : res.val[i] = [provider |-> "openai-codex", health |-> "healthy"]
  THEN "connected" ELSE "not_connected"

StatusDone(c) ==
  /\ At(c, "status", "client") /\ exch[c].st = "settled"
  /\ finish(c, value([runtime |-> op[c].loc, codex |-> codexAccountState(exch[c].res),
                      provider |-> Configured]))
  /\ only

\* models: the descriptor is read before the await, and its revision returned.
ModelsCall(c) ==
  /\ At(c, "models", "sent")
  /\ IF settings = None THEN finish(c, failed("llm_pi_ai_unavailable")) /\ only
     ELSE go(c, "client", settings) /\ Open(c, "models")

discovered(list, desc) ==
  LET caps == normalizeCpaModels(list)
  IN  IF caps = Invalid THEN failed("invalid_models_response")
      ELSE value([models |-> [id \in DOMAIN caps |->
                     id \in configuredImageModels(desc.user, Endpoint, KeyRef)],
                  rev |-> desc.rev, basis |-> desc.user])

ModelsDone(c) ==
  /\ At(c, "models", "client") /\ exch[c].st = "settled"
  /\ finish(c, IF exch[c].res.ok THEN discovered(exch[c].res.val, op[c].loc) ELSE exch[c].res)
  /\ only

\* applyModels: arg has the models as the page shows them and the revision it
\* got; basis (history) is the route that revision stood for when it got it.
planFor(models) ==
  planCpaProviderSettings(settings, Endpoint, KeyRef,
    SetToSeq({[id |-> id, name |-> id, image |-> models[id]] : id \in DOMAIN models}))

Apply(c) ==
  /\ At(c, "apply", "sent")
  /\ IF settings = None THEN finish(c, failed("llm_pi_ai_unavailable"))
     ELSE IF op[c].arg.rev # settings.rev THEN finish(c, failed("settings_conflict"))
     ELSE LET plan == planFor(op[c].arg.models)
          IN  IF plan \in {Invalid, Conflict} THEN finish(c, failed(plan))
              ELSE go(c, IF plan.changed THEN "mutate" ELSE "reread", plan)
  /\ only

(* Mutant of Mutate: the expected revision is not handed on.                *)
Mutate_Blind(c) ==
  /\ At(c, "apply", "mutate")
  /\ settings' = [settings EXCEPT !.user = withOps(settings.user, op[c].loc), !.rev = @ + 1]
  /\ go(c, "reread", op[c].loc)
  /\ UNCHANGED <<cred, fresh, runtime, login, account, clientVars>>

\* settings.mutate: the revision is compared when the write is made.
Mutate(c) ==
  /\ At(c, "apply", "mutate")
  /\ IF op[c].arg.rev # settings.rev
     THEN finish(c, failed("mutation_rejected")) /\ UNCHANGED settings
     ELSE /\ settings' = [settings EXCEPT !.user = withOps(settings.user, op[c].loc), !.rev = @ + 1]
          /\ go(c, "reread", op[c].loc)
  /\ UNCHANGED <<cred, fresh, runtime, login, account, clientVars>>

\* The answer has the revision of now, and the route the caller knows of.
Reread(c) ==
  /\ At(c, "apply", "reread")
  /\ finish(c, value([rev |-> settings.rev, basis |-> op[c].loc.route])) /\ only

\* Another plugin or the user writes the llm-pi-ai settings.
OtherWrites ==
  /\ settings # None /\ settings.rev < MaxRev
  /\ \E r \in WriterRoutes : settings' = [settings EXCEPT !.user = r, !.rev = @ + 1]
  /\ UNCHANGED <<cred, fresh, runtime, login, account, op, clientVars>>

-----------------------------------------------------------------------------
\* runtimeInstall, runtimeStart, runtimeStop, runtimeRestart.

Operate(c) ==
  /\ op[c].kind \in RuntimeOps /\ op[c].pc = "sent"
  /\ IF runtime.mode = "managed" /\ op[c].kind \in Starts THEN go(c, "describe", 1) ELSE go(c, "run", None)
  /\ only

\* ensureManagedCredentials: one round of its loop is two awaits.
nextRef(c) == IF op[c].loc = Len(Refs) THEN go(c, "run", None) ELSE go(c, "describe", op[c].loc + 1)
Describe(c) ==
  /\ op[c].kind \in Starts /\ op[c].pc = "describe"
  /\ IF cred[Refs[op[c].loc]] # None THEN nextRef(c)
     ELSE go(c, "set", op[c].loc) \/ finish(c, failed("credential_not_writable"))
  /\ only
SetCredential(c) ==
  /\ op[c].kind \in Starts /\ op[c].pc = "set"
  /\ fresh' = fresh + 1 /\ cred' = [cred EXCEPT ![Refs[op[c].loc]] = fresh + 1]
  /\ nextRef(c)
  /\ UNCHANGED <<settings, runtime, login, account, clientVars>>

\* The runtime's own guards, and what it does before its first await.
Begin(c, state, pc) == runtime' = [runtime EXCEPT !.state = state] /\ go(c, pc, None)
Refuse(c, code) == finish(c, failed(code)) /\ UNCHANGED runtime
StartRuntime(c) ==
  IF runtime.state \in {"starting", "ready"} THEN Refuse(c, "duplicate_start")
  ELSE IF runtime.state = "stopping" THEN Refuse(c, "invalid_transition")
  ELSE Begin(c, "starting", "start")

RunRuntime(c) ==
  /\ op[c].kind \in RuntimeOps /\ op[c].pc = "run"
  /\ CASE op[c].kind = "install" ->
            IF runtime.mode = "external" THEN Refuse(c, "invalid_configuration")
            ELSE IF runtime.state \in {"starting", "ready", "stopping"} THEN Refuse(c, "runtime_install_active")
            ELSE go(c, "install", None) /\ UNCHANGED runtime
       [] op[c].kind = "start" -> StartRuntime(c)
       [] op[c].kind = "stop" ->
            IF runtime.state \in {"stopped", "stopping"}
            THEN finish(c, value(runtime.state)) /\ UNCHANGED runtime ELSE Begin(c, "stopping", "stop")
       [] op[c].kind = "restart" ->
            IF runtime.state \in {"stopped", "stopping"} THEN StartRuntime(c) ELSE Begin(c, "stopping", "stop")
  /\ UNCHANGED <<settings, cred, fresh, login, account, clientVars>>

\* The release is staged, or that fails; the answer has the state of then.
RuntimeInstalls(c) ==
  /\ At(c, "install", "install")
  /\ finish(c, value(runtime.state)) \/ finish(c, failed("install_failed"))
  /\ only

\* The start reads the credentials for the process, which becomes ready or
\* not; a stop beside it makes it fail.  An external start does not throw.
RuntimeStarts(c) ==
  /\ op[c].pc = "start"
  /\ \/ /\ runtime.state = "starting" /\ runtime.keys = None
        /\ runtime' = [runtime EXCEPT !.keys = cred] /\ UNCHANGED op
     \/ /\ runtime.state = "starting" /\ runtime.keys # None
        /\ runtime' = [runtime EXCEPT !.state = "ready"] /\ finish(c, value("ready"))
     \/ /\ runtime.state = "starting" /\ runtime.mode = "managed"
        /\ runtime' = [runtime EXCEPT !.state = "failed", !.keys = None] /\ finish(c, failed("start_failed"))
     \/ /\ runtime.state = "starting" /\ runtime.mode = "external"
        /\ runtime' = [runtime EXCEPT !.state = "degraded", !.keys = None] /\ finish(c, value("degraded"))
     \/ /\ runtime.state = "stopping" /\ finish(c, failed("invalid_transition")) /\ UNCHANGED runtime
  /\ UNCHANGED <<settings, cred, fresh, login, account, clientVars>>

\* stop() has joined the process and a pending start.
RuntimeStops(c) ==
  /\ op[c].pc = "stop" /\ \A d \in Call : op[d].pc # "start"
  /\ IF op[c].kind = "stop" THEN finish(c, value("stopped")) ELSE go(c, "start", None)
  /\ runtime' = [runtime EXCEPT !.state = IF op[c].kind = "stop" THEN "stopped" ELSE "starting", !.keys = None]
  /\ UNCHANGED <<settings, cred, fresh, login, account, clientVars>>

RuntimeExits ==
  /\ runtime.state = "ready" /\ runtime.mode = "managed"
  /\ runtime' = [runtime EXCEPT !.state = "failed", !.keys = None]
  /\ UNCHANGED <<settings, cred, fresh, login, account, op, clientVars>>

-----------------------------------------------------------------------------
\* oauthDeviceStart (with prepareOauthManager), -Status and -Cancel; arg is
\* the operation id.  A start that fails leaves its operation behind.
LoginStart(c) ==
  /\ At(c, "loginStart", "sent")
  /\ IF runtime.mode = "external" THEN finish(c, failed("invalid_configuration")) /\ UNCHANGED login
     ELSE IF runtime.state # "ready" THEN finish(c, failed("invalid_transition")) /\ UNCHANGED login
     ELSE IF login.state = "pending" THEN finish(c, failed("operation_already_active")) /\ UNCHANGED login
     ELSE \E s \in {"pending", "failed"} :
            /\ login' = [id |-> login.id + 1, state |-> s]
            /\ finish(c, IF s = "pending" THEN value(login') ELSE failed("login_failed"))
  /\ UNCHANGED <<settings, cred, fresh, runtime, account, clientVars>>

LoginStatus(c) ==
  /\ At(c, "loginStatus", "sent")
  /\ finish(c, IF op[c].arg = login.id THEN value(login) ELSE failed("oauth_not_found")) /\ only

LoginCancel(c) ==
  /\ At(c, "loginCancel", "sent")
  /\ IF op[c].arg # login.id THEN finish(c, failed("oauth_not_found")) /\ UNCHANGED login
     ELSE /\ login' = [login EXCEPT !.state = IF @ = "pending" THEN "cancelled" ELSE @]
          /\ finish(c, value(login'))
  /\ UNCHANGED <<settings, cred, fresh, runtime, account, clientVars>>

LoginEnds ==
  /\ login.state = "pending"
  /\ \E s \in {"success", "failed"} : login' = [login EXCEPT !.state = s] /\ account' = (account \/ s = "success")
  /\ UNCHANGED <<settings, cred, fresh, runtime, op, clientVars>>

\* probe: the request is refused, or the stream of the LLM service ends in one
\* of its ways, or throws.
probeResult(kind, about) ==
  CASE kind = "stop" -> [ok |-> TRUE, of |-> about]
    [] kind = "content-filter" -> [ok |-> FALSE, of |-> "UNSUPPORTED_FINISH"]
    [] OTHER -> [ok |-> FALSE, of |-> "PROBE_FAILED"]

Probe(c) ==
  /\ At(c, "probe", "sent")
  /\ \/ finish(c, failed("invalid_probe_request"))
     \/ \E kind \in Finishes :
          /\ kind = "aborted" => op[c].abort
          /\ finish(c, value(probeResult(kind, op[c].arg)))
  /\ only

\* uploadImage: the request is checked, then the attachment is saved.
Upload(c) ==
  /\ At(c, "upload", "sent")
  /\ finish(c, failed("invalid_image_upload")) \/ finish(c, value(op[c].arg))
  /\ only

\* The analytics remotes: without the service, or when it fails or answers
\* something else, the empty view; else a page and the cursor of the next.
Requests(c) ==
  /\ At(c, "requests", "sent")
  /\ \/ finish(c, value([rows |-> <<>>, next |-> None]))
     \/ finish(c, value([rows |-> <<op[c].arg>>,
                         next |-> IF op[c].arg.page < Pages THEN op[c].arg.page + 1 ELSE None]))
  /\ only
Read(c) ==
  /\ At(c, "read", "sent") /\ finish(c, value("view")) /\ only

\* analyticsSource: the plugin's three reads; quota selects, then asks.
Source(c) ==
  /\ op[c].kind \in {"dequeue", "accounts", "quota"} /\ op[c].pc = "sent"
  /\ go(c, "client", None)
  /\ Open(c, CASE op[c].kind = "dequeue" -> "usageQueue"
               [] op[c].kind = "accounts" -> "authStatus"
               [] op[c].kind = "quota" -> "selections")

SourceDone(c) ==
  /\ op[c].kind \in {"dequeue", "accounts", "quota"} /\ op[c].pc = "client" /\ exch[c].st = "settled"
  /\ IF exch[c].of = "selections" /\ exch[c].res.ok /\ exch[c].res.val # <<>>
     THEN Again(c, "quota", op[c].abort) /\ UNCHANGED <<hostState, op>>
     ELSE finish(c, exch[c].res) /\ only

-----------------------------------------------------------------------------
\* The client's steps, bound to the credentials and to the server.

Up == runtime.mode = "external" \/ runtime.keys # None
accepted(c) ==
  runtime.mode = "external" \/ exch[c].key = runtime.keys[credentialOf(exch[c].of)]
answers(operation) ==
  CASE operation = "models" -> Catalogs
    [] operation = "authStatus" ->
         {<<[provider |-> "openai-codex", status |-> IF account THEN "ready" ELSE "error"]>>}
    [] operation = "selections" -> {IF account THEN <<[provider |-> "openai-codex"]>> ELSE <<>>}
    [] operation = "quota" -> {{"primary"}, {"other"}}
    [] OTHER -> {}

ClientStep(c) ==
  /\ UNCHANGED <<hostState, op>>
  /\ \/ Resolve(c, cred[credentialOf(exch[c].of)], op[c].abort)
     \/ Up /\ Serve(c, accepted(c), answers(exch[c].of))
     \/ Garble(c) \/ Headers(c) \/ Body(c) \/ TimerFires(c) \/ Rejects(c, op[c].abort)

\* The same exchange in one step, for the scenes that are about the callers.
CoarseStep(c) ==
  /\ Exchanged(c, cred[credentialOf(exch[c].of)], IF Up THEN answers(exch[c].of) ELSE {})
  /\ UNCHANGED <<hostState, op>>

LoginCall(c)  == LoginStart(c) \/ LoginStatus(c) \/ LoginCancel(c)
RuntimeCall(c) ==
  Operate(c) \/ Describe(c) \/ SetCredential(c) \/ RunRuntime(c) \/ RuntimeStarts(c) \/ RuntimeStops(c)
  \/ RuntimeInstalls(c)
ModelsStep(c) == ModelsCall(c) \/ ModelsDone(c) \/ Apply(c) \/ Mutate(c) \/ Reread(c)
StatusStep(c) == Status(c) \/ StatusViews(c) \/ StatusDone(c)
OtherStep(c)  == Probe(c) \/ Upload(c) \/ Requests(c) \/ Read(c) \/ Source(c) \/ SourceDone(c)
Handler(c) == LoginCall(c) \/ RuntimeCall(c) \/ ModelsStep(c) \/ StatusStep(c) \/ OtherStep(c)

HostNext(detailed) ==
  LoginEnds \/ \E c \in Call : Handler(c) \/ (IF detailed THEN ClientStep(c) ELSE CoarseStep(c))

\* The host runs, the services it awaits answer and the timer fires; nothing
\* is assumed of the CPA server, the network, the LLM service and the callers.
HostFairness ==
  \A c \in Call :
    /\ WF_hostVars(op[c].pc \notin {"idle", "done"} /\ op[c].kind # "probe" /\ Handler(c))
    /\ WF_hostVars(exch[c].st = "resolve" /\ (ClientStep(c) \/ CoarseStep(c)))
    /\ WF_hostVars(TimerFires(c) /\ UNCHANGED <<hostState, op>>)
    /\ WF_hostVars(exch[c].timedOut /\ Rejects(c, op[c].abort) /\ UNCHANGED <<hostState, op>>)

-----------------------------------------------------------------------------
(***************************************************************************)
(* What applyModels wrote is what it planned: made again, the same request *)
(* changes nothing, and unless it has no models the provider counts as     *)
(* configured (applyModels, planCpaProviderSettings, cpaProviderConfigured).*)
(***************************************************************************)
Commits(c) == op[c].pc = "mutate" /\ op'[c].pc = "reread"
Sticks(c)  ==
  planFor(op[c].arg.models).changed = FALSE /\ (DOMAIN op[c].arg.models # {} => Configured)
ApplySticks == [][\A c \in Call : Commits(c) => Sticks(c)']_hostVars

(***************************************************************************)
(* A route that is not the gateway's own is never written by it: whoever   *)
(* put it there between the plan and the write (assertNoProviderConflict,  *)
(* the expected revision of settings.mutate).                              *)
(***************************************************************************)
Foreign(route) == route # None /\ (route.extra \/ ~ownRoute(route, Endpoint, KeyRef))
ForeignRouteKept ==
  [][\A c \in Call : Commits(c) => ~Foreign(settings.user) /\ (settings.user = None => settings.base = None)]_hostVars

(***************************************************************************)
(* An exchange ends as the client promises, with the timer, the signal,    *)
(* the server and the network at any moment: what was popped from the      *)
(* usage queue reaches the caller whole or the caller is told of a failure *)
(* (fetchJson, readResponseText, parseUsageRecord).                        *)
(***************************************************************************)
Answered(c) == {r.body : r \in {r \in {exch[c].reply} \ {None} : r.check = "body"}}
PromiseKept ==
  [][\A c \in Call : Underway(c) /\ exch'[c].st = "settled"
       => exch'[c].res \in Promised(c, Answered(c))]_hostVars

(***************************************************************************)
(* applyModels never overwrites a route its caller has not seen: the one   *)
(* it replaces is the one the caller's revision was given out for          *)
(* (expectedRevision; docs/design/security.md).  The code breaks this: the *)
(* answer of applyModels has the revision of after a later write.          *)
(***************************************************************************)
NoBlindOverwrite == [][\A c \in Call : Commits(c) => settings.user = op[c].arg.basis]_hostVars

(***************************************************************************)
(* Every call of a remote is answered, whatever the CPA server, the        *)
(* network and the other callers do; a probe waits for the LLM service     *)
(* (the request timer of fetchJson covers head and body alike).            *)
(***************************************************************************)
EveryCallAnswered ==
  \A c \in Call : (op[c].pc # "idle" /\ op[c].kind # "probe") ~> (op[c].pc \in {"done", "idle"})
=============================================================================
