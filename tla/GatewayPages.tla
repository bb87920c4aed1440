---------------------------- MODULE GatewayPages ----------------------------
(***************************************************************************)
(* The pages of the gateway (client), over the host service.  A page's     *)
(* state and the effects of a change to it are committed in one step, an   *)
(* assumption: after an answer React may run the clean-up of an effect a   *)
(* task later, and an answer in between is not modelled.  A call keeps the *)
(* name of the page's function that made it (by); cur says whether the     *)
(* answer would still pass that function's mounted, active, signal and     *)
(* generation tests.  view is the page under study; a page that is not     *)
(* mounted is None.                                                        *)
(***************************************************************************)
EXTENDS GatewayHost

CONSTANTS Files,    \* images a user may choose
          Queries,  \* filters of the requests page; Invalid is a bad range
          Detailed, \* the views beside which exchanges are made step by step
          Beside    \* view -> the calls of other callers and the events ("write",
                    \* "exit") that happen beside the page under study

VARIABLES view, page

pageVars == <<view, page>>
vars == <<hostVars, pageVars>>

NoModels  == <<>>
Pending(oauth) == oauth # None /\ oauth.state = "pending"

ask(o, kind, arg, by) == [o EXCEPT ![NextCall(o)] = request(kind, arg, by)]
\* An effect's clean-up, a new generation, a cancel: the answers are ignored.
drop(o, bys) ==
  [c \in Call |-> IF o[c].by \in bys THEN [o[c] EXCEPT !.cur = FALSE, !.abort = TRUE, !.out = None] ELSE o[c]]

Event(p, o) == page' = p /\ op' = o /\ UNCHANGED <<view, hostState, clientVars>>
\* The bound of a page's calls leaves an id for a poll that will fire.
PollArmed == view \in {"setup", "settings", "dashboard"} /\ page # None /\ page.poll = "armed"
MayAsk(kind) == MayBegin(kind) /\ (PollArmed => Cardinality(FreeCalls(op)) > 1)
Ask(kind, arg, by, p) == MayAsk(kind) /\ Event(p, ask(op, kind, arg, by))
AskAgain(kind, arg, by, p) == MayAsk(kind) /\ Event(p, ask(drop(op, {by}), kind, arg, by))
Shows(v) == view = v /\ page # None

-----------------------------------------------------------------------------
\* SetupView.

SetupInit ==
  [status |-> "loading", runtime |-> None, codex |-> None, provider |-> FALSE, oauth |-> None,
   poll |-> "off", models |-> NoModels, phase |-> "ready", rev |-> None, basis |-> None,
   applied |-> FALSE, probe |-> "idle", ran |-> None, result |-> None, busy |-> None]

configured(p) ==
  /\ p.status = "ready" /\ p.runtime = "ready" /\ p.codex = "connected" /\ p.provider
  /\ p.oauth = None /\ DOMAIN p.models = {} /\ p.probe = "idle"

activeStep(p) ==
  CASE p.probe = "success" -> "complete"
    [] p.probe # "success" /\ p.runtime # "ready" -> "runtime"
    [] p.probe # "success" /\ p.runtime = "ready" /\ ~(p.codex = "connected"
         \/ (p.oauth # None /\ p.oauth.state = "success")) -> "login"
    [] OTHER -> IF p.applied THEN "probe" ELSE "models"

SetupAt(step) == Shows("setup") /\ ~configured(page) /\ activeStep(page) = step
Quiet == page.busy = None
Busy(kind) == [page EXCEPT !.busy = kind]

SetupRuntime(kind) ==
  /\ SetupAt("runtime") /\ Quiet
  /\ kind = "start" => page.runtime # "ready"
  /\ Ask(kind, None, kind, Busy(kind))
SetupRefresh ==
  SetupAt("runtime") /\ Quiet /\ AskAgain("status", None, "status", [page EXCEPT !.status = "loading"])
SetupLogin ==
  SetupAt("login") /\ Quiet /\ ~Pending(page.oauth) /\ Ask("loginStart", None, "login", Busy("login"))
SetupCancelLogin ==
  /\ SetupAt("login") /\ Quiet /\ Pending(page.oauth)
  /\ Ask("loginCancel", page.oauth.id, "cancel", Busy("cancel"))
SetupDiscover ==
  /\ SetupAt("models") /\ Quiet
  /\ AskAgain("models", None, "discover", [Busy("discover") EXCEPT !.phase = "loading", !.applied = FALSE])
SetupApply ==
  /\ SetupAt("models") /\ Quiet /\ page.phase = "ready" /\ page.rev # None /\ DOMAIN page.models # {}
  /\ Ask("apply", [models |-> page.models, rev |-> page.rev, basis |-> page.basis], "apply", Busy("apply"))
SetupProbe ==
  /\ SetupAt("probe") /\ Quiet
  /\ \/ Event([page EXCEPT !.probe = "error"], op)
     \/ \E m \in DOMAIN page.models :
          Ask("probe", [model |-> m], "probe",
                 [Busy("probe") EXCEPT !.probe = "running", !.ran = [model |-> m], !.result = None])
SetupCancelProbe ==
  /\ SetupAt("probe") /\ page.probe = "running"
  /\ Event([page EXCEPT !.probe = "cancelled", !.result = None, !.busy = None], drop(op, {"probe"}))
SetupNext ==
  \/ \E kind \in {"install", "start"} : SetupRuntime(kind)
  \/ SetupRefresh \/ SetupLogin \/ SetupCancelLogin
  \/ SetupDiscover \/ SetupApply \/ SetupProbe \/ SetupCancelProbe

-----------------------------------------------------------------------------
\* SettingsView.  status is "loading" until the first answer, whatever it is.

SettingsInit ==
  [status |-> "loading", runtime |-> None, codex |-> None, provider |-> FALSE, oauth |-> None,
   poll |-> "off", busy |-> None]

SettingsRuntime(kind) ==
  /\ Shows("settings") /\ page.runtime # None /\ Quiet
  /\ kind = "start" => page.runtime # "ready"
  /\ kind = "stop" => page.runtime # "stopped"
  /\ Ask(kind, None, kind, Busy(kind))
SettingsRefresh == Shows("settings") /\ AskAgain("status", None, "status", page)
SettingsLogin ==
  /\ Shows("settings") /\ page.runtime # None /\ Quiet /\ ~Pending(page.oauth)
  /\ Ask("loginStart", None, "login", Busy("login"))
SettingsCancelLogin ==
  /\ Shows("settings") /\ page.runtime # None /\ Quiet /\ Pending(page.oauth)
  /\ Ask("loginCancel", page.oauth.id, "cancel", Busy("cancel"))
SettingsNext ==
  \/ \E kind \in RuntimeOps : SettingsRuntime(kind)
  \/ SettingsRefresh \/ SettingsLogin \/ SettingsCancelLogin

\* The timer of the poll effect of both pages.
PollFires ==
  /\ view \in {"setup", "settings"} /\ PollArmed /\ FreeCalls(op) # {}
  /\ Event([page EXCEPT !.poll = "off"], ask(op, "loginStatus", page.oauth.id, "poll"))

-----------------------------------------------------------------------------
\* ModelsView.

ModelsInit == [phase |-> "loading", models |-> NoModels, rev |-> None, basis |-> None, busy |-> None]

ModelsRefresh ==
  /\ Shows("models") /\ page.phase # "loading"
  /\ AskAgain("models", None, "discover", [page EXCEPT !.phase = "loading"])
ModelsToggle(m) ==
  /\ Shows("models") /\ page.phase = "ready" /\ m \in DOMAIN page.models
  /\ Event([page EXCEPT !.models[m] = ~@], op)
ModelsApply ==
  /\ Shows("models") /\ page.phase = "ready" /\ page.rev # None /\ Quiet
  /\ Ask("apply", [models |-> page.models, rev |-> page.rev, basis |-> page.basis], "apply", Busy("apply"))
ModelsNext ==
  ModelsRefresh \/ ModelsApply \/ \E m \in ModelIds : ModelsToggle(m)

-----------------------------------------------------------------------------
\* PlaygroundView.

PlaygroundInit ==
  [phase |-> "loading", models |-> NoModels, model |-> None, image |-> None, file |-> None,
   upload |-> "idle", probe |-> "idle", ran |-> None, result |-> None]

imageAllowed(p) == p.model # None /\ p.models[p.model]
\* The effect on the selected model.
Fit(p) == IF imageAllowed(p) THEN p ELSE [p EXCEPT !.image = None]

PlaygroundSelect(m) ==
  /\ Shows("playground") /\ page.phase = "ready" /\ page.probe # "running" /\ m \in DOMAIN page.models
  /\ Event(Fit([page EXCEPT !.model = m]), op)
PlaygroundChoose(f) ==
  /\ Shows("playground") /\ imageAllowed(page) /\ page.upload \notin {"reading", "uploading"}
  /\ page.probe # "running"
  /\ \E next \in {"error", "reading"} :
       Event([page EXCEPT !.image = None, !.file = f, !.upload = next], op)
PlaygroundRead ==
  /\ Shows("playground") /\ page.upload = "reading"
  /\ \/ Event([page EXCEPT !.upload = "error"], op)
     \/ Ask("upload", page.file, "upload", [page EXCEPT !.upload = "uploading"])
PlaygroundRemove ==
  /\ Shows("playground") /\ page.image # None /\ page.probe # "running"
  /\ Event([page EXCEPT !.image = None], op)
PlaygroundRun ==
  /\ Shows("playground") /\ page.phase = "ready" /\ page.model # None /\ page.probe # "running"
  /\ LET arg == [model |-> page.model, image |-> page.image]
     IN  \/ Event([page EXCEPT !.probe = "error", !.result = None], op)
         \/ Ask("probe", arg, "probe",
                   [page EXCEPT !.probe = "running", !.ran = arg, !.result = None])
PlaygroundCancel ==
  /\ Shows("playground") /\ page.probe = "running"
  /\ Event([page EXCEPT !.probe = "cancelled", !.result = None], drop(op, {"probe"}))
PlaygroundNext ==
  \/ \E m \in ModelIds : PlaygroundSelect(m)
  \/ \E f \in Files : PlaygroundChoose(f)
  \/ PlaygroundRead \/ PlaygroundRemove \/ PlaygroundRun \/ PlaygroundCancel

-----------------------------------------------------------------------------
\* RequestsView; DashboardView and AccountsView.

RequestsInit ==
  [query |-> CHOOSE q \in Queries : TRUE, phase |-> "loading", items |-> <<>>, cursor |-> None, more |-> FALSE]
cursorless(q) == [query |-> q, page |-> 1]

(* Mutant of RequestsQuery: the calls of the query before are not dropped.  *)
RequestsQuery_Late(q) ==
  /\ Shows("requests") /\ q # Invalid
  /\ Ask("requests", cursorless(q), "query",
         [page EXCEPT !.query = q, !.items = <<>>, !.cursor = None, !.phase = "loading"])

\* A filter or the refresh button: the effect on the query.
RequestsQuery(q) ==
  /\ Shows("requests")
  /\ LET cleared == [page EXCEPT !.query = q, !.items = <<>>, !.cursor = None]
         left == drop(op, {"query", "next"})
     IN  IF q = Invalid THEN Event([cleared EXCEPT !.phase = "invalid"], left)
         ELSE /\ MayAsk("requests")
              /\ Event([cleared EXCEPT !.phase = "loading"], ask(left, "requests", cursorless(q), "query"))
RequestsMore ==
  /\ Shows("requests") /\ page.phase = "ready" /\ page.cursor # None /\ ~page.more
  /\ Ask("requests", [query |-> page.query, page |-> page.cursor], "next", [page EXCEPT !.more = TRUE])
RequestsNext == RequestsMore \/ \E q \in Queries \cup {Invalid} : RequestsQuery(q)

ReadsInit == [phase |-> "loading", poll |-> "off"]
\* The dashboard offers it when it is offline.
ReadsRefresh ==
  /\ Shows("accounts") \/ (Shows("dashboard") /\ page.phase = "offline")
  /\ AskAgain("read", None, "read", [page EXCEPT !.poll = "off"])
DashboardPoll ==
  /\ view = "dashboard" /\ PollArmed /\ FreeCalls(op) # {}
  /\ Event([page EXCEPT !.poll = "off"], ask(op, "read", None, "read"))

-----------------------------------------------------------------------------
\* What the page makes of an answer that still counts.

withLogin(p, out) ==
  IF out.ok THEN [p EXCEPT !.oauth = out.val, !.poll = IF Pending(out.val) THEN "armed" ELSE "off"] ELSE p
(* Mutant of withPolled: an answer that is still pending does not arm the   *)
(* timer again.                                                             *)
withPolled_Once(p, out) ==
  IF ~out.ok THEN [p EXCEPT !.poll = "lost"] ELSE [p EXCEPT !.oauth = out.val, !.poll = "off"]

\* A poll that failed says so and is the last.
withPolled(p, out) == IF out.ok THEN withLogin(p, out) ELSE [p EXCEPT !.poll = "lost"]
withProbe(p, out) ==
  IF out.ok /\ out.val.ok THEN [p EXCEPT !.probe = "success", !.result = out.val.of]
  ELSE [p EXCEPT !.probe = "error"]
withModels(p, out, offline) ==
  IF ~out.ok THEN [p EXCEPT !.phase = offline]
  ELSE [p EXCEPT !.models = out.val.models, !.rev = out.val.rev, !.basis = out.val.basis, !.phase = "ready"]
withStatus(p, out) ==
  IF ~out.ok THEN [p EXCEPT !.status = "error"]
  ELSE [p EXCEPT !.status = "ready", !.runtime = out.val.runtime, !.codex = out.val.codex,
                 !.provider = out.val.provider]
conflicted(o) == o.by = "apply" /\ ~o.out.ok /\ o.out.val = "settings_conflict"
withApplied(p, o) ==
  IF o.out.ok THEN [p EXCEPT !.rev = o.out.val.rev, !.basis = o.out.val.basis] ELSE p
idle(p) == [p EXCEPT !.busy = None]

setupReact(p, o) ==
  CASE o.by = "status" -> withStatus(p, o.out)
    [] o.by = "install" -> idle(IF o.out.ok THEN [p EXCEPT !.runtime = o.out.val] ELSE p)
    [] o.by = "start" ->
         idle(IF o.out.ok THEN [p EXCEPT !.runtime = o.out.val, !.status = "loading"] ELSE p)
    [] o.by \in {"login", "cancel"} -> idle(withLogin(p, o.out))
    [] o.by = "poll" -> withPolled(p, o.out)
    [] o.by = "discover" -> idle(withModels(p, o.out, "error"))
    [] o.by = "apply" ->
         idle(IF conflicted(o) THEN [p EXCEPT !.phase = "error"]
              ELSE [withApplied(p, o) EXCEPT !.applied = @ \/ o.out.ok])
    [] o.by = "probe" -> idle(withProbe(p, o.out))

settingsReact(p, o) ==
  CASE o.by = "status" -> IF o.out.ok THEN [withStatus(p, o.out) EXCEPT !.status = "shown"]
                          ELSE [p EXCEPT !.status = "shown"]
    [] o.by \in RuntimeOps -> idle(IF o.out.ok THEN [p EXCEPT !.runtime = o.out.val] ELSE p)
    [] o.by \in {"login", "cancel"} -> idle(withLogin(p, o.out))
    [] o.by = "poll" -> withPolled(p, o.out)

(* Mutant of modelsReact: a conflict returns before saving is cleared.      *)
modelsReact_Saving(p, o) ==
  CASE o.by = "discover" -> withModels(p, o.out, "offline")
    [] o.by = "apply" -> IF conflicted(o) THEN [p EXCEPT !.phase = "loading"] ELSE idle(withApplied(p, o))

modelsReact(p, o) ==
  CASE o.by = "discover" -> withModels(p, o.out, "offline")
    [] o.by = "apply" -> idle(IF conflicted(o) THEN [p EXCEPT !.phase = "loading"] ELSE withApplied(p, o))

playgroundReact(p, o) ==
  CASE o.by = "discover" ->
         IF ~o.out.ok THEN [p EXCEPT !.phase = "unavailable"]
         ELSE LET ids == DOMAIN o.out.val.models
              IN  [p EXCEPT !.models = o.out.val.models, !.phase = "ready",
                            !.model = IF ids = {} THEN None ELSE CHOOSE m \in ids : TRUE]
    [] o.by = "upload" ->
         IF o.out.ok THEN Fit([p EXCEPT !.image = o.out.val, !.upload = "idle"])
         ELSE [p EXCEPT !.upload = "error"]
    [] o.by = "probe" -> withProbe(p, o.out)

requestsReact(p, o) ==
  CASE o.by = "query" ->
         IF ~o.out.ok THEN [p EXCEPT !.phase = "unavailable"]
         ELSE [p EXCEPT !.items = o.out.val.rows, !.cursor = o.out.val.next, !.phase = "ready"]
    [] o.by = "next" ->
         IF ~o.out.ok THEN [p EXCEPT !.more = FALSE]
         ELSE [p EXCEPT !.items = @ \o o.out.val.rows, !.cursor = o.out.val.next, !.more = FALSE]

react(p, o) ==
  CASE view = "setup" -> setupReact(p, o)
    [] view = "settings" -> settingsReact(p, o)
    [] view = "models" -> modelsReact(p, o)
    [] view = "playground" -> playgroundReact(p, o)
    [] view = "requests" -> requestsReact(p, o)
    [] view \in {"dashboard", "accounts"} ->
         [p EXCEPT !.phase = IF o.out.ok THEN "ready" ELSE "offline",
                   !.poll = IF view = "dashboard" THEN "armed" ELSE "off"]

(* Mutant of followUp: a new login state leaves the poll of the old one.    *)
followUp_Polling(o, freed) ==
  CASE view = "setup" /\ o.by = "start" /\ o.out.ok -> ask(drop(freed, {"status"}), "status", None, "status")
    [] view = "models" /\ conflicted(o) -> ask(drop(freed, {"discover"}), "models", None, "discover")
    [] OTHER -> freed

\* What the answer makes the page do next: a new login state ends the poll
\* effect of the old one, a start reloads the status, a conflict the models.
followUp(o, freed) ==
  CASE o.by \in {"login", "cancel"} /\ o.out.ok -> drop(freed, {"poll"})
    [] view = "setup" /\ o.by = "start" /\ o.out.ok -> ask(drop(freed, {"status"}), "status", None, "status")
    [] view = "models" /\ conflicted(o) -> ask(drop(freed, {"discover"}), "models", None, "discover")
    [] OTHER -> freed

\* The answer, or the failure of the connection, reaches the caller.
Answer(c) ==
  /\ op[c].pc = "done" /\ op[c].by # "other"
  /\ LET freed == [op EXCEPT ![c] = Free]
     IN  \E out \in {op[c].out, failed("REMOTE_UNAVAILABLE")} :
           LET o == [op[c] EXCEPT !.out = out]
           IN  IF o.cur THEN page' = react(page, o) /\ op' = followUp(o, freed)
               ELSE page' = page /\ op' = freed
  /\ Consumed(c) /\ UNCHANGED <<view, hostState>>

-----------------------------------------------------------------------------
\* GatewayApp: a page is mounted with its first calls, and unmounted.

Mounted ==
  CASE view = "setup" -> <<SetupInit, "status", "status">>
    [] view = "settings" -> <<SettingsInit, "status", "status">>
    [] view = "models" -> <<ModelsInit, "models", "discover">>
    [] view = "playground" -> <<PlaygroundInit, "models", "discover">>
    [] view = "requests" -> <<RequestsInit, "requests", "query">>
    [] view \in {"dashboard", "accounts"} -> <<ReadsInit, "read", "read">>
    [] OTHER -> <<None, "none", "none">>
Mount ==
  /\ page = None /\ Mounted[1] # None /\ MayAsk(Mounted[2])
  /\ Event(Mounted[1], ask(op, Mounted[2],
             IF view = "requests" THEN cursorless(RequestsInit.query) ELSE None, Mounted[3]))
Leave == page # None /\ Event(None, drop(op, {op[c].by : c \in Call} \ {"other", "none"}))

PageNext ==
  \/ SetupNext \/ SettingsNext \/ ModelsNext \/ PlaygroundNext \/ RequestsNext
  \/ ReadsRefresh \/ PollFires \/ DashboardPoll \/ Mount \/ Leave
  \/ \E c \in Call : Answer(c)

otherArgs(kind) ==
  CASE kind = "apply" ->
         {[models |-> [id \in ids |-> d.rev = 0], rev |-> d.rev, basis |-> d.user] :
            d \in {settings} \ {None}, ids \in {s \in SUBSET ModelIds : IsFiniteSet(s)}}
    [] kind \in {"loginStatus", "loginCancel"} -> {login.id}
    [] kind = "requests" -> {cursorless(q) : q \in Queries \ {Invalid}}
    [] OTHER -> {None}
OthersStep ==
  /\ UNCHANGED pageVars
  /\ \/ \E kind \in Beside[view] \ {"write", "exit"} : \E arg \in otherArgs(kind) : Send(kind, arg)
     \/ \E c \in Call : Forget(c) \/ Abort(c)
     \/ "write" \in Beside[view] /\ OtherWrites
     \/ "exit" \in Beside[view] /\ RuntimeExits

Next == PageNext \/ OthersStep \/ (HostNext(view \in Detailed) /\ UNCHANGED pageVars)

\* A page lives on: its timer fires, the host takes its login calls, and it
\* gets its answers.
PageFairness ==
  /\ WF_vars(PollFires)
  /\ \A c \in Call : WF_vars(Answer(c)) /\ WF_vars(LoginCall(c) /\ UNCHANGED pageVars)

-----------------------------------------------------------------------------
(***************************************************************************)
(* A page that shows itself busy or loading waits for exactly one call     *)
(* whose answer will end that, and one that does not waits for none: no    *)
(* button stays disabled after its call, and none is enabled beside it     *)
(* (busy, statusPhase, modelsPhase, saving, probeState, imageState, state).*)
(* loadingMore of RequestsView is not among them: it stays set when the    *)
(* query changes under a next page.                                        *)
(***************************************************************************)
Awaited(bys) == Cardinality({c \in Call : op[c].by \in bys /\ op[c].cur})
Exact(shown, bys) == Awaited(bys) = IF shown THEN 1 ELSE 0
BusyIsExact ==
  page # None =>
    CASE view \in {"setup", "settings"} ->
           /\ Exact(page.busy # None, RuntimeOps \cup {"login", "cancel", "discover", "apply", "probe"})
           /\ page.status = "loading" => Awaited({"status"}) = 1
           /\ view = "setup" =>
                Exact(page.probe = "running", {"probe"}) /\ Exact(page.phase = "loading", {"discover"})
      [] view = "models" -> Exact(page.busy # None, {"apply"}) /\ Exact(page.phase = "loading", {"discover"})
      [] view = "playground" ->
           /\ Exact(page.probe = "running", {"probe"}) /\ Exact(page.upload = "uploading", {"upload"})
           /\ Exact(page.phase = "loading", {"discover"})
      [] view = "requests" -> Exact(page.phase = "loading", {"query"})
      [] OTHER -> Awaited({"read"}) + (IF page.poll = "armed" THEN 1 ELSE 0) <= 1

(***************************************************************************)
(* What a page shows answers the question it shows: the requests are the   *)
(* first pages of the filter in the form, in order, and the cursor is that *)
(* of the next one; a probe's result is that of the last run, and an image *)
(* is the last file chosen, on a model that takes images.                  *)
(***************************************************************************)
AnswersAreOwn ==
  page # None =>
    /\ view = "requests" /\ page.phase = "ready" =>
         /\ \A i \in DOMAIN page.items : page.items[i] = [query |-> page.query, page |-> i]
         /\ page.cursor \in {None, Len(page.items) + 1}
    /\ view \in {"setup", "playground"} =>
         /\ (page.probe = "success") = (page.result # None)
         /\ page.result \in {None, page.ran}
    /\ view = "playground" => page.image = None \/ (page.image = page.file /\ imageAllowed(page))

(***************************************************************************)
(* A login that a page shows as ended never goes back to pending: the      *)
(* answer of a poll made before cannot overwrite it (the poll effects),    *)
(* once the effect of the page's new state has run.                        *)
(***************************************************************************)
VerdictShownStays ==
  [][(/\ page # None /\ page' # None /\ view \in {"setup", "settings"}
      /\ page.oauth # None /\ page.oauth.state \in {"success", "failed", "cancelled"})
       => page'.oauth = page.oauth \/ page'.oauth.id > page.oauth.id]_pageVars

(***************************************************************************)
(* A page that shows a login as pending after it has ended learns of it,   *)
(* or a poll of it fails, or the user leaves (the poll effects; after a    *)
(* failed poll the page says so and polls no more).                        *)
(***************************************************************************)
Follows == page # None /\ view \in {"setup", "settings"} /\ Pending(page.oauth)
LoginShown ==
  (Follows /\ ~Pending(login)) ~> (~Follows \/ page.poll = "lost")
=============================================================================
