-------------------------- MODULE GatewayPagesProofs --------------------------
(***************************************************************************)
(* Proofs about the host under its pages, for any settings, credentials,   *)
(* catalogs, writers and number of calls.                                  *)
(*   ForeignKept   applyModels never writes over a route that is not the   *)
(*                 gateway's own: a plan that waits for its write is one   *)
(*                 that was made of the settings at its revision.          *)
(*   PromiseHolds  an exchange of the management client settles with what  *)
(*                 the server answered, or with one failure.               *)
(*   BusyIsRight   a page is busy exactly while it waits.                  *)
(*   AnswersRight  what a page shows of an answer is of its own last       *)
(*                 question.  These two rest on PagesInv: of each page,    *)
(*                 which calls it waits for, by what it shows.             *)
(*   VerdictStays  the verdict on a login that a page shows is its last.   *)
(*                 It rests on PagesInv and LoginInv: the views of a login *)
(*                 on their way to a page are no older than the page's.    *)
(*   ApplyHolds    what applyModels wrote is what it planned.  It rests on *)
(*                 AppliesInv: besides the invariants above, the models of *)
(*                 a request are finitely many, and routes are complete.   *)
(***************************************************************************)
EXTENDS GatewayPages, TLAPS, FiniteSetTheorems, NaturalsInduction, WellFoundedInduction

\* A call has its fields, whatever they hold.
CallFields == {"kind", "pc", "arg", "loc", "out", "by", "cur", "abort"}
IsCall(o) == o = [f \in CallFields |-> o[f]]
IsOps(o) == o = [c \in Call |-> o[c]] /\ \A c \in Call : IsCall(o[c])

\* What makes no plan, and leaves those that wait for their write as they are.
Writing == {"mutate", "reread"}
Kept(o, p) ==
  p.pc \in Writing => p.pc = o.pc /\ p.kind = o.kind /\ p.arg = o.arg /\ p.loc = o.loc
Calm(o, p) == IsOps(p) /\ \A c \in Call : Kept(o[c], p[c])

SettingsFields == {"rev", "user", "base"}
IsSection(s)  == s = [f \in SettingsFields |-> s[f]] /\ s.rev \in Nat
IsSettings(s) == s = None \/ IsSection(s)

(* A plan that waits for its write was made of the settings of its revision, *)
(* which is not above the present one: the write will find the settings the  *)
(* plan is about, or a higher revision.                                      *)
PlanOf(s, o) ==
  planCpaProviderSettings(s, Endpoint, KeyRef,
    SetToSeq({[id |-> id, name |-> id, image |-> o.arg.models[id]] : id \in DOMAIN o.arg.models}))
PlanGood(s, o) ==
  /\ IsSection(s) /\ o.kind = "apply" /\ o.arg.rev \in Nat /\ o.arg.rev <= s.rev
  /\ o.arg.rev = s.rev => o.loc = PlanOf(s, o) /\ o.loc \notin {Invalid, Conflict}

IInv ==
  /\ IsOps(op) /\ IsSettings(settings)
  /\ \A c \in Call : op[c].pc = "mutate" => PlanGood(settings, op[c])

-----------------------------------------------------------------------------
(* The ways in which the handlers and the pages change the calls.            *)
LEMMA CalmTrans ==
  ASSUME NEW o, NEW p, NEW q, Calm(o, p), Calm(p, q)
  PROVE  Calm(o, q)
BY DEF Calm, Kept

LEMMA CalmSame ==
  ASSUME NEW o, IsOps(o)
  PROVE  Calm(o, o)
BY DEF Calm, Kept

\* Of the calls o only c is replaced.
Replaces(o, p, c, r) == p = [o EXCEPT ![c] = r] /\ IsCall(r) /\ r.pc \notin Writing

LEMMA ReplaceCalm ==
  ASSUME NEW o, IsOps(o), NEW p, NEW c, NEW r, Replaces(o, p, c, r)
  PROVE  Calm(o, p)
<1>1. p = [d \in Call |-> p[d]] /\ \A d \in Call : p[d] = IF d = c THEN r ELSE o[d]
  BY DEF IsOps, Replaces
<1>2. IsOps(p)
  BY <1>1 DEF IsOps, Replaces
<1>3. \A d \in Call : Kept(o[d], p[d])
  BY <1>1 DEF Kept, Replaces
<1> QED
  BY <1>2, <1>3 DEF Calm

LEMMA AskCalm ==
  ASSUME NEW o, IsOps(o), NEW kind, NEW arg, NEW by
  PROVE  Calm(o, ask(o, kind, arg, by))
<1>1. IsCall(request(kind, arg, by)) /\ request(kind, arg, by).pc \notin Writing
  BY DEF IsCall, CallFields, request, Free, Writing
<1>2. Replaces(o, ask(o, kind, arg, by), NextCall(o), request(kind, arg, by))
  BY <1>1 DEF Replaces, ask
<1> QED
  BY <1>2, ReplaceCalm

LEMMA FreeCalm ==
  ASSUME NEW o, IsOps(o), NEW p, NEW c, p = [o EXCEPT ![c] = Free]
  PROVE  Calm(o, p)
<1>1. IsCall(Free) /\ Free.pc \notin Writing
  BY DEF IsCall, CallFields, Free, Writing
<1>2. Replaces(o, p, c, Free)
  BY <1>1 DEF Replaces
<1> QED
  BY <1>2, ReplaceCalm

LEMMA DropCalm ==
  ASSUME NEW o, IsOps(o), NEW bys
  PROVE  Calm(o, drop(o, bys))
<1> DEFINE p == drop(o, bys)
<1>1. p = [c \in Call |-> p[c]]
  BY DEF drop
<1>2. ASSUME NEW c \in Call
      PROVE  IsCall(p[c]) /\ Kept(o[c], p[c])
  <2>1. IsCall(o[c])
    BY DEF IsOps
  <2>2. p[c] = o[c] \/ p[c] = [o[c] EXCEPT !.cur = FALSE, !.abort = TRUE, !.out = None]
    BY DEF drop
  <2> QED
    BY <2>1, <2>2 DEF IsCall, CallFields, Kept
<1> QED
  BY <1>1, <1>2 DEF Calm, IsOps

LEMMA GoCalm ==
  ASSUME IsOps(op), NEW c \in Call, NEW pc, pc \notin Writing, NEW loc, go(c, pc, loc)
  PROVE  Calm(op, op')
<1> DEFINE r == [op[c] EXCEPT !.pc = pc, !.loc = loc]
<1>1. IsCall(op[c])
  BY DEF IsOps
<1>2. IsCall(r) /\ r.pc = pc
  BY <1>1 DEF IsCall, CallFields
<1>3. op' = [op EXCEPT ![c] = r]
  BY DEF go
<1>4. Replaces(op, op', c, r)
  BY <1>2, <1>3 DEF Replaces
<1> QED
  BY <1>4, ReplaceCalm

LEMMA FinishCalm ==
  ASSUME IsOps(op), NEW c \in Call, NEW out, finish(c, out)
  PROVE  Calm(op, op')
<1> DEFINE kept == IF op[c].cur THEN out ELSE None
           r == [op[c] EXCEPT !.pc = "done", !.loc = None, !.out = kept]
<1>1. IsCall(op[c])
  BY DEF IsOps
<1>2. IsCall(r) /\ r.pc = "done"
  BY <1>1 DEF IsCall, CallFields
<1>3. op' = [op EXCEPT ![c] = r]
  BY DEF finish
<1>4. Replaces(op, op', c, r)
  BY <1>2, <1>3 DEF Replaces, Writing
<1> QED
  BY <1>4, ReplaceCalm

-----------------------------------------------------------------------------
(* The steps that neither plan nor write.                                    *)
CalmStep == Calm(op, op') /\ settings' = settings

LEMMA EventCalm ==
  ASSUME NEW p, NEW o, Calm(op, o), Event(p, o)
  PROVE  CalmStep
BY DEF Event, CalmStep, hostState

LEMMA AskStep ==
  ASSUME IsOps(op), NEW kind, NEW arg, NEW by, NEW p, Ask(kind, arg, by, p)
  PROVE  CalmStep
<1>1. Calm(op, ask(op, kind, arg, by))
  BY AskCalm
<1> QED
  BY <1>1, EventCalm DEF Ask

LEMMA DropAskCalm ==
  ASSUME NEW o, IsOps(o), NEW bys, NEW kind, NEW arg, NEW by
  PROVE  Calm(o, ask(drop(o, bys), kind, arg, by))
<1>1. Calm(o, drop(o, bys)) /\ IsOps(drop(o, bys))
  BY DropCalm DEF Calm
<1>2. Calm(drop(o, bys), ask(drop(o, bys), kind, arg, by))
  BY <1>1, AskCalm
<1> QED
  BY <1>1, <1>2, CalmTrans

LEMMA AskAgainStep ==
  ASSUME IsOps(op), NEW kind, NEW arg, NEW by, NEW p, AskAgain(kind, arg, by, p)
  PROVE  CalmStep
<1>1. Calm(op, ask(drop(op, {by}), kind, arg, by))
  BY DropAskCalm
<1> QED
  BY <1>1, EventCalm DEF AskAgain

LEMMA PlainStep ==
  ASSUME IsOps(op), NEW p, Event(p, op)
  PROVE  CalmStep
BY CalmSame, EventCalm

LEMMA DropStep ==
  ASSUME IsOps(op), NEW p, NEW bys, Event(p, drop(op, bys))
  PROVE  CalmStep
BY DropCalm, EventCalm

LEMMA AnswerCalm ==
  ASSUME IsOps(op), NEW c \in Call, Answer(c)
  PROVE  CalmStep
<1> DEFINE freed == [op EXCEPT ![c] = Free]
<1>1. Calm(op, freed) /\ IsOps(freed)
  BY FreeCalm DEF Calm
<1>2. \A o : Calm(freed, followUp(o, freed))
  <2> HIDE DEF freed
  <2> QED
    BY <1>1, DropCalm, DropAskCalm, CalmSame DEF followUp
<1>3. PICK out \in {op[c].out, failed("REMOTE_UNAVAILABLE")} :
        op' = followUp([op[c] EXCEPT !.out = out], freed) \/ op' = freed
  BY DEF Answer
<1>4. Calm(op, op')
  <2> HIDE DEF freed
  <2> QED
    BY <1>1, <1>2, <1>3, CalmTrans
<1> QED
  BY <1>4 DEF Answer, CalmStep, hostState

LEMMA PageCalm ==
  ASSUME IsOps(op), PageNext
  PROVE  CalmStep
<1>1. CASE SetupNext
  BY <1>1, AskStep, AskAgainStep, PlainStep, DropStep
     DEF SetupNext, SetupRuntime, SetupRefresh, SetupLogin, SetupCancelLogin, SetupDiscover, SetupApply,
         SetupProbe, SetupCancelProbe
<1>2. CASE SettingsNext
  BY <1>2, AskStep, AskAgainStep
     DEF SettingsNext, SettingsRuntime, SettingsRefresh, SettingsLogin, SettingsCancelLogin
<1>3. CASE ModelsNext
  BY <1>3, AskStep, AskAgainStep, PlainStep DEF ModelsNext, ModelsRefresh, ModelsToggle, ModelsApply
<1>4. CASE PlaygroundNext
  BY <1>4, AskStep, PlainStep, DropStep
     DEF PlaygroundNext, PlaygroundSelect, PlaygroundChoose, PlaygroundRead, PlaygroundRemove,
         PlaygroundRun, PlaygroundCancel
<1>5. CASE RequestsNext
  <2>1. CASE RequestsMore
    BY <2>1, AskStep DEF RequestsMore
  <2>2. ASSUME NEW q, RequestsQuery(q)
        PROVE  CalmStep
    <3> DEFINE left == drop(op, {"query", "next"})
    <3>1. Calm(op, left) /\ Calm(op, ask(left, "requests", cursorless(q), "query"))
      BY DropCalm, DropAskCalm
    <3>2. PICK p : Event(p, left) \/ Event(p, ask(left, "requests", cursorless(q), "query"))
      BY <2>2 DEF RequestsQuery
    <3> HIDE DEF left
    <3> QED
      BY <3>1, <3>2, EventCalm
  <2> QED
    BY <1>5, <2>1, <2>2 DEF RequestsNext
<1>6. CASE ReadsRefresh
  BY <1>6, AskAgainStep DEF ReadsRefresh
<1>7. CASE PollFires
  BY <1>7, AskCalm, EventCalm DEF PollFires
<1>8. CASE DashboardPoll
  BY <1>8, AskCalm, EventCalm DEF DashboardPoll
<1>9. CASE Mount
  BY <1>9, AskCalm, EventCalm DEF Mount
<1>10. CASE Leave
  BY <1>10, DropStep DEF Leave
<1>11. CASE \E c \in Call : Answer(c)
  BY <1>11, AnswerCalm
<1> QED
  BY <1>1, <1>2, <1>3, <1>4, <1>5, <1>6, <1>7, <1>8, <1>9, <1>10, <1>11 DEF PageNext

-----------------------------------------------------------------------------
(* The handlers.  Apply makes a plan, Mutate writes one; the others are calm.*)
LEMMA GoStep ==
  ASSUME IsOps(op), NEW c \in Call, NEW pc, pc \notin Writing, NEW loc, go(c, pc, loc),
         settings' = settings
  PROVE  CalmStep
BY GoCalm DEF CalmStep

LEMMA FinishStep ==
  ASSUME IsOps(op), NEW c \in Call, NEW out, finish(c, out), settings' = settings
  PROVE  CalmStep
BY FinishCalm DEF CalmStep

LEMMA SameStep ==
  ASSUME IsOps(op), UNCHANGED op, settings' = settings
  PROVE  CalmStep
BY CalmSame DEF CalmStep

LEMMA RuntimeCalm ==
  ASSUME IsOps(op), NEW c \in Call, RuntimeCall(c)
  PROVE  CalmStep
<1>1. settings' = settings
  BY DEF RuntimeCall, Operate, Describe, SetCredential, RunRuntime, RuntimeStarts, RuntimeStops,
         RuntimeInstalls, only, hostState
<1>2. nextRef(c) => CalmStep
  BY <1>1, GoStep DEF nextRef, Writing
<1>3. CASE Operate(c)
  BY <1>1, <1>3, GoStep DEF Operate, Writing
<1>4. CASE Describe(c)
  BY <1>1, <1>2, <1>4, GoStep, FinishStep DEF Describe, Writing
<1>5. CASE SetCredential(c)
  BY <1>2, <1>5 DEF SetCredential
<1>6. CASE RunRuntime(c)
  <2>1. \A code : Refuse(c, code) => CalmStep
    BY <1>1, FinishStep DEF Refuse
  <2>2. \A state, pc : Begin(c, state, pc) /\ pc \notin Writing => CalmStep
    BY <1>1, GoStep DEF Begin
  <2>3. StartRuntime(c) => CalmStep
    BY <2>1, <2>2 DEF StartRuntime, Writing
  <2> QED
    BY <1>1, <1>6, <2>1, <2>2, <2>3, GoStep, FinishStep DEF RunRuntime, RuntimeOps, Starts, Writing
<1>7. CASE RuntimeStarts(c)
  BY <1>1, <1>7, SameStep, FinishStep DEF RuntimeStarts
<1>8. CASE RuntimeStops(c)
  BY <1>1, <1>8, GoStep, FinishStep DEF RuntimeStops, Writing
<1>9. CASE RuntimeInstalls(c)
  BY <1>1, <1>9, FinishStep DEF RuntimeInstalls
<1> QED
  BY <1>3, <1>4, <1>5, <1>6, <1>7, <1>8, <1>9 DEF RuntimeCall

LEMMA LoginCalm ==
  ASSUME IsOps(op), NEW c \in Call, LoginCall(c)
  PROVE  CalmStep
<1>1. settings' = settings
  BY DEF LoginCall, LoginStart, LoginStatus, LoginCancel, only, hostState
<1>2. CASE LoginStart(c)
  BY <1>1, <1>2, FinishStep DEF LoginStart
<1>3. CASE LoginStatus(c)
  BY <1>1, <1>3, FinishStep DEF LoginStatus
<1>4. CASE LoginCancel(c)
  BY <1>1, <1>4, FinishStep DEF LoginCancel
<1> QED
  BY <1>2, <1>3, <1>4 DEF LoginCall

LEMMA StatusCalm ==
  ASSUME IsOps(op), NEW c \in Call, StatusStep(c)
  PROVE  CalmStep
<1>1. settings' = settings
  BY DEF StatusStep, Status, StatusViews, StatusDone, Open, only, hostState
<1>2. CASE Status(c)
  BY <1>1, <1>2, GoStep DEF Status, Writing
<1>3. CASE StatusViews(c)
  BY <1>1, <1>3, GoStep, FinishStep DEF StatusViews, Writing
<1>4. CASE StatusDone(c)
  BY <1>1, <1>4, FinishStep DEF StatusDone
<1> QED
  BY <1>2, <1>3, <1>4 DEF StatusStep

LEMMA OtherCalm ==
  ASSUME IsOps(op), NEW c \in Call, OtherStep(c)
  PROVE  CalmStep
<1>1. settings' = settings
  BY DEF OtherStep, Probe, Upload, Requests, Read, Source, SourceDone, Open, only, hostState
<1>2. CASE Probe(c)
  BY <1>1, <1>2, FinishStep DEF Probe
<1>3. CASE Upload(c)
  BY <1>1, <1>3, FinishStep DEF Upload
<1>4. CASE Requests(c)
  BY <1>1, <1>4, FinishStep DEF Requests
<1>5. CASE Read(c)
  BY <1>1, <1>5, FinishStep DEF Read
<1>6. CASE Source(c)
  BY <1>1, <1>6, GoStep DEF Source, Writing
<1>7. CASE SourceDone(c)
  BY <1>1, <1>7, SameStep, FinishStep DEF SourceDone
<1> QED
  BY <1>2, <1>3, <1>4, <1>5, <1>6, <1>7 DEF OtherStep

LEMMA HostCalm ==
  ASSUME IsOps(op), HostNext(view \in Detailed)
  PROVE  CalmStep \/ \E c \in Call : Apply(c) \/ Mutate(c)
<1>1. CASE LoginEnds
  BY <1>1, SameStep DEF LoginEnds
<1>2. ASSUME NEW c \in Call, Handler(c)
      PROVE  CalmStep \/ Apply(c) \/ Mutate(c)
  <2>1. ASSUME ModelsStep(c)
        PROVE  CalmStep \/ Apply(c) \/ Mutate(c)
    <3>1. CASE ModelsCall(c)
      BY <3>1, GoStep, FinishStep DEF ModelsCall, Writing, Open, only, hostState
    <3>2. CASE ModelsDone(c)
      BY <3>2, FinishStep DEF ModelsDone, only, hostState
    <3>3. CASE Reread(c)
      BY <3>3, FinishStep DEF Reread, only, hostState
    <3> QED
      BY <2>1, <3>1, <3>2, <3>3 DEF ModelsStep
  <2> QED
    BY <1>2, <2>1, LoginCalm, RuntimeCalm, StatusCalm, OtherCalm DEF Handler
<1>3. ASSUME NEW c \in Call, ClientStep(c) \/ CoarseStep(c)
      PROVE  CalmStep
  BY <1>3, SameStep DEF ClientStep, CoarseStep, hostState
<1> QED
  BY <1>1, <1>2, <1>3 DEF HostNext

LEMMA OthersCalm ==
  ASSUME IsOps(op), OthersStep
  PROVE  CalmStep \/ OtherWrites
<1>1. ASSUME NEW kind, NEW arg, Send(kind, arg)
      PROVE  CalmStep
  <2>1. op' = ask(op, kind, arg, "other")
    BY <1>1 DEF Send, ask
  <2> QED
    BY <1>1, <2>1, AskCalm DEF Send, CalmStep, hostState
<1>2. ASSUME NEW c \in Call, Forget(c)
      PROVE  CalmStep
  BY <1>2, FreeCalm DEF Forget, CalmStep, hostState
<1>3. ASSUME NEW c \in Call, Abort(c)
      PROVE  CalmStep
  <2> DEFINE r == [op[c] EXCEPT !.abort = TRUE]
  <2>1. IsCall(op[c])
    BY DEF IsOps
  <2>2. op' = [op EXCEPT ![c] = r]
    BY <1>3 DEF Abort
  <2>3. op' = [d \in Call |-> op'[d]] /\ \A d \in Call : op'[d] = IF d = c THEN r ELSE op[d]
    BY <2>2 DEF IsOps
  <2>4. IsCall(r) /\ Kept(op[c], r)
    BY <2>1 DEF IsCall, CallFields, Kept
  <2>5. Calm(op, op')
    <3> HIDE DEF r
    <3> QED
      BY <2>3, <2>4 DEF Calm, IsOps, Kept
  <2> QED
    BY <1>3, <2>5 DEF Abort, CalmStep, hostState
<1>4. CASE RuntimeExits
  BY <1>4, SameStep DEF RuntimeExits
<1> QED
  BY <1>1, <1>2, <1>3, <1>4 DEF OthersStep

(* Every step is calm, writes the settings from outside, plans, or writes.   *)
LEMMA StepKinds ==
  ASSUME IsOps(op), [Next]_vars
  PROVE  CalmStep \/ OtherWrites \/ \E c \in Call : Apply(c) \/ Mutate(c)
<1>1. CASE Next
  BY <1>1, PageCalm, OthersCalm, HostCalm DEF Next
<1>2. CASE UNCHANGED vars
  BY <1>2, SameStep DEF vars, hostVars, hostState
<1> QED
  BY <1>1, <1>2

-----------------------------------------------------------------------------
(* The invariant, and what follows for a write.                              *)
LEMMA InitIInv ==
  ASSUME NEW desc, IsSettings(desc), NEW keys, NEW mode, NEW state, NEW connected,
         HostInit(desc, keys, mode, state, connected)
  PROVE  IInv
<1>1. IsCall(Free) /\ Free.pc = "idle"
  BY DEF IsCall, CallFields, Free
<1>2. \A c \in Call : op[c] = Free
  BY DEF HostInit
<1>3. IsOps(op)
  BY <1>1, <1>2 DEF HostInit, IsOps
<1> QED
  BY <1>1, <1>2, <1>3 DEF HostInit, IInv

(* A plan stays good while its call waits: it is about its own revision, and *)
(* whoever writes the settings raises theirs.                                *)
LEMMA CalmInv ==
  ASSUME IInv, CalmStep
  PROVE  IInv'
BY DEF IInv, CalmStep, Calm, Kept, Writing, PlanGood, PlanOf

LEMMA RaisedInv ==
  ASSUME IInv, IsOps(op'), IsSection(settings), NEW user,
         settings' = [settings EXCEPT !.user = user, !.rev = @ + 1],
         \A c \in Call : op'[c].pc = "mutate" => Kept(op[c], op'[c])
  PROVE  IInv'
<1>1. IsSection(settings') /\ settings'.rev = settings.rev + 1
  <2>1. settings = [f \in SettingsFields |-> settings[f]] /\ settings.rev \in Nat
    BY DEF IsSection
  <2>2. settings' = [f \in SettingsFields |->
                       IF f = "rev" THEN settings.rev + 1 ELSE IF f = "user" THEN user ELSE settings[f]]
    BY <2>1 DEF SettingsFields
  <2>3. settings'.rev = settings.rev + 1
    BY <2>2 DEF SettingsFields
  <2>4. settings' = [f \in SettingsFields |-> settings'[f]]
    BY <2>2
  <2>5. settings'.rev \in Nat
    BY <2>1, <2>3
  <2> QED
    BY <2>3, <2>4, <2>5 DEF IsSection
<1>2. ASSUME NEW c \in Call, op'[c].pc = "mutate"
      PROVE  PlanGood(settings', op'[c])
  <2>1. op[c].pc = "mutate" /\ op'[c].kind = op[c].kind /\ op'[c].arg = op[c].arg
    BY <1>2 DEF Kept, Writing
  <2>2. PlanGood(settings, op[c])
    BY <2>1 DEF IInv
  <2>3. settings.rev \in Nat
    BY DEF IsSection
  <2> QED
    BY <1>1, <2>1, <2>2, <2>3 DEF PlanGood
<1> QED
  BY <1>1, <1>2 DEF IInv, IsSettings

LEMMA OtherWritesInv ==
  ASSUME IInv, OtherWrites
  PROVE  IInv'
<1>1. IsOps(op') /\ IsSection(settings)
  BY DEF IInv, OtherWrites, IsSettings
<1>2. \A c \in Call : op'[c].pc = "mutate" => Kept(op[c], op'[c])
  BY DEF OtherWrites, Kept
<1>3. PICK user : settings' = [settings EXCEPT !.user = user, !.rev = @ + 1]
  BY DEF OtherWrites
<1> QED
  BY <1>1, <1>2, <1>3, RaisedInv

LEMMA ApplyInv ==
  ASSUME IInv, NEW c \in Call, Apply(c)
  PROVE  IInv'
<1> DEFINE plan == planFor(op[c].arg.models)
           next == IF plan.changed THEN "mutate" ELSE "reread"
           r == [op[c] EXCEPT !.pc = next, !.loc = plan]
<1>1. settings' = settings /\ IsOps(op)
  BY DEF Apply, only, hostState, IInv
<1>2. ASSUME NEW out, finish(c, out)
      PROVE  IInv'
  BY <1>1, <1>2, FinishStep, CalmInv
<1>3. ASSUME settings # None, op[c].arg.rev = settings.rev, plan \notin {Invalid, Conflict},
             At(c, "apply", "sent"), go(c, next, plan)
      PROVE  IInv'
  <2>1. IsCall(op[c])
    BY <1>1 DEF IsOps
  <2>2. op' = [op EXCEPT ![c] = r]
    BY <1>3 DEF go
  <2>3. op' = [d \in Call |-> op'[d]] /\ \A d \in Call : op'[d] = IF d = c THEN r ELSE op[d]
    BY <1>1, <2>2 DEF IsOps
  <2>4. IsCall(r) /\ r.kind = op[c].kind /\ r.arg = op[c].arg /\ r.loc = plan
    BY <2>1 DEF IsCall, CallFields
  <2>5. plan = PlanOf(settings, r)
    BY <2>4 DEF planFor, PlanOf
  <2>6. PlanGood(settings, r)
    <3> HIDE DEF plan, r
    <3> QED
      BY <1>3, <2>4, <2>5 DEF PlanGood, At, IInv, IsSettings, IsSection
  <2> HIDE DEF plan, next, r
  <2>7. IsOps(op')
    BY <1>1, <2>3, <2>4 DEF IsOps
  <2> QED
    BY <1>1, <2>3, <2>6, <2>7 DEF IInv
<1> QED
  BY <1>2, <1>3 DEF Apply

LEMMA MutateInv ==
  ASSUME IInv, NEW c \in Call, Mutate(c)
  PROVE  IInv'
<1>1. CASE op[c].arg.rev # settings.rev
  BY <1>1, FinishStep, CalmInv DEF Mutate, IInv
<1>2. CASE op[c].arg.rev = settings.rev
  <2> DEFINE user == withOps(settings.user, op[c].loc)
             r == [op[c] EXCEPT !.pc = "reread", !.loc = op[c].loc]
  <2>1. IsSection(settings) /\ IsOps(op)
    BY DEF IInv, Mutate, At, PlanGood
  <2>2. settings' = [settings EXCEPT !.user = user, !.rev = @ + 1] /\ op' = [op EXCEPT ![c] = r]
    BY <1>2 DEF Mutate, go
  <2>3. op' = [d \in Call |-> op'[d]] /\ \A d \in Call : op'[d] = IF d = c THEN r ELSE op[d]
    BY <2>1, <2>2 DEF IsOps
  <2>4. IsCall(r) /\ r.pc = "reread"
    BY <2>1 DEF IsOps, IsCall, CallFields
  <2> HIDE DEF user, r
  <2>5. IsOps(op')
    BY <2>1, <2>3, <2>4 DEF IsOps
  <2>6. \A d \in Call : op'[d].pc = "mutate" => Kept(op[d], op'[d])
    BY <2>3, <2>4 DEF Kept
  <2> QED
    BY <2>1, <2>2, <2>5, <2>6, RaisedInv
<1> QED
  BY <1>1, <1>2

LEMMA StepInv ==
  ASSUME IInv, [Next]_vars
  PROVE  IInv'
BY StepKinds, CalmInv, OtherWritesInv, ApplyInv, MutateInv DEF IInv

-----------------------------------------------------------------------------
(* The plan and the route it was made against.                               *)
LEMMA PlannedRoute ==
  ASSUME NEW s, NEW o, PlanOf(s, o) \notin {Invalid, Conflict}
  PROVE  ~Foreign(s.user) /\ (s.user = None => s.base = None)
<1> DEFINE models  == SetToSeq({[id |-> id, name |-> id, image |-> o.arg.models[id]] : id \in DOMAIN o.arg.models})
           profile == createCpaProviderRoute(Endpoint, KeyRef, models)
<1>1. profile # Invalid /\ assertNoProviderConflict(s, profile) # Conflict
  <2> HIDE DEF profile
  <2>1. profile = createCpaProviderRoute(Endpoint, KeyRef, models)
    BY DEF profile
  <2> HIDE DEF models
  <2>2. planCpaProviderSettings(s, Endpoint, KeyRef, models) \notin {Invalid, Conflict}
    BY DEF PlanOf, models
  <2> QED
    BY <2>1, <2>2 DEF planCpaProviderSettings
<1>2. /\ normalizeEndpoint(Endpoint) # Invalid
      /\ profile.api = CPA_PROVIDER_API /\ profile.key = KeyRef
      /\ profile.base = normalizeEndpoint(Endpoint)
  <2> HIDE DEF models
  <2> QED
    BY <1>1 DEF createCpaProviderRoute
<1> HIDE DEF profile
<1>3. s.user # None => routeHasOwnedIdentity(s.user, profile)
  BY <1>1 DEF assertNoProviderConflict
<1>4. s.user = None => s.base = None
  BY <1>1 DEF assertNoProviderConflict
<1> QED
  BY <1>2, <1>3, <1>4 DEF routeHasOwnedIdentity, Foreign, ownRoute

(* Only Mutate commits: no other step takes a call from its plan to the      *)
(* reading after the write.                                                  *)
LEMMA CommitMutates ==
  ASSUME IInv, [Next]_vars, NEW c \in Call, Commits(c)
  PROVE  Mutate(c)
<1>1. op[c].pc = "mutate" /\ op'[c].pc = "reread" /\ IsOps(op)
  BY DEF Commits, IInv
<1>2. ~CalmStep
  BY <1>1 DEF CalmStep, Calm, Kept, Writing
<1>3. ~OtherWrites
  BY <1>1 DEF OtherWrites
<1>4. ASSUME NEW d \in Call, d # c
      PROVE  ~Apply(d) /\ ~Mutate(d)
  BY <1>1, <1>4 DEF Apply, Mutate, go, finish, IsOps
<1>5. ~Apply(c)
  BY <1>1 DEF Apply, At
<1> QED
  BY <1>1, <1>2, <1>3, <1>4, <1>5, StepKinds

LEMMA CommitWrites ==
  ASSUME IInv, [Next]_vars, NEW c \in Call, Commits(c)
  PROVE  op[c].arg.rev = settings.rev
<1>1. Mutate(c) /\ op'[c].pc = "reread"
  BY CommitMutates DEF Commits
<1>2. ASSUME op[c].arg.rev # settings.rev, NEW out, finish(c, out)
      PROVE  FALSE
  BY <1>1, <1>2 DEF IInv, finish, IsOps, IsCall, CallFields
<1> QED
  BY <1>1, <1>2 DEF Mutate

LEMMA StepKeeps ==
  ASSUME IInv, [Next]_vars
  PROVE  [\A c \in Call :
            Commits(c) => ~Foreign(settings.user) /\ (settings.user = None => settings.base = None)]_hostVars
<1> SUFFICES ASSUME NEW c \in Call, Commits(c)
             PROVE  ~Foreign(settings.user) /\ (settings.user = None => settings.base = None)
  OBVIOUS
<1>1. PlanGood(settings, op[c])
  BY DEF IInv, Commits
<1>2. op[c].arg.rev = settings.rev
  BY CommitWrites
<1>3. PlanOf(settings, op[c]) \notin {Invalid, Conflict}
  BY <1>1, <1>2 DEF PlanGood
<1> QED
  BY <1>3, PlannedRoute

(* The write of applyModels never replaces a route that is not the gateway's *)
(* own, and never shadows one of a lower layer, whatever the pages, the other*)
(* callers and the other writers of the settings do meanwhile                *)
(* (assertNoProviderConflict; the expected revision of settings.mutate).     *)
THEOREM ForeignKept ==
  ASSUME NEW desc, IsSettings(desc), NEW keys, NEW mode, NEW state, NEW connected
  PROVE  HostInit(desc, keys, mode, state, connected) /\ [][Next]_vars => ForeignRouteKept
<1>1. HostInit(desc, keys, mode, state, connected) => IInv
  BY InitIInv
<1>2. IInv /\ [Next]_vars => IInv'
  BY StepInv
<1>3. IInv /\ [Next]_vars
      => [\A c \in Call :
            Commits(c) => ~Foreign(settings.user) /\ (settings.user = None => settings.base = None)]_hostVars
  BY StepKeeps
<1> QED
  BY <1>1, <1>2, <1>3, PTL DEF ForeignRouteKept

-----------------------------------------------------------------------------
(* The exchanges of the client.                                              *)
ExchFields == {"st", "of", "key", "timedOut", "reply", "res"}
IsExch(e)  == e = [f \in ExchFields |-> e[f]]
Running(e) == e.st \in {"fetch", "body"}
HasReply(e) == e.reply # None

(* An exchange e and the entries t that the server took for it: before the   *)
(* request there is no reply; while it runs, its reply has one of the marks  *)
(* that Headers and Body tell apart, those of Headers are gone once the body *)
(* is read, and an undamaged reply of the queue is all that was taken.       *)
Sound(e, t) ==
  /\ IsExch(e)
  /\ e.st \in {"resolve", "fetch", "body"} => e.of \in Operations
  /\ e.st = "resolve" => ~HasReply(e) /\ e.key = None
  /\ Running(e) /\ HasReply(e) =>
       /\ e.reply.check \in {"status", "type", "length", "bytes", "json", "body"}
       /\ e.reply.check = "body" /\ e.of = "usageQueue" => e.reply.body = t
  /\ e.st = "body" => HasReply(e) /\ e.reply.check \notin {"status", "type", "length"}

ClientInv ==
  /\ exch = [c \in Call |-> exch[c]] /\ popped = [c \in Call |-> popped[c]]
  /\ \A c \in Call : Sound(exch[c], popped[c])

\* What PromiseKept says of a step that makes exchange c become e.
Fulfils(c, e) == Underway(c) /\ e.st = "settled" => e.res \in Promised(c, Answered(c))

\* A step changes the exchange c alone.
Touches(c, e, t) == exch' = [exch EXCEPT ![c] = e] /\ popped' = [popped EXCEPT ![c] = t]

ClientHolds == ClientInv' /\ \A c \in Call : Fulfils(c, exch'[c])

LEMMA TouchHolds ==
  ASSUME ClientInv, NEW c \in Call, NEW e, NEW t, Touches(c, e, t), Sound(e, t), Fulfils(c, e)
  PROVE  ClientHolds
<1>1. /\ exch' = [d \in Call |-> exch'[d]] /\ popped' = [d \in Call |-> popped'[d]]
      /\ \A d \in Call : exch'[d] = (IF d = c THEN e ELSE exch[d])
                      /\ popped'[d] = (IF d = c THEN t ELSE popped[d])
  BY DEF Touches, ClientInv
<1>2. \A d \in Call : Sound(exch'[d], popped'[d])
  BY <1>1 DEF ClientInv
<1>3. \A d \in Call : Fulfils(d, exch'[d])
  BY <1>1 DEF Fulfils, Underway
<1>4. QED
  BY <1>1, <1>2, <1>3 DEF ClientHolds, ClientInv

LEMMA SameHolds ==
  ASSUME ClientInv, exch' = exch, popped' = popped
  PROVE  ClientHolds
BY DEF ClientHolds, ClientInv, Fulfils, Underway

\* Steps that leave popped alone.
LEMMA MoveHolds ==
  ASSUME ClientInv, NEW c \in Call, NEW e, exch' = [exch EXCEPT ![c] = e], popped' = popped,
         Sound(e, popped[c]), Fulfils(c, e)
  PROVE  ClientHolds
<1>1. Touches(c, e, popped[c])
  BY DEF Touches, ClientInv
<1>2. QED
  BY <1>1, TouchHolds

LEMMA SettledSound ==
  ASSUME NEW e, IsExch(e), NEW res, NEW t
  PROVE  Sound(Settled(e, res), t) /\ Settled(e, res).st = "settled" /\ Settled(e, res).res = res
<1> DEFINE r == IF e.reply = None THEN None ELSE [check |-> "read"]
           s == [e EXCEPT !.st = "settled", !.res = res, !.timedOut = FALSE, !.reply = r]
<1>1. Settled(e, res) = s
  BY DEF Settled
<1> HIDE DEF r
<1>2. s = [f \in ExchFields |-> s[f]] /\ s.st = "settled" /\ s.res = res
  BY DEF IsExch, ExchFields
<1> HIDE DEF s
<1>3. QED
  BY <1>1, <1>2 DEF Sound, IsExch, Running

LEMMA IdleSound ==
  ASSUME NEW t
  PROVE  /\ Sound(Idle, t) /\ Idle.st = "idle"
         /\ \A o \in Operations : Sound(Opened(o), t) /\ Opened(o).st = "resolve"
<1>1. Sound(Idle, t) /\ Idle.st = "idle"
  BY DEF Sound, IsExch, ExchFields, Idle, Running
<1>2. ASSUME NEW o \in Operations PROVE Sound(Opened(o), t) /\ Opened(o).st = "resolve"
  BY DEF Sound, IsExch, ExchFields, Idle, Opened, Running, HasReply
<1>3. QED
  BY <1>1, <1>2

LEMMA FetchingSound ==
  ASSUME NEW e, IsExch(e), e.of \in Operations, ~HasReply(e), NEW key, NEW aborted, NEW t
  PROVE  Sound(Fetching(e, key, aborted), t)
<1>1. CASE aborted
  BY <1>1, SettledSound DEF Fetching
<1>2. CASE ~aborted
  <2> DEFINE s == [e EXCEPT !.st = "fetch", !.key = key]
  <2>1. s = [f \in ExchFields |-> s[f]] /\ s.st = "fetch" /\ s.of = e.of /\ s.reply = e.reply
    BY DEF IsExch, ExchFields
  <2> HIDE DEF s
  <2>2. Sound(s, t)
    BY <2>1 DEF Sound, IsExch, HasReply, Running
  <2>3. QED
    BY <1>2, <2>2 DEF Fetching, s
<1>3. QED
  BY <1>1, <1>2

(* What the parsers make of a body is a value or invalid_shape.              *)
LEMMA ParseIs ==
  ASSUME NEW o \in Operations, NEW body
  PROVE  /\ parse(o, body).ok \/ parse(o, body) = failed("invalid_shape")
         /\ o = "usageQueue" => parse(o, body) \in {value(body), failed("invalid_shape")}
<1>1. CASE o = "usageQueue"
  BY <1>1 DEF parse, parseUsage, value, failed
<1>2. CASE o = "models"
  <2>1. parse(o, body) = parseModels(body)
    BY <1>2 DEF parse
  <2>2. parseModels(body) \in {value(body), failed("invalid_shape")}
    BY DEF parseModels
  <2>3. QED
    BY <1>2, <2>1, <2>2 DEF value
<1>3. CASE o = "authStatus"
  BY <1>3 DEF parse, parseAccountStatus, value
<1>4. CASE o = "selections"
  BY <1>4 DEF parse, parseQuotaSelections, value
<1>5. CASE o = "quota"
  BY <1>5 DEF parse, parseWhamQuota, value, failed
<1>6. QED
  BY <1>1, <1>2, <1>3, <1>4, <1>5 DEF Operations

-----------------------------------------------------------------------------
(* The steps of an exchange keep the invariant and the promise.              *)
LEMMA FailHolds ==
  ASSUME ClientInv, NEW c \in Call, NEW code, failed(code) \in Failures,
         exch' = [exch EXCEPT ![c] = Settled(exch[c], failed(code))], popped' = popped
  PROVE  ClientHolds
<1> DEFINE res == failed(code)
           e   == Settled(exch[c], res)
<1>1. exch' = [exch EXCEPT ![c] = e] /\ res \in Promised(c, Answered(c)) /\ IsExch(exch[c])
  BY DEF Promised, ClientInv, Sound
<1> HIDE DEF res
<1>2. Sound(e, popped[c]) /\ e.res = res
  BY <1>1, SettledSound
<1> HIDE DEF e
<1>3. Fulfils(c, e)
  BY <1>1, <1>2 DEF Fulfils
<1>4. QED
  BY <1>1, <1>2, <1>3, MoveHolds

LEMMA ResolveHolds ==
  ASSUME ClientInv, NEW c \in Call, NEW stored, NEW aborted, Resolve(c, stored, aborted)
  PROVE  ClientHolds
<1>1. IsExch(exch[c]) /\ exch[c].of \in Operations /\ ~HasReply(exch[c]) /\ ~Underway(c)
  BY DEF Resolve, ClientInv, Sound, Underway
<1> DEFINE e == IF stored = None THEN Settled(exch[c], failed("credential"))
                ELSE IF ~LoopbackOrOptIn THEN Settled(exch[c], failed("configuration"))
                ELSE Fetching(exch[c], stored, aborted)
<1>2. Sound(e, popped[c])
  BY <1>1, SettledSound, FetchingSound
<1>3. exch' = [exch EXCEPT ![c] = e] /\ popped' = popped
  BY DEF Resolve
<1> HIDE DEF e
<1>4. QED
  BY <1>1, <1>2, <1>3, MoveHolds DEF Fulfils

LEMMA AgainHolds ==
  ASSUME ClientInv, NEW c \in Call, NEW aborted, Again(c, "quota", aborted)
  PROVE  ClientHolds
<1> DEFINE opened == [Idle EXCEPT !.of = "quota"]
           e == Fetching(opened, exch[c].key, aborted)
<1>1. IsExch(opened) /\ opened.of \in Operations /\ ~HasReply(opened)
  BY DEF IsExch, ExchFields, Idle, Operations, HasReply
<1>2. exch' = [exch EXCEPT ![c] = e] /\ popped' = popped /\ ~Underway(c)
  BY DEF Again, Underway
<1> HIDE DEF opened
<1>3. Sound(e, popped[c])
  BY <1>1, FetchingSound
<1> HIDE DEF e
<1>4. QED
  BY <1>2, <1>3, MoveHolds DEF Fulfils

\* A reply changes nothing else of its exchange.
LEMMA ReplySound ==
  ASSUME NEW e, IsExch(e), NEW reply
  PROVE  LET s == [e EXCEPT !.reply = reply]
         IN  /\ IsExch(s) /\ s.reply = reply
             /\ s.st = e.st /\ s.of = e.of /\ s.key = e.key
BY DEF IsExch, ExchFields

Replied(c, reply, t) == exch' = [exch EXCEPT ![c].reply = reply] /\ popped' = [popped EXCEPT ![c] = t]

LEMMA ServedHolds ==
  ASSUME ClientInv, NEW c \in Call, NEW reply, NEW t, Replied(c, reply, t),
         reply.check \in {"status", "body"},
         exch[c].of = "usageQueue" /\ reply.check = "body" => reply.body = t,
         exch[c].st \notin {"resolve", "body"}
  PROVE  ClientHolds
<1> DEFINE e == [exch[c] EXCEPT !.reply = reply]
<1>1. IsExch(exch[c]) /\ (Running(exch[c]) => exch[c].of \in Operations)
  BY DEF ClientInv, Sound, Running
<1>2. IsExch(e) /\ e.reply = reply /\ e.st = exch[c].st /\ e.of = exch[c].of
  BY <1>1, ReplySound
<1>3. Touches(c, e, t)
  BY DEF Touches, Replied
<1> HIDE DEF e
<1>4. Sound(e, t)
  BY <1>1, <1>2 DEF Sound, Running
<1>5. Fulfils(c, e)
  BY <1>2 DEF Fulfils, Underway
<1>6. QED
  BY <1>3, <1>4, <1>5, TouchHolds

LEMMA ServeHolds ==
  ASSUME ClientInv, NEW c \in Call, NEW ok, NEW bodies, Serve(c, ok, bodies)
  PROVE  ClientHolds
<1>1. exch[c].st \notin {"resolve", "body"}
  BY DEF Serve, ClientInv, Sound, HasReply
<1> DEFINE before == popped[c]
<1>2. popped = [popped EXCEPT ![c] = before]
  BY DEF ClientInv
<1> HIDE DEF before
<1>3. CASE ~ok
  <2> DEFINE reply == [check |-> "status"]
  <2>1. exch' = [exch EXCEPT ![c].reply = reply] /\ popped' = popped /\ reply.check = "status"
    BY <1>3 DEF Serve
  <2> HIDE DEF reply
  <2>2. Replied(c, reply, before)
    BY <1>2, <2>1 DEF Replied
  <2>3. QED
    BY <1>1, <2>1, <2>2, ServedHolds
<1>4. CASE ok /\ exch[c].of = "usageQueue"
  <2> DEFINE took  == SubSeq(queue, 1, IF Len(queue) < Count THEN Len(queue) ELSE Count)
             reply == [check |-> "body", body |-> took]
  <2>1. Replied(c, reply, took) /\ reply.check = "body" /\ reply.body = took
    BY <1>4 DEF Serve, Replied
  <2> HIDE DEF took, reply
  <2>2. QED
    BY <1>1, <2>1, ServedHolds
<1>5. CASE ok /\ exch[c].of # "usageQueue"
  <2>1. PICK b \in bodies : exch' = [exch EXCEPT ![c].reply = [check |-> "body", body |-> b]] /\ popped' = popped
    BY <1>5 DEF Serve
  <2> DEFINE reply == [check |-> "body", body |-> b]
  <2>2. exch' = [exch EXCEPT ![c].reply = reply] /\ reply.check = "body"
    BY <2>1
  <2> HIDE DEF reply
  <2>3. Replied(c, reply, before)
    BY <1>2, <2>1, <2>2 DEF Replied
  <2>4. QED
    BY <1>1, <1>5, <2>2, <2>3, ServedHolds
<1>6. QED
  BY <1>3, <1>4, <1>5

LEMMA GarbleHolds ==
  ASSUME ClientInv, NEW c \in Call, Garble(c)
  PROVE  ClientHolds
<1>1. PICK f \in Faults : exch' = [exch EXCEPT ![c].reply = [check |-> f]]
  BY DEF Garble
<1> DEFINE reply == [check |-> f]
           e == [exch[c] EXCEPT !.reply = reply]
<1>2. reply.check = f /\ f \in {"status", "type", "length", "bytes", "json"}
  BY FaultsAssumption
<1> HIDE DEF reply
<1>3. IsExch(exch[c]) /\ exch[c].st = "fetch" /\ exch[c].of \in Operations /\ popped' = popped
  BY DEF Garble, ClientInv, Sound
<1>4. IsExch(e) /\ e.reply = reply /\ e.st = "fetch" /\ e.of = exch[c].of
  BY <1>3, ReplySound
<1>5. exch' = [exch EXCEPT ![c] = e]
  BY <1>1 DEF reply
<1> HIDE DEF e
<1>6. Sound(e, popped[c])
  BY <1>2, <1>3, <1>4 DEF Sound, Running
<1>7. QED
  BY <1>3, <1>4, <1>5, <1>6, MoveHolds DEF Fulfils

LEMMA HeadersHolds ==
  ASSUME ClientInv, NEW c \in Call, Headers(c)
  PROVE  ClientHolds
<1>1. Sound(exch[c], popped[c]) /\ exch[c].st = "fetch" /\ HasReply(exch[c]) /\ popped' = popped
  BY DEF Headers, ClientInv, HasReply
<1>2. CASE exch[c].reply.check \in {"status", "type", "length"}
  <2>1. \E code \in {"http_status", "content_type", "response_too_large"} :
          exch' = [exch EXCEPT ![c] = Settled(exch[c], failed(code))]
    BY <1>2 DEF Headers
  <2>2. QED
    BY <1>1, <2>1, FailHolds DEF Failures
<1>3. CASE exch[c].reply.check \notin {"status", "type", "length"}
  <2> DEFINE e == [exch[c] EXCEPT !.st = "body"]
  <2>1. exch' = [exch EXCEPT ![c] = e]
    BY <1>3 DEF Headers
  <2>2. IsExch(e) /\ e.st = "body" /\ e.of = exch[c].of /\ e.reply = exch[c].reply
    BY <1>1 DEF Sound, IsExch, ExchFields
  <2> HIDE DEF e
  <2>3. Sound(e, popped[c])
    BY <1>1, <1>3, <2>2 DEF Sound, Running, HasReply
  <2>4. QED
    BY <1>1, <2>1, <2>2, <2>3, MoveHolds DEF Fulfils
<1>4. QED
  BY <1>2, <1>3

LEMMA BodyHolds ==
  ASSUME ClientInv, NEW c \in Call, Body(c)
  PROVE  ClientHolds
<1> DEFINE reply == exch[c].reply
           res == parse(exch[c].of, reply.body)
<1>1. /\ Sound(exch[c], popped[c]) /\ Underway(c) /\ exch[c].of \in Operations /\ popped' = popped
      /\ reply # None /\ reply.check \in {"bytes", "json", "body"}
      /\ reply.check = "body" /\ exch[c].of = "usageQueue" => reply.body = popped[c]
  BY DEF Body, ClientInv, Sound, HasReply, Running, Underway
<1>2. CASE reply.check = "bytes"
  BY <1>1, <1>2, FailHolds DEF Body, Failures
<1>3. CASE reply.check = "json"
  BY <1>1, <1>3, FailHolds DEF Body, Failures
<1>4. CASE reply.check = "body"
  <2>1. exch' = [exch EXCEPT ![c] = Settled(exch[c], res)]
    BY <1>4 DEF Body
  <2>2. reply.body \in Answered(c)
    BY <1>1, <1>4 DEF Answered
  <2>3. res.ok \/ res = failed("invalid_shape")
    BY <1>1, ParseIs
  <2>4. exch[c].of = "usageQueue" => res \in {value(popped[c]), failed("invalid_shape")}
    BY <1>1, <1>4, ParseIs
  <2>5. failed("invalid_shape") \in Failures
    BY DEF Failures
  <2>6. res \in Promised(c, Answered(c))
    <3>1. CASE exch[c].of = "usageQueue"
      BY <2>4, <2>5, <3>1 DEF Promised
    <3>2. CASE exch[c].of # "usageQueue" /\ res.ok
      BY <2>2, <3>2 DEF Promised
    <3>3. CASE res = failed("invalid_shape")
      <4> HIDE DEF res
      <4>1. QED
        BY <2>5, <3>3 DEF Promised
    <3>4. QED
      BY <2>3, <3>1, <3>2, <3>3
  <2> HIDE DEF res
  <2>7. Sound(Settled(exch[c], res), popped[c]) /\ Settled(exch[c], res).res = res
    BY <1>1, SettledSound DEF Sound
  <2>8. QED
    BY <1>1, <2>1, <2>6, <2>7, MoveHolds DEF Fulfils
<1>5. QED
  BY <1>1, <1>2, <1>3, <1>4

LEMMA TimerHolds ==
  ASSUME ClientInv, NEW c \in Call, TimerFires(c)
  PROVE  ClientHolds
<1> DEFINE e == [exch[c] EXCEPT !.timedOut = TRUE]
<1>1. Sound(exch[c], popped[c]) /\ exch[c].st # "settled" /\ popped' = popped
  BY DEF TimerFires, Underway, ClientInv
<1>2. IsExch(e) /\ e.st = exch[c].st /\ e.of = exch[c].of /\ e.reply = exch[c].reply /\ e.key = exch[c].key
  BY <1>1 DEF Sound, IsExch, ExchFields
<1>3. exch' = [exch EXCEPT ![c] = e]
  BY DEF TimerFires
<1> HIDE DEF e
<1>4. Sound(e, popped[c])
  BY <1>1, <1>2 DEF Sound, Running, HasReply
<1>5. QED
  BY <1>1, <1>2, <1>3, <1>4, MoveHolds DEF Fulfils

LEMMA RejectsHolds ==
  ASSUME ClientInv, NEW c \in Call, NEW aborted, Rejects(c, aborted)
  PROVE  ClientHolds
<1>1. \E code \in {"aborted", "timeout", "network"} :
        exch' = [exch EXCEPT ![c] = Settled(exch[c], failed(code))] /\ popped' = popped
  BY DEF Rejects
<1>2. QED
  BY <1>1, FailHolds DEF Failures

LEMMA ExchangedHolds ==
  ASSUME ClientInv, NEW c \in Call, NEW stored, NEW bodies, Exchanged(c, stored, bodies)
  PROVE  ClientHolds
<1>1. PICK res : exch' = [exch EXCEPT ![c] = [Settled(exch[c], res) EXCEPT !.key = stored]]
  BY DEF Exchanged
<1>2. IsExch(exch[c]) /\ ~Underway(c) /\ popped' = popped
  BY DEF Exchanged, ClientInv, Sound, Underway
<1> DEFINE s == Settled(exch[c], res)
           e == [s EXCEPT !.key = stored]
<1>3. Sound(s, popped[c]) /\ s.st = "settled"
  BY <1>2, SettledSound
<1> HIDE DEF s
<1>4. IsExch(e) /\ e.st = "settled"
  BY <1>3 DEF Sound, IsExch, ExchFields
<1>5. exch' = [exch EXCEPT ![c] = e]
  BY <1>1 DEF s
<1> HIDE DEF e
<1>6. Sound(e, popped[c])
  BY <1>4 DEF Sound, Running
<1>7. QED
  BY <1>2, <1>5, <1>6, MoveHolds DEF Fulfils

-----------------------------------------------------------------------------
(* The other steps open an exchange, ask again, or end one that is read.     *)
LEMMA OpenHolds ==
  ASSUME ClientInv, NEW c \in Call, NEW o \in Operations, Open(c, o)
  PROVE  ClientHolds
<1>1. Sound(Opened(o), popped[c]) /\ Opened(o).st # "settled"
  BY IdleSound
<1>2. exch' = [exch EXCEPT ![c] = Opened(o)] /\ popped' = popped
  BY DEF Open
<1>3. QED
  BY <1>1, <1>2, MoveHolds DEF Fulfils

LEMMA ConsumedHolds ==
  ASSUME ClientInv, NEW c \in Call, Consumed(c)
  PROVE  ClientHolds
<1>1. Sound(Idle, <<>>) /\ Idle.st # "settled"
  BY IdleSound
<1>2. Touches(c, Idle, <<>>)
  BY DEF Consumed, Touches
<1>3. QED
  BY <1>1, <1>2, TouchHolds DEF Fulfils

LEMMA HandlerHolds ==
  ASSUME ClientInv, NEW c \in Call, Handler(c)
  PROVE  ClientHolds
<1>1. CASE LoginCall(c)
  BY <1>1, SameHolds DEF LoginCall, LoginStart, LoginStatus, LoginCancel, only, clientVars
<1>2. CASE RuntimeCall(c)
  BY <1>2, SameHolds DEF RuntimeCall, Operate, Describe, SetCredential, RunRuntime, RuntimeStarts,
     RuntimeStops, RuntimeInstalls, only, clientVars
<1>3. CASE ModelsStep(c)
  <2>1. CASE ModelsCall(c)
    BY <2>1, SameHolds, OpenHolds DEF ModelsCall, only, clientVars, Operations
  <2>2. CASE ModelsDone(c) \/ Apply(c) \/ Mutate(c) \/ Reread(c)
    BY <2>2, SameHolds DEF ModelsDone, Apply, Mutate, Reread, only, clientVars
  <2>3. QED
    BY <1>3, <2>1, <2>2 DEF ModelsStep
<1>4. CASE StatusStep(c)
  BY <1>4, SameHolds, OpenHolds DEF StatusStep, Status, StatusViews, StatusDone, only, clientVars, Operations
<1>5. CASE OtherStep(c)
  <2>1. CASE Source(c)
    <3>1. \E o \in Operations : Open(c, o)
      BY <2>1 DEF Source, Operations
    <3>2. QED
      BY <3>1, OpenHolds
  <2>2. CASE SourceDone(c)
    BY <2>2, SameHolds, AgainHolds DEF SourceDone, only, clientVars
  <2>3. CASE Probe(c) \/ Upload(c) \/ Requests(c) \/ Read(c)
    BY <2>3, SameHolds DEF Probe, Upload, Requests, Read, only, clientVars
  <2>4. QED
    BY <1>5, <2>1, <2>2, <2>3 DEF OtherStep
<1>6. QED
  BY <1>1, <1>2, <1>3, <1>4, <1>5 DEF Handler

LEMMA PageHolds ==
  ASSUME ClientInv, PageNext
  PROVE  ClientHolds
<1>1. ASSUME NEW p, NEW o, Event(p, o) PROVE ClientHolds
  BY <1>1, SameHolds DEF Event, clientVars
<1>2. ASSUME NEW kind, NEW arg, NEW by, NEW p, Ask(kind, arg, by, p) \/ AskAgain(kind, arg, by, p)
      PROVE  ClientHolds
  BY <1>1, <1>2 DEF Ask, AskAgain
<1>3. CASE SetupNext
  BY <1>1, <1>2, <1>3
     DEF SetupNext, SetupRuntime, SetupRefresh, SetupLogin, SetupCancelLogin, SetupDiscover, SetupApply,
         SetupProbe, SetupCancelProbe
<1>4. CASE SettingsNext
  BY <1>2, <1>4
     DEF SettingsNext, SettingsRuntime, SettingsRefresh, SettingsLogin, SettingsCancelLogin
<1>5. CASE ModelsNext
  BY <1>1, <1>2, <1>5 DEF ModelsNext, ModelsRefresh, ModelsToggle, ModelsApply
<1>6. CASE PlaygroundNext
  BY <1>1, <1>2, <1>6
     DEF PlaygroundNext, PlaygroundSelect, PlaygroundChoose, PlaygroundRead, PlaygroundRemove,
         PlaygroundRun, PlaygroundCancel
<1>7. CASE RequestsNext
  BY <1>1, <1>2, <1>7 DEF RequestsNext, RequestsMore, RequestsQuery
<1>8. CASE ReadsRefresh \/ PollFires \/ DashboardPoll \/ Mount \/ Leave
  BY <1>1, <1>2, <1>8 DEF ReadsRefresh, PollFires, DashboardPoll, Mount, Leave
<1>9. CASE \E c \in Call : Answer(c)
  BY <1>9, ConsumedHolds DEF Answer
<1>10. QED
  BY <1>3, <1>4, <1>5, <1>6, <1>7, <1>8, <1>9 DEF PageNext

LEMMA StepHolds ==
  ASSUME ClientInv, [Next]_vars
  PROVE  ClientHolds
<1>1. CASE PageNext
  BY <1>1, PageHolds
<1>2. CASE OthersStep
  BY <1>2, SameHolds, ConsumedHolds
     DEF OthersStep, Send, Forget, Abort, OtherWrites, RuntimeExits, clientVars
<1>3. CASE HostNext(view \in Detailed)
  <2>1. CASE LoginEnds
    BY <2>1, SameHolds DEF LoginEnds, clientVars
  <2>2. ASSUME NEW c \in Call, ClientStep(c) PROVE ClientHolds
    BY <2>2, ResolveHolds, ServeHolds, GarbleHolds, HeadersHolds, BodyHolds, TimerHolds, RejectsHolds
       DEF ClientStep
  <2>3. ASSUME NEW c \in Call, CoarseStep(c) PROVE ClientHolds
    BY <2>3, ExchangedHolds DEF CoarseStep
  <2>4. QED
    BY <1>3, <2>1, <2>2, <2>3, HandlerHolds DEF HostNext
<1>4. CASE UNCHANGED vars
  BY <1>4, SameHolds DEF vars, hostVars, clientVars
<1>5. QED
  BY <1>1, <1>2, <1>3, <1>4 DEF Next

LEMMA InitClientInv ==
  ASSUME NEW records, ClientInit(records)
  PROVE  ClientInv
<1>1. /\ exch = [c \in Call |-> exch[c]] /\ \A c \in Call : exch[c] = Idle
      /\ popped = [c \in Call |-> popped[c]]
  BY DEF ClientInit, Call
<1>2. \A c \in Call : Sound(exch[c], popped[c])
  BY <1>1, IdleSound
<1>3. QED
  BY <1>1, <1>2 DEF ClientInv

(* An exchange settles with the parse of all that the server answered, or    *)
(* with one failure: whatever the server has queued, however many exchanges  *)
(* run, and whenever the timer, the abort or a broken connection comes.      *)
THEOREM PromiseHolds ==
  ASSUME NEW records
  PROVE  ClientInit(records) /\ [][Next]_vars => PromiseKept
<1>1. ClientInit(records) => ClientInv
  BY InitClientInv
<1>2. ClientInv /\ [Next]_vars => ClientInv'
  BY StepHolds DEF ClientHolds
<1>3. ClientInv /\ [Next]_vars
      => [\A c \in Call : Underway(c) /\ exch'[c].st = "settled"
            => exch'[c].res \in Promised(c, Answered(c))]_hostVars
  BY StepHolds DEF ClientHolds, Fulfils
<1>4. QED
  BY <1>1, <1>2, <1>3, PTL DEF PromiseKept

-----------------------------------------------------------------------------
(* The calls of a page, and who waits for them.  The role of a call is the   *)
(* function of the page that its answer still counts for; the page's own     *)
(* calls have one.                                                           *)
Role(r) == IF r.cur THEN r.by ELSE "none"
Own(r)  == Role(r) \notin {"none", "other"}

\* The remotes that the functions call, as far as their answers are told apart.
Calls(by, kind) ==
  /\ by \in {"query", "next"} => kind = "requests"
  /\ by = "probe" => kind = "probe"
  /\ by = "upload" => kind = "upload"
  /\ by = "login" => kind = "loginStart"
  /\ by = "poll" => kind = "loginStatus"
  /\ by = "cancel" => kind = "loginCancel"

\* An answer is about what was asked.
OfArg(kind, arg, val) ==
  /\ kind = "requests" =>
       \/ val.rows = <<>> /\ val.next = None
       \/ val.rows = <<arg>> /\ val.next \in {None, arg.page + 1}
  /\ kind = "probe" => (val.ok => val.of = arg)
  /\ kind = "upload" => val = arg
Honest(r) == r.pc = "done" /\ r.out.ok => OfArg(r.kind, r.arg, r.out.val)

CallGood(r) ==
  /\ r.kind = "none" => ~Own(r)
  /\ r.pc \in {"start", "stop"} => r.kind \in RuntimeOps
  /\ r.cur => r.by # "none"
  /\ Own(r) => Calls(r.by, r.kind) /\ Honest(r)
CallsGood(o) == IsOps(o) /\ \A c \in Call : CallGood(o[c])

\* p is o after a step that changes nothing that a page waits for.
Unseen(o, p) ==
  /\ CallsGood(p)
  /\ \A c \in Call : /\ Own(p[c]) <=> Own(o[c])
                     /\ Own(p[c]) => Role(p[c]) = Role(o[c]) /\ p[c].arg = o[c].arg

(* q is o after a turn of the page: the call a is consumed, the calls of the *)
(* functions bys are dropped, and the call n is made by a function of the    *)
(* page.  Nobody stands for a call that the turn does not consume or make.   *)
Nobody == -1
Turn(o, q, a, bys, n, by, arg) ==
  /\ CallsGood(q)
  /\ n \in Call => by \notin {"none", "other"} /\ q[n].arg = arg /\ q[n].pc = "sent"
  /\ \A c \in Call :
       /\ Role(q[c]) = IF c = n THEN by
                       ELSE IF c = a \/ Role(o[c]) \in bys THEN "none" ELSE Role(o[c])
       /\ c # n /\ Own(q[c]) => q[c] = o[c]
       /\ c = n => ~Own(o[c]) \/ c = a \/ Role(o[c]) \in bys

\* A set of numbers that is not empty has a least one.
LEMMA LeastFree ==
  ASSUME NEW bad \in SUBSET Nat, bad # {}
  PROVE  \E n \in bad : \A m \in bad : n <= m
<1> DEFINE less == OpToRel(<, Nat)
<1>1. IsWellFoundedOn(less, Nat)
  BY NatLessThanWellFounded
<1>2. PICK n \in bad : \A m \in bad : ~(<<m, n>> \in less)
  <2> HIDE DEF less
  <2> QED
    BY <1>1, WFMin
<1>3. ASSUME NEW m \in bad
      PROVE  n <= m
  <2>1. m \in Nat /\ n \in Nat
    OBVIOUS
  <2>2. m < n => <<m, n>> \in Nat \X Nat /\ <<m, n>>[1] < <<m, n>>[2]
    BY <2>1
  <2>3. m < n => <<m, n>> \in less
    BY <2>2 DEF OpToRel
  <2> HIDE DEF less
  <2> QED
    BY <1>2, <2>1, <2>3
<1> QED
  BY <1>3

\* The call that a page takes next is free.
LEMMA NextIsFree ==
  ASSUME NEW o, FreeCalls(o) # {}
  PROVE  NextCall(o) \in Call /\ o[NextCall(o)].kind = "none"
<1>1. FreeCalls(o) \in SUBSET Nat
  BY ExchangeAssumption DEF FreeCalls, Call
<1>2. \E c \in FreeCalls(o) : \A d \in FreeCalls(o) : c <= d
  BY <1>1, LeastFree
<1>3. NextCall(o) \in FreeCalls(o)
  BY <1>2 DEF NextCall
<1> QED
  BY <1>3 DEF FreeCalls

(* The ways in which a page changes the calls are turns.                     *)
LEMMA PlainTurn ==
  ASSUME NEW o, CallsGood(o)
  PROVE  Turn(o, o, Nobody, {}, Nobody, "none", None)
BY ExchangeAssumption DEF Turn, Nobody, Call

\* stop waiting for the calls of some functions,
LEMMA DropTurn ==
  ASSUME NEW o, CallsGood(o), NEW bys
  PROVE  /\ Turn(o, drop(o, bys), Nobody, bys, Nobody, "none", None)
         /\ FreeCalls(drop(o, bys)) = FreeCalls(o)
<1> DEFINE q == drop(o, bys)
<1>1. q = [c \in Call |-> q[c]]
  BY DEF drop
<1>2. ASSUME NEW c \in Call
      PROVE  /\ IsCall(q[c]) /\ CallGood(q[c]) /\ q[c].kind = o[c].kind
             /\ Role(q[c]) = IF Role(o[c]) \in bys THEN "none" ELSE Role(o[c])
             /\ Own(q[c]) => q[c] = o[c]
  <2> DEFINE r == [o[c] EXCEPT !.cur = FALSE, !.abort = TRUE, !.out = None]
  <2>1. IsCall(o[c]) /\ CallGood(o[c])
    BY DEF CallsGood, IsOps
  <2>2. q[c] = IF o[c].by \in bys THEN r ELSE o[c]
    BY DEF drop
  <2>3. IsCall(r) /\ r.cur = FALSE /\ r.kind = o[c].kind /\ r.pc = o[c].pc
    BY <2>1 DEF IsCall, CallFields
  <2> HIDE DEF r, q
  <2> QED
    BY <2>1, <2>2, <2>3 DEF CallGood, Role, Own
<1> HIDE DEF q
<1>3. CallsGood(q)
  BY <1>1, <1>2 DEF CallsGood, IsOps
<1>4. Turn(o, q, Nobody, bys, Nobody, "none", None)
  BY <1>2, <1>3, ExchangeAssumption DEF Turn, Nobody, Call
<1>5. FreeCalls(q) = FreeCalls(o)
  BY <1>2 DEF FreeCalls
<1> QED
  BY <1>4, <1>5 DEF q

\* make a call of its own,
LEMMA AskTurn ==
  ASSUME NEW o, CallsGood(o), FreeCalls(o) # {}, NEW kind, NEW arg,
         NEW by, by \notin {"none", "other"}, Calls(by, kind), kind # "none"
  PROVE  \E n \in Call : Turn(o, ask(o, kind, arg, by), Nobody, {}, n, by, arg)
<1> DEFINE n == NextCall(o)
           r == request(kind, arg, by)
           q == ask(o, kind, arg, by)
<1>1. n \in Call /\ o[n].kind = "none"
  BY NextIsFree
<1>2. /\ IsCall(r) /\ r.kind = kind /\ r.arg = arg /\ r.by = by /\ r.cur = TRUE /\ r.pc = "sent"
  BY DEF IsCall, CallFields, request, Free
<1>3. q = [o EXCEPT ![n] = r]
  BY DEF ask
<1> HIDE DEF n, r
<1>4. q = [c \in Call |-> q[c]] /\ \A c \in Call : q[c] = IF c = n THEN r ELSE o[c]
  BY <1>3 DEF CallsGood, IsOps
<1> HIDE DEF q
<1>5. CallGood(r) /\ Role(r) = by
  BY <1>2 DEF CallGood, Role, Own, Honest
<1>6. CallsGood(q)
  BY <1>2, <1>4, <1>5 DEF CallsGood, IsOps
<1>7. ~Own(o[n])
  BY <1>1 DEF CallsGood, CallGood, Own, Role
<1>8. Turn(o, q, Nobody, {}, n, by, arg)
  BY <1>1, <1>2, <1>4, <1>5, <1>6, <1>7, ExchangeAssumption DEF Turn, Nobody, Call
<1> QED
  BY <1>1, <1>8 DEF q

\* or consume an answer.
LEMMA FreeTurn ==
  ASSUME NEW o, CallsGood(o), NEW a \in Call
  PROVE  LET q == [o EXCEPT ![a] = Free]
         IN  /\ Turn(o, q, a, {}, Nobody, "none", None) /\ FreeCalls(q) # {}
<1> DEFINE q == [o EXCEPT ![a] = Free]
<1>1. IsCall(Free) /\ Free.cur = FALSE /\ Free.kind = "none" /\ Free.pc = "idle"
  BY DEF IsCall, CallFields, Free
<1>2. q = [c \in Call |-> q[c]] /\ \A c \in Call : q[c] = IF c = a THEN Free ELSE o[c]
  BY DEF CallsGood, IsOps
<1> HIDE DEF q
<1>3. CallGood(Free) /\ Role(Free) = "none"
  BY <1>1 DEF CallGood, Role, Own
<1>4. CallsGood(q)
  BY <1>1, <1>2, <1>3 DEF CallsGood, IsOps
<1>5. Turn(o, q, a, {}, Nobody, "none", None)
  BY <1>2, <1>3, <1>4, ExchangeAssumption DEF Turn, Nobody, Call, Own
<1>6. a \in FreeCalls(q)
  BY <1>1, <1>2 DEF FreeCalls
<1> QED
  BY <1>5, <1>6 DEF q

\* One turn after another, when the first asks nothing.
LEMMA TurnTurn ==
  ASSUME NEW o, NEW p, NEW q, NEW a, NEW bys, NEW n, NEW by, NEW arg, NEW cys,
         Turn(o, p, a, cys, Nobody, "none", None), Turn(p, q, Nobody, bys, n, by, arg)
  PROVE  Turn(o, q, a, cys \cup bys, n, by, arg)
<1>1. Nobody \notin Call
  BY ExchangeAssumption DEF Nobody, Call
<1>2. ASSUME NEW c \in Call
      PROVE  /\ Role(q[c]) = IF c = n THEN by
                              ELSE IF c = a \/ Role(o[c]) \in cys \cup bys THEN "none" ELSE Role(o[c])
             /\ c # n /\ Own(q[c]) => q[c] = o[c]
             /\ c = n => ~Own(o[c]) \/ c = a \/ Role(o[c]) \in cys \cup bys
  <2>1. /\ Role(p[c]) = IF c = a \/ Role(o[c]) \in cys THEN "none" ELSE Role(o[c])
        /\ Own(p[c]) => p[c] = o[c]
    BY <1>1 DEF Turn
  <2>2. /\ Role(q[c]) = IF c = n THEN by ELSE IF Role(p[c]) \in bys THEN "none" ELSE Role(p[c])
        /\ c # n /\ Own(q[c]) => q[c] = p[c]
        /\ c = n => ~Own(p[c]) \/ Role(p[c]) \in bys
    BY <1>1 DEF Turn
  <2>3. Own(o[c]) <=> Role(o[c]) \notin {"none", "other"}
    BY DEF Own
  <2>4. Own(p[c]) <=> Role(p[c]) \notin {"none", "other"}
    BY DEF Own
  <2> QED
    BY <2>1, <2>2, <2>3, <2>4
<1>3. CallsGood(q) /\ (n \in Call => by \notin {"none", "other"} /\ q[n].arg = arg /\ q[n].pc = "sent")
  BY DEF Turn
<1> QED
  BY <1>2, <1>3 DEF Turn

\* A call in the place of those it makes stale (cancelled, a newer query).
LEMMA DropAskTurn ==
  ASSUME NEW o, CallsGood(o), FreeCalls(o) # {}, NEW bys, NEW kind, NEW arg,
         NEW by, by \notin {"none", "other"}, Calls(by, kind), kind # "none"
  PROVE  \E n \in Call : Turn(o, ask(drop(o, bys), kind, arg, by), Nobody, bys, n, by, arg)
<1> DEFINE p == drop(o, bys)
<1>1. Turn(o, p, Nobody, bys, Nobody, "none", None) /\ FreeCalls(p) # {}
  BY DropTurn
<1> HIDE DEF p
<1>2. CallsGood(p)
  BY <1>1 DEF Turn
<1>3. PICK n \in Call : Turn(p, ask(p, kind, arg, by), Nobody, {}, n, by, arg)
  BY <1>1, <1>2, AskTurn
<1>4. Turn(o, ask(p, kind, arg, by), Nobody, bys \cup {}, n, by, arg)
  BY <1>1, <1>3, TurnTurn
<1>5. bys \cup {} = bys
  OBVIOUS
<1> QED
  BY <1>4, <1>5 DEF p

-----------------------------------------------------------------------------
(* What a page shows, and the calls it waits for.                            *)
SetupFields == {"status", "runtime", "codex", "provider", "oauth", "poll", "models", "phase", "rev",
                "basis", "applied", "probe", "ran", "result", "busy"}
ManageFields == {"status", "runtime", "codex", "provider", "oauth", "poll", "busy"}
ModelsFields == {"phase", "models", "rev", "basis", "busy"}
PlaygroundFields == {"phase", "models", "model", "image", "file", "upload", "probe", "ran", "result"}
RequestsFields == {"query", "phase", "items", "cursor", "more"}
ReadsFields == {"phase", "poll"}
IsPage(fields, p) == p = [f \in fields |-> p[f]]
Same(p, q, fields) == \A f \in fields : q[f] = p[f]

BusyBys == RuntimeOps \cup {"login", "cancel", "discover", "apply", "probe"}

\* undefined is no name of a function of the pages, and no object.
NoneIsNull ==
  /\ None \notin BusyBys
  /\ \A fields, f : None # [x \in fields |-> f[x]]

Nil(o, bys)    == \A c \in Call : Role(o[c]) \notin bys
One(o, bys)    == \E c \in Call : \A d \in Call : Role(o[d]) \in bys <=> d = c
AtMost(o, bys) == \A c, d \in Call : Role(o[c]) \in bys /\ Role(o[d]) \in bys => c = d
Only(o, bys)   == \A c \in Call : Own(o[c]) => Role(o[c]) \in bys

SetupBys == {"status", "install", "start", "login", "cancel", "poll", "discover", "apply", "probe"}
ManageBys == RuntimeOps \cup {"status", "login", "cancel", "poll"}

ProbeOwn(p, o) ==
  /\ p.probe = "success" <=> p.result # None
  /\ p.result \in {None, p.ran}
  /\ \A c \in Call : Role(o[c]) = "probe" => o[c].arg = p.ran /\ p.ran # None

SetupGood(p, o) ==
  /\ IsPage(SetupFields, p) /\ Only(o, SetupBys)
  /\ IF p.busy # None THEN One(o, BusyBys) ELSE Nil(o, BusyBys)
  /\ p.status = "loading" => One(o, {"status"})
  /\ IF p.probe = "running" THEN One(o, {"probe"}) ELSE Nil(o, {"probe"})
  /\ IF p.phase = "loading" THEN One(o, {"discover"}) ELSE Nil(o, {"discover"})
  /\ ProbeOwn(p, o)

ManageGood(p, o) ==
  /\ IsPage(ManageFields, p) /\ Only(o, ManageBys)
  /\ IF p.busy # None THEN One(o, BusyBys) ELSE Nil(o, BusyBys)
  /\ p.status = "loading" => One(o, {"status"})

ModelsGood(p, o) ==
  /\ IsPage(ModelsFields, p) /\ Only(o, {"discover", "apply"})
  /\ IF p.busy # None THEN One(o, {"apply"}) ELSE Nil(o, {"apply"})
  /\ IF p.phase = "loading" THEN One(o, {"discover"}) ELSE Nil(o, {"discover"})

\* An image is the last file chosen, and so is the one under way; there is
\* no model, and so no image, before the models.
ImageOwn(p, o) ==
  /\ p.image # None => p.image = p.file /\ imageAllowed(p)
  /\ \A c \in Call : Role(o[c]) = "upload" => o[c].arg = p.file
  /\ p.phase = "loading" => p.model = None
PlaygroundGood(p, o) ==
  /\ IsPage(PlaygroundFields, p) /\ Only(o, {"discover", "upload", "probe"})
  /\ IF p.probe = "running" THEN One(o, {"probe"}) ELSE Nil(o, {"probe"})
  /\ IF p.upload = "uploading" THEN One(o, {"upload"}) ELSE Nil(o, {"upload"})
  /\ IF p.phase = "loading" THEN One(o, {"discover"}) ELSE Nil(o, {"discover"})
  /\ ProbeOwn(p, o) /\ ImageOwn(p, o)

\* A next page is asked for of the rows that are shown.
FirstPages(query, n) == [i \in 1..n |-> [query |-> query, page |-> i]]
RowsOwn(p) == \E n \in Nat : p.items = FirstPages(p.query, n) /\ p.cursor \in {None, n + 1}
RequestsGood(p, o) ==
  /\ IsPage(RequestsFields, p) /\ Only(o, {"query", "next"})
  /\ IF p.phase = "loading" THEN One(o, {"query"}) ELSE Nil(o, {"query"})
  /\ AtMost(o, {"next"})
  /\ \A c \in Call : Role(o[c]) = "query" => o[c].arg = cursorless(p.query)
  /\ \A c \in Call : Role(o[c]) = "next" =>
       /\ p.more = TRUE /\ p.phase = "ready" /\ p.cursor # None
       /\ o[c].arg = [query |-> p.query, page |-> p.cursor]
  /\ p.phase = "ready" => RowsOwn(p)

ReadsGood(p, o) ==
  /\ IsPage(ReadsFields, p) /\ Only(o, {"read"}) /\ AtMost(o, {"read"})
  /\ p.poll = "armed" => Nil(o, {"read"})

PageGood(p, o) ==
  \/ view = "setup" /\ SetupGood(p, o)
  \/ view = "settings" /\ ManageGood(p, o)
  \/ view = "models" /\ ModelsGood(p, o)
  \/ view = "playground" /\ PlaygroundGood(p, o)
  \/ view = "requests" /\ RequestsGood(p, o)
  \/ view \in {"dashboard", "accounts"} /\ ReadsGood(p, o)

PagesInv ==
  /\ CallsGood(op)
  /\ (page = None /\ Only(op, {})) \/ PageGood(page, op)

\* A page that is shown is not undefined.
LEMMA PageIsSomething ==
  ASSUME NoneIsNull, NEW p, NEW o, PageGood(p, o)
  PROVE  p # None
<1>1. \E fields : p = [f \in fields |-> p[f]]
  BY DEF PageGood, SetupGood, ManageGood, ModelsGood, PlaygroundGood, RequestsGood, ReadsGood,
         IsPage
<1> QED
  BY <1>1 DEF NoneIsNull

\* Nor is the name of a busy function.
LEMMA NoneIsNoText ==
  ASSUME NoneIsNull
  PROVE  \A kind \in {"start", "restart", "install", "stop", "login", "cancel", "discover", "apply", "probe"} :
           kind # None
BY DEF NoneIsNull, BusyBys, RuntimeOps, Starts

LEMMA NobodyCalls == Nobody \notin Call
BY ExchangeAssumption DEF Nobody, Call

(* What a page does not see leaves it as good as it is.                      *)
LEMMA UnseenGood ==
  ASSUME NEW p, NEW o, NEW q, Unseen(o, q), PageGood(p, o)
  PROVE  PageGood(p, q)
<1>1. \A bys : "none" \notin bys /\ "other" \notin bys =>
        /\ Nil(o, bys) => Nil(q, bys)
        /\ One(o, bys) => One(q, bys)
        /\ AtMost(o, bys) => AtMost(q, bys)
        /\ Only(o, bys) => Only(q, bys)
  BY DEF Unseen, Nil, One, AtMost, Only, Own
<1>2. \A c \in Call : Role(q[c]) \notin {"none", "other"} => Role(q[c]) = Role(o[c]) /\ q[c].arg = o[c].arg
  BY DEF Unseen, Own
<1>3. /\ ProbeOwn(p, o) => ProbeOwn(p, q)
      /\ ImageOwn(p, o) => ImageOwn(p, q)
  BY <1>2 DEF ProbeOwn, ImageOwn
<1>4. \A bys \in {BusyBys, SetupBys, ManageBys} : "none" \notin bys /\ "other" \notin bys
  BY DEF BusyBys, SetupBys, ManageBys, RuntimeOps, Starts
<1>5. CASE view = "setup" /\ SetupGood(p, o)
  BY <1>1, <1>3, <1>4, <1>5 DEF SetupGood, PageGood
<1>6. CASE view = "settings" /\ ManageGood(p, o)
  BY <1>1, <1>4, <1>6 DEF ManageGood, PageGood
<1>7. CASE view = "models" /\ ModelsGood(p, o)
  BY <1>1, <1>7 DEF ModelsGood, PageGood
<1>8. CASE view = "playground" /\ PlaygroundGood(p, o)
  BY <1>1, <1>3, <1>8 DEF PlaygroundGood, PageGood
<1>9. CASE view = "requests" /\ RequestsGood(p, o)
  BY <1>1, <1>2, <1>9 DEF RequestsGood, PageGood
<1>10. CASE view \in {"dashboard", "accounts"} /\ ReadsGood(p, o)
  BY <1>1, <1>10 DEF ReadsGood, PageGood
<1> QED
  BY <1>5, <1>6, <1>7, <1>8, <1>9, <1>10 DEF PageGood

-----------------------------------------------------------------------------
(* The pages' own events.                                                    *)
LEMMA AskedTurn ==
  ASSUME CallsGood(op), NEW kind, kind # "none", NEW arg, NEW by, by \notin {"none", "other"},
         Calls(by, kind),
         NEW p, Ask(kind, arg, by, p)
  PROVE  page' = p /\ \E n \in Call : Turn(op, op', Nobody, {}, n, by, arg)
<1>1. page' = p /\ op' = ask(op, kind, arg, by) /\ FreeCalls(op) # {}
  BY DEF Ask, MayAsk, MayBegin, Event
<1> QED
  BY <1>1, AskTurn

LEMMA AskedAgainTurn ==
  ASSUME CallsGood(op), NEW kind, kind # "none", NEW arg, NEW by, by \notin {"none", "other"},
         Calls(by, kind),
         NEW p, AskAgain(kind, arg, by, p)
  PROVE  page' = p /\ \E n \in Call : Turn(op, op', Nobody, {by}, n, by, arg)
<1>1. page' = p /\ op' = ask(drop(op, {by}), kind, arg, by) /\ FreeCalls(op) # {}
  BY DEF AskAgain, MayAsk, MayBegin, Event
<1> QED
  BY <1>1, DropAskTurn

\* An event without a call asks nothing.
LEMMA EventTurn ==
  ASSUME CallsGood(op), NEW p
  PROVE  /\ Event(p, op) => page' = p /\ Turn(op, op', Nobody, {}, Nobody, "none", None)
         /\ \A bys : Event(p, drop(op, bys)) => page' = p /\ Turn(op, op', Nobody, bys, Nobody, "none", None)
BY PlainTurn, DropTurn DEF Event

LEMMA TurnGood ==
  ASSUME NEW o, NEW q, NEW a, NEW bys, NEW n, NEW by, NEW arg, Turn(o, q, a, bys, n, by, arg)
  PROVE  CallsGood(q)
BY DEF Turn

------------------------------------------------------------------------------
(* The setup page: install, start, log in, pick a model, try it.  Each of its *)
(* buttons makes the call that its busy field then waits for.                 *)
LEMMA SetupHolds ==
  ASSUME NoneIsNull, CallsGood(op), SetupGood(page, op), SetupNext
  PROVE  CallsGood(op') /\ SetupGood(page', op')
<1> DEFINE Turned(bys, n, by, arg) == Turn(op, op', Nobody, bys, n, by, arg)
           Changed(fields) == IsPage(SetupFields, page') /\ Same(page, page', SetupFields \ fields)
<1>1. ASSUME NEW by \in {"install", "start", "login", "cancel"}, NEW kind, kind # "none",
             Calls(by, kind), NEW arg,
             page.busy = None, Ask(kind, arg, by, Busy(by))
      PROVE  CallsGood(op') /\ SetupGood(page', op')
  <2>1. page' = Busy(by) /\ \E n \in Call : Turned({}, n, by, arg)
    BY <1>1, AskedTurn
  <2>2. Changed({"busy"}) /\ page'.busy = by
    BY <2>1 DEF Busy, IsPage, SetupFields, SetupGood, Same
  <2>3. by # None
    BY NoneIsNoText
  <2> QED
    BY <2>1, <2>2, <2>3, <1>1, NobodyCalls
       DEF Same, SetupGood, SetupFields, SetupBys, ProbeOwn, Turn, One, Nil, Only, Own, BusyBys,
           RuntimeOps, Starts
<1>2. CASE SetupRefresh
  <2>1. page' = [page EXCEPT !.status = "loading"] /\ \E n \in Call : Turned({"status"}, n, "status", None)
    BY <1>2, AskedAgainTurn DEF SetupRefresh, Calls
  <2>2. Changed({"status"})
    BY <2>1 DEF IsPage, SetupFields, SetupGood, Same
  <2> QED
    BY <2>1, <2>2, NobodyCalls
       DEF Same, SetupGood, SetupFields, SetupBys, ProbeOwn, Turn, One, Nil, Only, Own, BusyBys,
           RuntimeOps, Starts
<1>3. CASE SetupDiscover
  <2>1. page' = [Busy("discover") EXCEPT !.phase = "loading", !.applied = FALSE]
    BY <1>3, AskedAgainTurn DEF SetupDiscover, Calls
  <2>2. page.busy = None /\ \E n \in Call : Turned({"discover"}, n, "discover", None)
    BY <1>3, AskedAgainTurn DEF SetupDiscover, Calls, Quiet
  <2>3. Changed({"busy", "phase", "applied"}) /\ page'.busy = "discover" /\ page'.phase = "loading"
    BY <2>1 DEF Busy, IsPage, SetupFields, SetupGood, Same
  <2>4. "discover" # None
    BY NoneIsNoText
  <2> QED
    BY <2>2, <2>3, <2>4, NobodyCalls
       DEF Same, SetupGood, SetupFields, SetupBys, ProbeOwn, Turn, One, Nil, Only, Own, BusyBys,
           RuntimeOps, Starts
<1>4. CASE SetupApply
  <2> DEFINE arg == [models |-> page.models, rev |-> page.rev, basis |-> page.basis]
  <2>1. Ask("apply", arg, "apply", Busy("apply")) /\ page.busy = None
    BY <1>4 DEF SetupApply, Quiet
  <2> HIDE DEF arg
  <2>2. page' = Busy("apply") /\ \E n \in Call : Turned({}, n, "apply", arg)
    BY <2>1, AskedTurn DEF Calls
  <2>3. Changed({"busy"}) /\ page'.busy = "apply"
    BY <2>2 DEF Busy, IsPage, SetupFields, SetupGood, Same
  <2>4. "apply" # None
    BY NoneIsNoText
  <2> QED
    BY <2>1, <2>2, <2>3, <2>4, NobodyCalls
       DEF Same, SetupGood, SetupFields, SetupBys, ProbeOwn, Turn, One, Nil, Only, Own, BusyBys,
           RuntimeOps, Starts
<1>5. CASE SetupProbe
  <2>1. page.busy = None /\ page.probe # "success"
    BY <1>5 DEF SetupProbe, SetupAt, activeStep, Quiet
  <2>2. CASE Event([page EXCEPT !.probe = "error"], op)
    <3>1. page' = [page EXCEPT !.probe = "error"] /\ Turned({}, Nobody, "none", None)
      BY <2>2, EventTurn
    <3>2. Changed({"probe"}) /\ page'.probe = "error"
      BY <3>1 DEF IsPage, SetupFields, SetupGood, Same
    <3> QED
      BY <2>1, <3>1, <3>2, NobodyCalls
       DEF Same, SetupGood, SetupFields, SetupBys, ProbeOwn, Turn, One, Nil, Only, Own, BusyBys,
           RuntimeOps, Starts
  <2>3. CASE \E m \in DOMAIN page.models :
          Ask("probe", [model |-> m], "probe",
                 [Busy("probe") EXCEPT !.probe = "running", !.ran = [model |-> m], !.result = None])
    <3>1. PICK m : Ask("probe", [model |-> m], "probe",
                 [Busy("probe") EXCEPT !.probe = "running", !.ran = [model |-> m], !.result = None])
      BY <2>3
    <3> DEFINE arg == [model |-> m]
    <3>2. arg # None
      BY DEF NoneIsNull
    <3> HIDE DEF arg
    <3>3. page' = [Busy("probe") EXCEPT !.probe = "running", !.ran = arg, !.result = None]
      BY <3>1, AskedTurn DEF Calls, arg
    <3>4. PICK n \in Call : Turned({}, n, "probe", arg)
      BY <3>1, AskedTurn DEF Calls, arg
    <3>5. /\ Changed({"busy", "probe", "ran", "result"}) /\ page'.busy = "probe" /\ page'.probe = "running"
          /\ page'.ran = arg /\ page'.result = None
      BY <3>3 DEF Busy, IsPage, SetupFields, SetupGood, Same
    <3>6. "probe" # None
      BY NoneIsNoText
    <3> QED
      BY <2>1, <3>2, <3>4, <3>5, <3>6, NobodyCalls
         DEF Same, SetupGood, SetupFields, SetupBys, ProbeOwn, Turn, One, Nil, Only, Own,
             BusyBys, RuntimeOps, Starts
  <2> QED
    BY <1>5, <2>2, <2>3 DEF SetupProbe
<1>6. CASE SetupCancelProbe
  <2>1. /\ page' = [page EXCEPT !.probe = "cancelled", !.result = None, !.busy = None] /\ page.probe = "running"
        /\ Turned({"probe"}, Nobody, "none", None)
    BY <1>6, EventTurn DEF SetupCancelProbe
  <2>2. Changed({"busy", "probe", "result"}) /\ page'.busy = None /\ page'.probe = "cancelled" /\ page'.result = None
    BY <2>1 DEF IsPage, SetupFields, SetupGood, Same
  <2> QED
    BY <2>1, <2>2, NobodyCalls
       DEF Same, SetupGood, SetupFields, SetupBys, ProbeOwn, Turn, One, Nil, Only, Own, BusyBys,
           RuntimeOps, Starts
<1>7. CASE SetupLogin \/ SetupCancelLogin \/ \E kind \in {"install", "start"} : SetupRuntime(kind)
  BY <1>1, <1>7 DEF SetupLogin, SetupCancelLogin, SetupRuntime, Calls, Quiet
<1> QED
  BY <1>2, <1>3, <1>4, <1>5, <1>6, <1>7 DEF SetupNext

------------------------------------------------------------------------------
(* The settings page: the runtime's operations and the login, one at a time.  *)
LEMMA ManageHolds ==
  ASSUME NoneIsNull, CallsGood(op), ManageGood(page, op), SettingsNext
  PROVE  CallsGood(op') /\ ManageGood(page', op')
<1> DEFINE Turned(bys, n, by, arg) == Turn(op, op', Nobody, bys, n, by, arg)
<1>1. ASSUME NEW by \in RuntimeOps \cup {"login", "cancel"}, NEW kind, kind # "none",
             Calls(by, kind), NEW arg,
             page.busy = None, Ask(kind, arg, by, Busy(by))
      PROVE  CallsGood(op') /\ ManageGood(page', op')
  <2>1. by \in {"install", "start", "stop", "restart", "login", "cancel"}
    BY DEF RuntimeOps, Starts
  <2>2. page' = Busy(by) /\ \E n \in Call : Turned({}, n, by, arg)
    BY <1>1, <2>1, AskedTurn
  <2>3. IsPage(ManageFields, page') /\ Same(page, page', ManageFields \ {"busy"}) /\ page'.busy = by
    BY <2>2 DEF Busy, IsPage, ManageFields, ManageGood, Same
  <2>4. by # None
    BY <2>1, NoneIsNoText
  <2> QED
    BY <2>1, <2>2, <2>3, <2>4, <1>1, NobodyCalls
       DEF Same, ManageGood, ManageFields, ManageBys, Turn, One, Nil, Only, Own, BusyBys,
           RuntimeOps, Starts
<1>2. CASE SettingsRefresh
  <2>1. page' = page /\ \E n \in Call : Turned({"status"}, n, "status", None)
    BY <1>2, AskedAgainTurn DEF SettingsRefresh, Calls
  <2> QED
    BY <2>1, NobodyCalls DEF ManageGood, ManageBys, Turn, One, Nil, Only, Own, BusyBys,
                             RuntimeOps, Starts
<1>3. CASE SettingsLogin \/ SettingsCancelLogin \/ \E kind \in RuntimeOps : SettingsRuntime(kind)
  <2>1. \A kind \in RuntimeOps : Calls(kind, kind) /\ kind # "none"
    BY DEF Calls, RuntimeOps, Starts
  <2> QED
    BY <1>1, <1>3, <2>1 DEF SettingsLogin, SettingsCancelLogin, SettingsRuntime, Calls, Quiet
<1> QED
  BY <1>2, <1>3 DEF SettingsNext

------------------------------------------------------------------------------
(* The models page: apply waits alone, and discover makes the list loading.   *)
LEMMA ModelsHolds ==
  ASSUME NoneIsNull, CallsGood(op), ModelsGood(page, op), ModelsNext
  PROVE  CallsGood(op') /\ ModelsGood(page', op')
<1> DEFINE Changed(fields) == IsPage(ModelsFields, page') /\ Same(page, page', ModelsFields \ fields)
<1>1. CASE ModelsRefresh
  <2>1. page' = [page EXCEPT !.phase = "loading"]
    BY <1>1, AskedAgainTurn DEF ModelsRefresh, Calls
  <2>2. \E n \in Call : Turn(op, op', Nobody, {"discover"}, n, "discover", None)
    BY <1>1, AskedAgainTurn DEF ModelsRefresh, Calls
  <2>3. Changed({"phase"}) /\ page'.phase = "loading"
    BY <2>1 DEF IsPage, ModelsFields, ModelsGood, Same
  <2> QED
    BY <2>2, <2>3, NobodyCalls DEF Same, ModelsGood, ModelsFields, Turn, One, Nil, Only, Own
<1>2. CASE ModelsApply
  <2> DEFINE arg == [models |-> page.models, rev |-> page.rev, basis |-> page.basis]
  <2>1. Ask("apply", arg, "apply", Busy("apply")) /\ page.busy = None
    BY <1>2 DEF ModelsApply, Quiet
  <2> HIDE DEF arg
  <2>2. page' = Busy("apply") /\ \E n \in Call : Turn(op, op', Nobody, {}, n, "apply", arg)
    BY <2>1, AskedTurn DEF Calls
  <2>3. Changed({"busy"}) /\ page'.busy = "apply"
    BY <2>2 DEF Busy, IsPage, ModelsFields, ModelsGood, Same
  <2>4. "apply" # None
    BY NoneIsNoText
  <2> QED
    BY <2>1, <2>2, <2>3, <2>4, NobodyCalls DEF Same, ModelsGood, ModelsFields, Turn, One, Nil,
                                               Only, Own
<1>3. CASE \E m \in ModelIds : ModelsToggle(m)
  <2>1. PICK m : Event([page EXCEPT !.models[m] = ~@], op)
    BY <1>3 DEF ModelsToggle
  <2> DEFINE models == [page.models EXCEPT ![m] = ~@]
  <2>2. page' = [page EXCEPT !.models = models]
    BY <2>1 DEF Event
  <2>3. op' = op
    BY <2>1 DEF Event
  <2> HIDE DEF models
  <2>4. Changed({"models"})
    BY <2>2 DEF IsPage, ModelsFields, ModelsGood, Same
  <2> QED
    BY <2>3, <2>4 DEF Same, ModelsGood, ModelsFields
<1> QED
  BY <1>1, <1>2, <1>3 DEF ModelsNext

\* A model that takes no images has none attached, whatever was chosen.
LEMMA FitKeeps ==
  ASSUME NEW p, IsPage(PlaygroundFields, p)
  PROVE  /\ IsPage(PlaygroundFields, Fit(p)) /\ Same(p, Fit(p), PlaygroundFields \ {"image"})
         /\ Fit(p).image # None => imageAllowed(Fit(p)) /\ Fit(p).image = p.image
<1> DEFINE q == [p EXCEPT !.image = None]
<1>1. IsPage(PlaygroundFields, q) /\ q.image = None /\ Same(p, q, PlaygroundFields \ {"image"})
  BY DEF IsPage, PlaygroundFields, Same
<1>2. /\ imageAllowed(p) => Fit(p) = p
      /\ ~imageAllowed(p) => Fit(p) = q
  BY DEF Fit
<1> HIDE DEF q
<1>3. CASE imageAllowed(p)
  <2>1. Fit(p) = p
    BY <1>2, <1>3
  <2> QED
    BY <1>3, <2>1 DEF Same
<1>4. CASE ~imageAllowed(p)
  <2>1. Fit(p) = q
    BY <1>2, <1>4
  <2> QED
    BY <1>1, <2>1
<1> QED
  BY <1>3, <1>4

------------------------------------------------------------------------------
(* The playground: a file that is chosen, a model, and one trial at a time.   *)
LEMMA PlaygroundHolds ==
  ASSUME NoneIsNull, CallsGood(op), PlaygroundGood(page, op), PlaygroundNext
  PROVE  CallsGood(op') /\ PlaygroundGood(page', op')
<1> DEFINE Changed(fields) == IsPage(PlaygroundFields, page') /\ Same(page, page', PlaygroundFields \ fields)
<1>1. CASE \E m \in ModelIds : PlaygroundSelect(m)
  <2>1. PICK m : Event(Fit([page EXCEPT !.model = m]), op) /\ page.phase = "ready"
    BY <1>1 DEF PlaygroundSelect
  <2> DEFINE p == [page EXCEPT !.model = m]
  <2>2. IsPage(PlaygroundFields, p) /\ p.model = m /\ Same(page, p, PlaygroundFields \ {"model"})
    BY DEF IsPage, PlaygroundFields, PlaygroundGood, Same
  <2>3. page' = Fit(p) /\ op' = op
    BY <2>1 DEF Event
  <2> HIDE DEF p
  <2>4. /\ Changed({"model", "image"})
        /\ page'.image # None => imageAllowed(page') /\ page'.image = page.image
    BY <2>2, <2>3, FitKeeps DEF Same, PlaygroundFields
  <2> QED
    BY <2>1, <2>3, <2>4 DEF Same, PlaygroundGood, PlaygroundFields, ProbeOwn, ImageOwn
<1>2. CASE \E f \in Files : PlaygroundChoose(f)
  <2>1. PICK f \in Files : PlaygroundChoose(f)
    BY <1>2
  <2>2. PICK next \in {"error", "reading"} :
          op' = op /\ page' = [page EXCEPT !.image = None, !.file = f, !.upload = next]
    BY <2>1 DEF PlaygroundChoose, Event
  <2>3. page.upload # "uploading"
    BY <2>1 DEF PlaygroundChoose
  <2>4. Changed({"image", "file", "upload"}) /\ page'.image = None /\ page'.upload = next
    BY <2>2 DEF IsPage, PlaygroundFields, PlaygroundGood, Same
  <2> QED
    BY <2>2, <2>4, <2>3 DEF Same, PlaygroundGood, PlaygroundFields, ProbeOwn, ImageOwn, Nil
<1>3. CASE PlaygroundRead
  <2>1. page.upload = "reading"
    BY <1>3 DEF PlaygroundRead
  <2>2. CASE Event([page EXCEPT !.upload = "error"], op)
    <3>1. op' = op /\ page' = [page EXCEPT !.upload = "error"]
      BY <2>2 DEF Event
    <3>2. Changed({"upload"}) /\ page'.upload = "error"
      BY <3>1 DEF IsPage, PlaygroundFields, PlaygroundGood, Same
    <3> QED
      BY <2>1, <3>1, <3>2 DEF Same, PlaygroundGood, PlaygroundFields, ProbeOwn, ImageOwn,
                              imageAllowed
  <2>3. CASE Ask("upload", page.file, "upload", [page EXCEPT !.upload = "uploading"])
    <3>1. page' = [page EXCEPT !.upload = "uploading"]
      BY <2>3, AskedTurn DEF Calls
    <3>2. \E n \in Call : Turn(op, op', Nobody, {}, n, "upload", page.file)
      BY <2>3, AskedTurn DEF Calls
    <3>3. Changed({"upload"}) /\ page'.upload = "uploading"
      BY <3>1 DEF IsPage, PlaygroundFields, PlaygroundGood, Same
    <3> QED
      BY <2>1, <3>2, <3>3, NobodyCalls
         DEF Same, PlaygroundGood, PlaygroundFields, ProbeOwn, ImageOwn, imageAllowed, Turn, One,
             Nil, Only, Own
  <2> QED
    BY <1>3, <2>2, <2>3 DEF PlaygroundRead
<1>4. CASE PlaygroundRemove
  <2>1. page' = [page EXCEPT !.image = None] /\ op' = op
    BY <1>4 DEF PlaygroundRemove, Event
  <2>2. Changed({"image"}) /\ page'.image = None
    BY <2>1 DEF IsPage, PlaygroundFields, PlaygroundGood, Same
  <2> QED
    BY <2>1, <2>2 DEF Same, PlaygroundGood, PlaygroundFields, ProbeOwn, ImageOwn
<1>5. CASE PlaygroundRun
  <2> DEFINE arg == [model |-> page.model, image |-> page.image]
  <2>1. /\ page.probe # "running"
        /\ \/ Event([page EXCEPT !.probe = "error", !.result = None], op)
           \/ Ask("probe", arg, "probe", [page EXCEPT !.probe = "running", !.ran = arg, !.result = None])
    BY <1>5 DEF PlaygroundRun
  <2>2. arg # None
    BY DEF NoneIsNull
  <2> HIDE DEF arg
  <2>3. CASE Event([page EXCEPT !.probe = "error", !.result = None], op)
    <3>1. page' = [page EXCEPT !.probe = "error", !.result = None] /\ op' = op
      BY <2>3 DEF Event
    <3>2. Changed({"probe", "result"}) /\ page'.probe = "error" /\ page'.result = None
      BY <3>1 DEF IsPage, PlaygroundFields, PlaygroundGood, Same
    <3> QED
      BY <2>1, <3>1, <3>2 DEF Same, PlaygroundGood, PlaygroundFields, ProbeOwn, ImageOwn,
                              imageAllowed
  <2>4. CASE Ask("probe", arg, "probe", [page EXCEPT !.probe = "running", !.ran = arg, !.result = None])
    <3>1. page' = [page EXCEPT !.probe = "running", !.ran = arg, !.result = None]
      BY <2>4, AskedTurn DEF Calls
    <3>2. \E n \in Call : Turn(op, op', Nobody, {}, n, "probe", arg)
      BY <2>4, AskedTurn DEF Calls
    <3>3. Changed({"probe", "ran", "result"}) /\ page'.probe = "running" /\ page'.ran = arg /\ page'.result = None
      BY <3>1 DEF IsPage, PlaygroundFields, PlaygroundGood, Same
    <3> QED
      BY <2>1, <2>2, <3>2, <3>3, NobodyCalls
         DEF Same, PlaygroundGood, PlaygroundFields, ProbeOwn, ImageOwn, imageAllowed, Turn, One,
             Nil, Only, Own
  <2> QED
    BY <2>1, <2>3, <2>4
<1>6. CASE PlaygroundCancel
  <2>1. page' = [page EXCEPT !.probe = "cancelled", !.result = None] /\ page.probe = "running"
    BY <1>6 DEF PlaygroundCancel, Event
  <2>2. Turn(op, op', Nobody, {"probe"}, Nobody, "none", None)
    BY <1>6, EventTurn DEF PlaygroundCancel
  <2>3. Changed({"probe", "result"}) /\ page'.probe = "cancelled" /\ page'.result = None
    BY <2>1 DEF IsPage, PlaygroundFields, PlaygroundGood, Same
  <2> QED
    BY <2>1, <2>2, <2>3, NobodyCalls
       DEF Same, PlaygroundGood, PlaygroundFields, ProbeOwn, ImageOwn, imageAllowed, Turn, One,
           Nil, Only, Own
<1> QED
  BY <1>1, <1>2, <1>3, <1>4, <1>5, <1>6 DEF PlaygroundNext

------------------------------------------------------------------------------
(* The requests page: a new query drops the answers to the old one.           *)
LEMMA RequestsHolds ==
  ASSUME NoneIsNull, CallsGood(op), RequestsGood(page, op), RequestsNext
  PROVE  CallsGood(op') /\ RequestsGood(page', op')
<1> DEFINE Changed(fields) == IsPage(RequestsFields, page') /\ Same(page, page', RequestsFields \ fields)
<1>1. CASE RequestsMore
  <2> DEFINE arg == [query |-> page.query, page |-> page.cursor]
             p == [page EXCEPT !.more = TRUE]
  <2>1. page.phase = "ready" /\ page.cursor # None /\ ~page.more /\ Ask("requests", arg, "next", p)
    BY <1>1 DEF RequestsMore
  <2>2. IsPage(RequestsFields, p) /\ Same(page, p, RequestsFields \ {"more"}) /\ p.more = TRUE
    BY DEF IsPage, RequestsFields, RequestsGood, Same
  <2>3. arg = [query |-> page.query, page |-> page.cursor]
    OBVIOUS
  <2> HIDE DEF arg, p
  <2>4. page' = p /\ \E n \in Call : Turn(op, op', Nobody, {}, n, "next", arg)
    BY <2>1, AskedTurn DEF Calls
  <2> QED
    BY <2>1, <2>2, <2>3, <2>4, NobodyCalls
       DEF Same, RequestsGood, RequestsFields, Turn, One, Nil, AtMost, Only, Own, RowsOwn
<1>2. ASSUME NEW q, RequestsQuery(q)
      PROVE  CallsGood(op') /\ RequestsGood(page', op')
  <2> DEFINE cleared == [page EXCEPT !.query = q, !.items = <<>>, !.cursor = None]
             left == drop(op, {"query", "next"})
  <2>1. IsPage(RequestsFields, cleared) /\ cleared.query = q
    BY DEF IsPage, RequestsFields, RequestsGood
  <2>2. \/ Event([cleared EXCEPT !.phase = "invalid"], left)
        \/ /\ FreeCalls(op) # {}
           /\ Event([cleared EXCEPT !.phase = "loading"], ask(left, "requests", cursorless(q), "query"))
    BY <1>2 DEF RequestsQuery, MayAsk, MayBegin
  <2> HIDE DEF cleared
  <2>3. CASE Event([cleared EXCEPT !.phase = "invalid"], left)
    <3>1. page' = [cleared EXCEPT !.phase = "invalid"]
      BY <2>3 DEF Event
    <3>2. Turn(op, op', Nobody, {"query", "next"}, Nobody, "none", None)
      BY <2>3, EventTurn
    <3>3. IsPage(RequestsFields, page') /\ page'.phase = "invalid"
      BY <2>1, <3>1 DEF IsPage, RequestsFields
    <3> QED
      BY <3>2, <3>3, NobodyCalls DEF RequestsGood, Turn, One, Nil, AtMost, Only, Own
  <2>4. CASE /\ FreeCalls(op) # {}
             /\ Event([cleared EXCEPT !.phase = "loading"], ask(left, "requests", cursorless(q), "query"))
    <3>1. page' = [cleared EXCEPT !.phase = "loading"]
      BY <2>4 DEF Event
    <3>2. \E n \in Call : Turn(op, op', Nobody, {"query", "next"}, n, "query", cursorless(q))
      BY <2>4, DropAskTurn DEF Event, Calls
    <3>3. IsPage(RequestsFields, page') /\ page'.phase = "loading" /\ page'.query = q
      BY <2>1, <3>1 DEF IsPage, RequestsFields
    <3> QED
      BY <3>2, <3>3, NobodyCalls DEF RequestsGood, Turn, One, Nil, AtMost, Only, Own
  <2> QED
    BY <2>2, <2>3, <2>4
<1> QED
  BY <1>1, <1>2 DEF RequestsNext

\* The dashboard and the accounts: a read is armed again after the last ends.
LEMMA ReadsHolds ==
  ASSUME NoneIsNull, CallsGood(op), ReadsGood(page, op), ReadsRefresh \/ DashboardPoll
  PROVE  CallsGood(op') /\ ReadsGood(page', op')
<1>1. page' = [page EXCEPT !.poll = "off"]
  BY AskedAgainTurn DEF ReadsRefresh, DashboardPoll, Calls, Event
<1>2. IsPage(ReadsFields, page') /\ page'.poll = "off"
  BY <1>1 DEF IsPage, ReadsFields, ReadsGood
<1>3. CASE ReadsRefresh
  <2>1. \E n \in Call : Turn(op, op', Nobody, {"read"}, n, "read", None)
    BY <1>3, AskedAgainTurn DEF ReadsRefresh, Calls
  <2> QED
    BY <1>2, <2>1, NobodyCalls DEF ReadsGood, Turn, Nil, AtMost, Only, Own
<1>4. CASE DashboardPoll
  <2>1. page.poll = "armed" /\ FreeCalls(op) # {} /\ op' = ask(op, "read", None, "read")
    BY <1>4 DEF DashboardPoll, PollArmed, Event
  <2>2. \E n \in Call : Turn(op, op', Nobody, {}, n, "read", None)
    BY <2>1, AskTurn DEF Calls
  <2> QED
    BY <1>2, <2>1, <2>2, NobodyCalls DEF ReadsGood, Turn, Nil, AtMost, Only, Own
<1> QED
  BY <1>3, <1>4

\* The timer of a login's poll.
LEMMA PollHolds ==
  ASSUME CallsGood(op), PollFires, SetupGood(page, op) \/ ManageGood(page, op)
  PROVE  /\ CallsGood(op')
         /\ SetupGood(page, op) => SetupGood(page', op')
         /\ ManageGood(page, op) => ManageGood(page', op')
<1>1. page' = [page EXCEPT !.poll = "off"]
  BY DEF PollFires, Event
<1> DEFINE arg == page.oauth.id
<1>2. PICK n \in Call : Turn(op, op', Nobody, {}, n, "poll", arg)
  BY AskTurn DEF PollFires, Event, Calls
<1> HIDE DEF arg
<1>3. ASSUME SetupGood(page, op)
      PROVE  SetupGood(page', op')
  <2>1. IsPage(SetupFields, page') /\ Same(page, page', SetupFields \ {"poll"})
    BY <1>1, <1>3 DEF IsPage, SetupFields, SetupGood, Same
  <2> QED
    BY <1>2, <1>3, <2>1, NobodyCalls
       DEF Same, SetupGood, SetupFields, SetupBys, ProbeOwn, Turn, One, Nil, Only, Own, BusyBys,
           RuntimeOps, Starts
<1>4. ASSUME ManageGood(page, op)
      PROVE  ManageGood(page', op')
  <2>1. IsPage(ManageFields, page') /\ Same(page, page', ManageFields \ {"poll"})
    BY <1>1, <1>4 DEF IsPage, ManageFields, ManageGood, Same
  <2> QED
    BY <1>2, <1>4, <2>1, NobodyCalls
       DEF Same, ManageGood, ManageFields, ManageBys, Turn, One, Nil, Only, Own, BusyBys,
           RuntimeOps, Starts
<1> QED
  BY <1>2, <1>3, <1>4, TurnGood

\* A page starts with the calls it makes when it is mounted,
LEMMA MountHolds ==
  ASSUME NoneIsNull, CallsGood(op), Only(op, {}), Mount
  PROVE  CallsGood(op') /\ PageGood(page', op')
<1> DEFINE Asked(p, by, arg) ==
             page' = p /\ view' = view /\ \E n \in Call : Turn(op, op', Nobody, {}, n, by, arg)
<1>1. ASSUME NEW p, NEW kind, kind # "none", NEW by, by \notin {"none", "other"}, Calls(by, kind),
             NEW arg,
             Event(p, ask(op, kind, arg, by))
      PROVE  Asked(p, by, arg)
  <2>1. FreeCalls(op) # {}
    BY DEF Mount, MayAsk, MayBegin
  <2> QED
    BY <1>1, <2>1, AskTurn DEF Event
<1>2. CASE view = "setup"
  <2>1. Asked(SetupInit, "status", None)
    BY <1>1, <1>2 DEF Mount, Mounted, Calls
  <2>2. /\ IsPage(SetupFields, SetupInit) /\ SetupInit.busy = None /\ SetupInit.probe = "idle"
        /\ SetupInit.phase = "ready" /\ SetupInit.result = None
    BY DEF SetupInit, IsPage, SetupFields
  <2> QED
    BY <1>2, <2>1, <2>2, NobodyCalls
       DEF PageGood, SetupGood, SetupBys, ProbeOwn, Turn, One, Nil, Only, Own, BusyBys,
           RuntimeOps, Starts
<1>3. CASE view = "settings"
  <2>1. Asked(SettingsInit, "status", None)
    BY <1>1, <1>3 DEF Mount, Mounted, Calls
  <2>2. IsPage(ManageFields, SettingsInit) /\ SettingsInit.busy = None
    BY DEF SettingsInit, IsPage, ManageFields
  <2> QED
    BY <1>3, <2>1, <2>2, NobodyCalls
       DEF PageGood, ManageGood, ManageBys, Turn, One, Nil, Only, Own, BusyBys, RuntimeOps, Starts
<1>4. CASE view = "models"
  <2>1. Asked(ModelsInit, "discover", None)
    BY <1>1, <1>4 DEF Mount, Mounted, Calls
  <2>2. IsPage(ModelsFields, ModelsInit) /\ ModelsInit.busy = None /\ ModelsInit.phase = "loading"
    BY DEF ModelsInit, IsPage, ModelsFields
  <2> QED
    BY <1>4, <2>1, <2>2, NobodyCalls DEF PageGood, ModelsGood, Turn, One, Nil, Only, Own
<1>5. CASE view = "playground"
  <2>1. Asked(PlaygroundInit, "discover", None)
    BY <1>1, <1>5 DEF Mount, Mounted, Calls
  <2>2. /\ IsPage(PlaygroundFields, PlaygroundInit) /\ PlaygroundInit.model = None
        /\ PlaygroundInit.phase = "loading" /\ PlaygroundInit.image = None /\ PlaygroundInit.upload = "idle"
        /\ PlaygroundInit.probe = "idle" /\ PlaygroundInit.result = None
    BY DEF PlaygroundInit, IsPage, PlaygroundFields
  <2> QED
    BY <1>5, <2>1, <2>2, NobodyCalls
       DEF PageGood, PlaygroundGood, ProbeOwn, ImageOwn, Turn, One, Nil, Only, Own
<1>6. CASE view = "requests"
  <2>1. Asked(RequestsInit, "query", cursorless(RequestsInit.query))
    BY <1>1, <1>6 DEF Mount, Mounted, Calls
  <2>2. IsPage(RequestsFields, RequestsInit) /\ RequestsInit.phase = "loading"
    BY DEF RequestsInit, IsPage, RequestsFields
  <2> QED
    BY <1>6, <2>1, <2>2, NobodyCalls DEF PageGood, RequestsGood, Turn, One, Nil, AtMost, Only, Own
<1>7. CASE view \in {"dashboard", "accounts"}
  <2>1. Asked(ReadsInit, "read", None)
    BY <1>1, <1>7 DEF Mount, Mounted, Calls
  <2>2. IsPage(ReadsFields, ReadsInit) /\ ReadsInit.poll = "off"
    BY DEF ReadsInit, IsPage, ReadsFields
  <2> QED
    BY <1>7, <2>1, <2>2, NobodyCalls DEF PageGood, ReadsGood, Turn, Nil, AtMost, Only, Own
<1>8. view \in {"setup", "settings", "models", "playground", "requests", "dashboard", "accounts"}
  BY DEF Mount, Mounted
<1> QED
  BY <1>2, <1>3, <1>4, <1>5, <1>6, <1>7, <1>8

\* and waits for none when it is left.
LEMMA LeaveHolds ==
  ASSUME CallsGood(op), Leave
  PROVE  CallsGood(op') /\ page' = None /\ Only(op', {})
<1> DEFINE bys == {op[c].by : c \in Call} \ {"other", "none"}
<1>1. page' = None /\ Turn(op, op', Nobody, bys, Nobody, "none", None)
  BY EventTurn DEF Leave
<1>2. \A c \in Call : Own(op[c]) => Role(op[c]) \in bys
  BY DEF Own, Role
<1> HIDE DEF bys
<1> QED
  BY <1>1, <1>2, NobodyCalls DEF Turn, Only, Own

-----------------------------------------------------------------------------
(* An answer.  The caller gets what the host answered, or a failure.         *)
AnswerTo(c, o) ==
  /\ o.by = op[c].by /\ page' = react(page, o) /\ op' = followUp(o, [op EXCEPT ![c] = Free])
  /\ o.out.ok => op[c].pc = "done" /\ o.out = op[c].out /\ OfArg(op[c].kind, op[c].arg, o.out.val)

\* An answer is of no function that still waits, or it is given to one.
LEMMA AnswerIs ==
  ASSUME CallsGood(op), NEW c \in Call, Answer(c)
  PROVE  \/ page' = page /\ Unseen(op, op') /\ ~Own(op[c]) /\ op' = [op EXCEPT ![c] = Free]
         \/ /\ Own(op[c]) /\ Role(op[c]) = op[c].by /\ Calls(op[c].by, op[c].kind)
            /\ \E o : AnswerTo(c, o)
<1> DEFINE freed == [op EXCEPT ![c] = Free]
<1>1. IsCall(op[c]) /\ CallGood(op[c]) /\ op[c].pc = "done" /\ op[c].by # "other"
  BY DEF Answer, CallsGood, IsOps
<1>2. PICK out \in {op[c].out, failed("REMOTE_UNAVAILABLE")} :
        LET o == [op[c] EXCEPT !.out = out]
        IN  IF o.cur THEN page' = react(page, o) /\ op' = followUp(o, freed) ELSE page' = page /\ op' = freed
  BY DEF Answer
<1> DEFINE o == [op[c] EXCEPT !.out = out]
<1>3. o.cur = op[c].cur /\ o.by = op[c].by /\ o.out = out
  BY <1>1 DEF IsCall, CallFields
<1>4. \/ op[c].cur /\ page' = react(page, o) /\ op' = followUp(o, freed)
      \/ ~op[c].cur /\ page' = page /\ op' = freed
  BY <1>2, <1>3
<1> HIDE DEF o
<1>5. CASE op[c].cur /\ page' = react(page, o) /\ op' = followUp(o, freed)
  <2>1. Own(op[c]) /\ Role(op[c]) = op[c].by /\ Calls(op[c].by, op[c].kind) /\ Honest(op[c])
    BY <1>1, <1>5 DEF CallGood, Own, Role
  <2>2. failed("REMOTE_UNAVAILABLE").ok = FALSE
    BY DEF failed
  <2>3. out.ok => op[c].pc = "done" /\ out = op[c].out /\ OfArg(op[c].kind, op[c].arg, out.val)
    BY <1>1, <2>1, <2>2 DEF Honest
  <2> QED
    BY <1>3, <1>5, <2>1, <2>3 DEF AnswerTo
<1>6. CASE ~op[c].cur /\ page' = page /\ op' = freed
  <2>1. Turn(op, op', c, {}, Nobody, "none", None)
    BY <1>6, FreeTurn
  <2>2. Role(op[c]) = "none"
    BY <1>6 DEF Role
  <2>3. Unseen(op, op')
    BY <2>1, <2>2, NobodyCalls DEF Turn, Unseen, Own
  <2> QED
    BY <1>6, <2>2, <2>3 DEF Own
<1> QED
  BY <1>4, <1>5, <1>6

\* The calls that a page makes on an answer, and those it drops.
LEMMA FollowTurn ==
  ASSUME CallsGood(op), NEW c \in Call, NEW o, AnswerTo(c, o)
  PROVE  /\ o.by \in {"login", "cancel"} /\ o.out.ok => Turn(op, op', c, {"poll"}, Nobody, "none", None)
         /\ view = "setup" /\ o.by = "start" /\ o.out.ok =>
              \E n \in Call : Turn(op, op', c, {"status"}, n, "status", None)
         /\ view = "models" /\ conflicted(o) => \E n \in Call : Turn(op, op', c, {"discover"}, n, "discover", None)
         /\ ~(/\ o.out.ok
              /\ o.by \in {"login", "cancel"} \/ (view = "setup" /\ o.by = "start"))
            /\ ~(view = "models" /\ conflicted(o))
            => Turn(op, op', c, {}, Nobody, "none", None)
<1> DEFINE freed == [op EXCEPT ![c] = Free]
<1>1. Turn(op, freed, c, {}, Nobody, "none", None) /\ FreeCalls(freed) # {} /\ op' = followUp(o, freed)
  BY FreeTurn DEF AnswerTo
<1> HIDE DEF freed
<1>2. CallsGood(freed)
  BY <1>1, TurnGood
<1>3. ASSUME NEW bys
      PROVE  Turn(op, drop(freed, bys), c, bys, Nobody, "none", None)
  <2>1. Turn(op, drop(freed, bys), c, {} \cup bys, Nobody, "none", None)
    BY <1>1, <1>2, DropTurn, TurnTurn
  <2>2. {} \cup bys = bys
    OBVIOUS
  <2> QED
    BY <2>1, <2>2
<1>4. ASSUME NEW kind, kind # "none", NEW by, by \notin {"none", "other"}, Calls(by, kind)
      PROVE  \E n \in Call : Turn(op, ask(drop(freed, {by}), kind, None, by), c, {by}, n, by, None)
  <2>1. PICK n \in Call : Turn(freed, ask(drop(freed, {by}), kind, None, by), Nobody, {by}, n, by, None)
    BY <1>1, <1>2, <1>4, DropAskTurn
  <2>2. Turn(op, ask(drop(freed, {by}), kind, None, by), c, {} \cup {by}, n, by, None)
    BY <1>1, <2>1, TurnTurn
  <2>3. {} \cup {by} = {by}
    OBVIOUS
  <2> QED
    BY <2>2, <2>3
<1>5. CASE o.by \in {"login", "cancel"} /\ o.out.ok
  <2>1. op' = drop(freed, {"poll"})
    BY <1>1, <1>5 DEF followUp, conflicted
  <2> QED
    BY <1>3, <1>5, <2>1 DEF conflicted
<1>6. CASE view = "setup" /\ o.by = "start" /\ o.out.ok
  <2>1. op' = ask(drop(freed, {"status"}), "status", None, "status")
    BY <1>1, <1>6 DEF followUp, conflicted
  <2> QED
    BY <1>4, <1>6, <2>1 DEF conflicted, Calls
<1>7. CASE view = "models" /\ conflicted(o)
  <2>1. op' = ask(drop(freed, {"discover"}), "models", None, "discover")
    BY <1>1, <1>7 DEF followUp, conflicted
  <2> QED
    BY <1>4, <1>7, <2>1 DEF conflicted, Calls
<1>8. CASE /\ ~(o.by \in {"login", "cancel"} /\ o.out.ok) /\ ~(view = "setup" /\ o.by = "start" /\ o.out.ok)
           /\ ~(view = "models" /\ conflicted(o))
  <2>1. op' = freed
    BY <1>1, <1>8 DEF followUp
  <2> QED
    BY <1>1, <1>8, <2>1
<1> QED
  BY <1>5, <1>6, <1>7, <1>8

-----------------------------------------------------------------------------
(* What the pages make of an answer.                                         *)
LEMMA SameTrans ==
  ASSUME NEW fields, NEW p, NEW q, NEW r, NEW some, NEW others,
         Same(p, q, fields \ some), Same(q, r, fields \ others)
  PROVE  Same(p, r, fields \ (some \cup others))
BY DEF Same

\* The fields that each update of a page writes; the others stay.
LEMMA WithIdle ==
  ASSUME NEW fields, "busy" \in fields, NEW p, IsPage(fields, p)
  PROVE  IsPage(fields, idle(p)) /\ idle(p).busy = None /\ Same(p, idle(p), fields \ {"busy"})
BY DEF IsPage, idle, Same

LEMMA IdleAfter ==
  ASSUME NEW fields, "busy" \in fields, NEW p, NEW q, IsPage(fields, q), NEW some,
         Same(p, q, fields \ some)
  PROVE  /\ IsPage(fields, idle(q)) /\ idle(q).busy = None /\ Same(q, idle(q), fields \ {"busy"})
         /\ Same(p, idle(q), fields \ (some \cup {"busy"}))
<1>1. IsPage(fields, idle(q)) /\ idle(q).busy = None /\ Same(q, idle(q), fields \ {"busy"})
  BY WithIdle
<1> QED
  BY <1>1 DEF Same

LEMMA WithLogin ==
  ASSUME NEW fields, "oauth" \in fields, "poll" \in fields, NEW p, IsPage(fields, p), NEW out
  PROVE  /\ IsPage(fields, withLogin(p, out)) /\ Same(p, withLogin(p, out), fields \ {"oauth", "poll"})
         /\ IsPage(fields, withPolled(p, out)) /\ Same(p, withPolled(p, out), fields \ {"oauth", "poll"})
BY DEF IsPage, withLogin, withPolled, Same

LEMMA WithStatus ==
  ASSUME NEW fields, {"status", "runtime", "codex", "provider"} \subseteq fields, NEW p,
         IsPage(fields, p), NEW out
  PROVE  /\ IsPage(fields, withStatus(p, out)) /\ withStatus(p, out).status \in {"error", "ready"}
         /\ Same(p, withStatus(p, out), fields \ {"status", "runtime", "codex", "provider"})
BY DEF IsPage, withStatus, Same

LEMMA WithModels ==
  ASSUME NEW fields, {"models", "rev", "basis", "phase"} \subseteq fields, NEW p,
         IsPage(fields, p), NEW out,
         NEW offline
  PROVE  /\ IsPage(fields, withModels(p, out, offline)) /\ withModels(p, out, offline).phase \in {offline, "ready"}
         /\ Same(p, withModels(p, out, offline), fields \ {"models", "rev", "basis", "phase"})
BY DEF IsPage, withModels, Same

LEMMA WithApplied ==
  ASSUME NEW fields, {"rev", "basis"} \subseteq fields, NEW p, IsPage(fields, p), NEW o
  PROVE  /\ IsPage(fields, withApplied(p, o))
         /\ Same(p, withApplied(p, o), fields \ {"rev", "basis"})
BY DEF IsPage, withApplied, Same

LEMMA WithProbe ==
  ASSUME NEW fields, {"probe", "result"} \subseteq fields, NEW p, IsPage(fields, p), NEW out
  PROVE  /\ IsPage(fields, withProbe(p, out)) /\ Same(p, withProbe(p, out), fields \ {"probe", "result"})
         /\ \/ /\ out.ok /\ out.val.ok
               /\ withProbe(p, out).probe = "success" /\ withProbe(p, out).result = out.val.of
            \/ withProbe(p, out).probe = "error" /\ withProbe(p, out).result = p.result
BY DEF IsPage, withProbe, Same

------------------------------------------------------------------------------
(* The answers, page by page: what the answered call leaves waiting is what the*)
(* page then shows as busy, loading, running or uploading.                    *)
LEMMA SetupAnswer ==
  ASSUME NoneIsNull, CallsGood(op), SetupGood(page, op), view = "setup", NEW c \in Call, NEW o,
         AnswerTo(c, o), Own(op[c]), Role(op[c]) = op[c].by, Calls(op[c].by, op[c].kind)
  PROVE  CallsGood(op') /\ SetupGood(page', op')
<1> DEFINE by == op[c].by
           F == SetupFields
           Changed(fields) == IsPage(F, page') /\ Same(page, page', F \ fields)
           Plain == Turn(op, op', c, {}, Nobody, "none", None)
<1>1. o.by = by /\ Role(op[c]) = by /\ by \in SetupBys /\ IsPage(F, page)
  BY DEF AnswerTo, SetupGood, Only
<1>2. page' = setupReact(page, o)
  BY DEF AnswerTo, react
<1>3. /\ by \notin {"login", "cancel", "start"} => Plain
      /\ by \in {"login", "cancel"} => Plain \/ Turn(op, op', c, {"poll"}, Nobody, "none", None)
      /\ by = "start" /\ ~o.out.ok => Plain
      /\ by = "start" /\ o.out.ok => \E n \in Call : Turn(op, op', c, {"status"}, n, "status", None)
  BY <1>1, FollowTurn
<1>4. {"status", "runtime", "codex", "provider", "oauth", "poll", "models", "phase", "rev",
       "basis", "applied", "probe", "result", "busy"} \subseteq F
  BY DEF SetupFields
<1>5. "busy" \in F /\ "status" \in F /\ "phase" \in F /\ "probe" \in F /\ "result" \in F
  BY DEF SetupFields
<1> HIDE DEF by
<1>6. CASE by = "status"
  <2>1. page' = withStatus(page, o.out)
    BY <1>1, <1>2, <1>6 DEF setupReact
  <2>2. Changed({"status", "runtime", "codex", "provider"}) /\ page'.status \in {"error", "ready"}
    BY <1>1, <1>4, <2>1, WithStatus
  <2>3. Role(op[c]) = "status" /\ Plain
    BY <1>1, <1>3, <1>6
  <2> QED
    BY <2>3, <2>2, NobodyCalls
       DEF Same, SetupGood, SetupFields, SetupBys, ProbeOwn, Turn, One, Nil, Only, Own, BusyBys,
           RuntimeOps, Starts
<1>7. CASE by = "install"
  <2> DEFINE p == IF o.out.ok THEN [page EXCEPT !.runtime = o.out.val] ELSE page
  <2>1. page' = idle(p)
    BY <1>1, <1>2, <1>7 DEF setupReact
  <2>2. IsPage(F, p) /\ Same(page, p, F \ {"runtime"})
    BY <1>1, <1>4 DEF IsPage, Same
  <2> HIDE DEF p
  <2>3. IsPage(F, page') /\ Same(page, page', F \ ({"runtime"} \cup {"busy"})) /\ page'.busy = None
    BY <1>5, <2>1, <2>2, IdleAfter
  <2>4. Role(op[c]) = "install" /\ Plain
    BY <1>1, <1>3, <1>7
  <2> QED
    BY <2>4, <2>3, NobodyCalls
       DEF Same, SetupGood, SetupFields, SetupBys, ProbeOwn, Turn, One, Nil, Only, Own, BusyBys,
           RuntimeOps, Starts
<1>8. CASE by = "start"
  <2> DEFINE p == IF o.out.ok THEN [page EXCEPT !.runtime = o.out.val, !.status = "loading"] ELSE page
  <2>1. page' = idle(p)
    BY <1>1, <1>2, <1>8 DEF setupReact
  <2>2. IsPage(F, p) /\ Same(page, p, F \ {"runtime", "status"}) /\ (~o.out.ok => p.status = page.status)
    BY <1>1, <1>4 DEF IsPage, Same
  <2> HIDE DEF p
  <2>3. IsPage(F, page') /\ Same(page, page', F \ ({"runtime", "status"} \cup {"busy"})) /\ page'.busy = None
        /\ Same(p, page', F \ {"busy"})
    BY <1>5, <2>1, <2>2, IdleAfter
  <2>4. ~o.out.ok => page'.status = page.status
    BY <1>5, <2>2, <2>3 DEF Same
  <2>5. CASE o.out.ok
    <3>1. Role(op[c]) = "start" /\ \E n \in Call : Turn(op, op', c, {"status"}, n, "status", None)
      BY <1>1, <1>3, <1>8, <2>5
    <3> QED
      BY <2>3, <3>1, NobodyCalls
         DEF Same, SetupGood, SetupFields, SetupBys, ProbeOwn, Turn, One, Nil, Only, Own,
             BusyBys, RuntimeOps, Starts
  <2>6. CASE ~o.out.ok
    <3>1. Role(op[c]) = "start" /\ Plain
      BY <1>1, <1>3, <1>8, <2>6
    <3> QED
      BY <2>3, <2>4, <2>6, <3>1, NobodyCalls
         DEF Same, SetupGood, SetupFields, SetupBys, ProbeOwn, Turn, One, Nil, Only, Own,
             BusyBys, RuntimeOps, Starts
  <2> QED
    BY <2>5, <2>6
<1>9. CASE by \in {"login", "cancel"}
  <2> DEFINE p == withLogin(page, o.out)
  <2>1. page' = idle(p)
    BY <1>1, <1>2, <1>9 DEF setupReact
  <2>2. IsPage(F, p) /\ Same(page, p, F \ {"oauth", "poll"})
    BY <1>1, <1>4, WithLogin
  <2> HIDE DEF p
  <2>3. IsPage(F, page') /\ Same(page, page', F \ ({"oauth", "poll"} \cup {"busy"})) /\ page'.busy = None
    BY <1>5, <2>1, <2>2, IdleAfter
  <2>4. Role(op[c]) \in {"login", "cancel"} /\ (Plain \/ Turn(op, op', c, {"poll"}, Nobody, "none", None))
    BY <1>1, <1>3, <1>9
  <2> QED
    BY <2>4, <2>3, NobodyCalls
       DEF Same, SetupGood, SetupFields, SetupBys, ProbeOwn, Turn, One, Nil, Only, Own, BusyBys,
           RuntimeOps, Starts
<1>10. CASE by = "poll"
  <2>1. page' = withPolled(page, o.out)
    BY <1>1, <1>2, <1>10 DEF setupReact
  <2>2. Changed({"oauth", "poll"})
    BY <1>1, <1>4, <2>1, WithLogin
  <2>3. Role(op[c]) = "poll" /\ Plain
    BY <1>1, <1>3, <1>10
  <2> QED
    BY <2>3, <2>2, NobodyCalls
       DEF Same, SetupGood, SetupFields, SetupBys, ProbeOwn, Turn, One, Nil, Only, Own, BusyBys,
           RuntimeOps, Starts
<1>11. CASE by = "discover"
  <2> DEFINE p == withModels(page, o.out, "error")
  <2>1. page' = idle(p)
    BY <1>1, <1>2, <1>11 DEF setupReact
  <2>2. IsPage(F, p) /\ Same(page, p, F \ {"models", "rev", "basis", "phase"}) /\ p.phase \in {"error", "ready"}
    BY <1>1, <1>4, WithModels
  <2> HIDE DEF p
  <2>3. IsPage(F, page') /\ Same(page, page', F \ ({"models", "rev", "basis", "phase"} \cup {"busy"}))
        /\ page'.busy = None /\ Same(p, page', F \ {"busy"})
    BY <1>5, <2>1, <2>2, IdleAfter
  <2>4. page'.phase \in {"error", "ready"}
    BY <1>5, <2>2, <2>3 DEF Same
  <2>5. Role(op[c]) = "discover" /\ Plain
    BY <1>1, <1>3, <1>11
  <2> QED
    BY <2>5, <2>3, <2>4, NobodyCalls
       DEF Same, SetupGood, SetupFields, SetupBys, ProbeOwn, Turn, One, Nil, Only, Own, BusyBys,
           RuntimeOps, Starts
<1>12. CASE by = "apply"
  <2> DEFINE r == withApplied(page, o)
             q == [r EXCEPT !.applied = @ \/ o.out.ok]
             e == [page EXCEPT !.phase = "error"]
             p == IF conflicted(o) THEN e ELSE q
  <2>1. page' = idle(p)
    BY <1>1, <1>2, <1>12 DEF setupReact
  <2>2. IsPage(F, r) /\ Same(page, r, F \ {"rev", "basis"})
    BY <1>1, <1>4, WithApplied
  <2>3. IsPage(F, e) /\ Same(page, e, F \ {"phase"}) /\ e.phase = "error"
    BY <1>1, <1>4 DEF IsPage, Same
  <2> HIDE DEF r, e
  <2>4. IsPage(F, q) /\ Same(r, q, F \ {"applied"})
    BY <2>2 DEF IsPage, Same
  <2> HIDE DEF q
  <2>5. Same(page, q, F \ ({"rev", "basis"} \cup {"applied"}))
    BY <2>2, <2>4, SameTrans
  <2>6. /\ IsPage(F, p) /\ Same(page, p, F \ {"rev", "basis", "applied", "phase"})
        /\ p.phase = "error" \/ p.phase = page.phase
    BY <1>4, <2>3, <2>4, <2>5 DEF Same
  <2> HIDE DEF p
  <2>7. IsPage(F, page') /\ Same(page, page', F \ ({"rev", "basis", "applied", "phase"} \cup {"busy"}))
        /\ page'.busy = None /\ Same(p, page', F \ {"busy"})
    BY <1>5, <2>1, <2>6, IdleAfter
  <2>8. page'.phase = "error" \/ page'.phase = page.phase
    BY <1>5, <2>6, <2>7 DEF Same
  <2>9. Role(op[c]) = "apply" /\ Plain
    BY <1>1, <1>3, <1>12
  <2> QED
    BY <2>9, <2>7, <2>8, NobodyCalls
       DEF Same, SetupGood, SetupFields, SetupBys, ProbeOwn, Turn, One, Nil, Only, Own, BusyBys,
           RuntimeOps, Starts
<1>13. CASE by = "probe"
  <2> DEFINE p == withProbe(page, o.out)
  <2>1. page' = idle(p)
    BY <1>1, <1>2, <1>13 DEF setupReact
  <2>2. /\ IsPage(F, p) /\ Same(page, p, F \ {"probe", "result"})
        /\ \/ o.out.ok /\ o.out.val.ok /\ p.probe = "success" /\ p.result = o.out.val.of
           \/ p.probe = "error" /\ p.result = page.result
    BY <1>1, <1>4, WithProbe
  <2>3. o.out.ok /\ o.out.val.ok => o.out.val.of = page.ran
    BY <1>1, <1>13 DEF AnswerTo, OfArg, Calls, SetupGood, ProbeOwn
  <2> HIDE DEF p
  <2>4. IsPage(F, page') /\ Same(page, page', F \ ({"probe", "result"} \cup {"busy"}))
        /\ page'.busy = None /\ Same(p, page', F \ {"busy"})
    BY <1>5, <2>1, <2>2, IdleAfter
  <2>5. \/ page'.probe = "success" /\ page'.result = page.ran
        \/ page'.probe = "error" /\ page'.result = page.result
    BY <1>5, <2>2, <2>3, <2>4 DEF Same
  <2>6. Role(op[c]) = "probe" /\ Plain
    BY <1>1, <1>3, <1>13
  <2> QED
    BY <2>6, <2>4, <2>5, NobodyCalls
       DEF Same, SetupGood, SetupFields, SetupBys, ProbeOwn, Turn, One, Nil, Only, Own, BusyBys,
           RuntimeOps, Starts
<1> QED
  BY <1>1, <1>6, <1>7, <1>8, <1>9, <1>10, <1>11, <1>12, <1>13 DEF SetupBys

\* The settings page.
LEMMA ManageAnswer ==
  ASSUME CallsGood(op), ManageGood(page, op), view = "settings", NEW c \in Call, NEW o,
         AnswerTo(c, o), Own(op[c]), Role(op[c]) = op[c].by
  PROVE  CallsGood(op') /\ ManageGood(page', op')
<1> DEFINE by == op[c].by
           F == ManageFields
           Plain == Turn(op, op', c, {}, Nobody, "none", None)
           Polled == Turn(op, op', c, {"poll"}, Nobody, "none", None)
<1>1. o.by = by /\ Role(op[c]) = by /\ by \in ManageBys /\ IsPage(F, page)
  BY DEF AnswerTo, ManageGood, Only
<1>2. page' = settingsReact(page, o)
  BY DEF AnswerTo, react
<1>3. Plain \/ Polled
  BY <1>1, FollowTurn
<1>4. {"status", "runtime", "codex", "provider"} \subseteq F /\ "runtime" \in F /\ "busy" \in F
      /\ "oauth" \in F /\ "poll" \in F /\ "status" \in F
  BY DEF ManageFields
<1> HIDE DEF by
<1>5. CASE by = "status"
  <2> DEFINE r == withStatus(page, o.out)
  <2>1. /\ o.out.ok => page' = [r EXCEPT !.status = "shown"]
        /\ ~o.out.ok => page' = [page EXCEPT !.status = "shown"]
    BY <1>2, <1>1, <1>5 DEF settingsReact, RuntimeOps, Starts
  <2>2. IsPage(F, r) /\ Same(page, r, F \ {"status", "runtime", "codex", "provider"})
    BY <1>1, <1>4, WithStatus
  <2> HIDE DEF r
  <2>3. /\ IsPage(F, page') /\ page'.status = "shown"
        /\ Same(page, page', F \ {"status", "runtime", "codex", "provider"})
    BY <1>1, <1>4, <2>1, <2>2 DEF IsPage, Same
  <2>4. Role(op[c]) = "status"
    BY <1>1, <1>5
  <2> QED
    BY <1>3, <2>3, <2>4, NobodyCalls
       DEF Same, ManageGood, ManageFields, ManageBys, Turn, One, Nil, Only, Own, BusyBys,
           RuntimeOps, Starts
<1>6. CASE by \in RuntimeOps
  <2> DEFINE p == IF o.out.ok THEN [page EXCEPT !.runtime = o.out.val] ELSE page
  <2>1. page' = idle(p)
    BY <1>2, <1>1, <1>6 DEF settingsReact, RuntimeOps, Starts
  <2>2. IsPage(F, p) /\ Same(page, p, F \ {"runtime"})
    BY <1>1, <1>4 DEF IsPage, Same
  <2> HIDE DEF p
  <2>3. IsPage(F, page') /\ Same(page, page', F \ ({"runtime"} \cup {"busy"})) /\ page'.busy = None
    BY <1>4, <2>1, <2>2, IdleAfter
  <2>4. Role(op[c]) \in RuntimeOps
    BY <1>1, <1>6
  <2> QED
    BY <1>3, <2>3, <2>4, NobodyCalls
       DEF Same, ManageGood, ManageFields, ManageBys, Turn, One, Nil, Only, Own, BusyBys,
           RuntimeOps, Starts
<1>7. CASE by \in {"login", "cancel"}
  <2> DEFINE p == withLogin(page, o.out)
  <2>1. page' = idle(p)
    BY <1>2, <1>1, <1>7 DEF settingsReact, RuntimeOps, Starts
  <2>2. IsPage(F, p) /\ Same(page, p, F \ {"oauth", "poll"})
    BY <1>1, <1>4, WithLogin
  <2> HIDE DEF p
  <2>3. IsPage(F, page') /\ Same(page, page', F \ ({"oauth", "poll"} \cup {"busy"})) /\ page'.busy = None
    BY <1>4, <2>1, <2>2, IdleAfter
  <2>4. Role(op[c]) \in {"login", "cancel"}
    BY <1>1, <1>7
  <2> QED
    BY <1>3, <2>3, <2>4, NobodyCalls
       DEF Same, ManageGood, ManageFields, ManageBys, Turn, One, Nil, Only, Own, BusyBys,
           RuntimeOps, Starts
<1>8. CASE by = "poll"
  <2>1. page' = withPolled(page, o.out)
    BY <1>2, <1>1, <1>8 DEF settingsReact, RuntimeOps, Starts
  <2>2. IsPage(F, page') /\ Same(page, page', F \ {"oauth", "poll"})
    BY <1>1, <1>4, <2>1, WithLogin
  <2>3. Role(op[c]) = "poll"
    BY <1>1, <1>8
  <2> QED
    BY <1>3, <2>2, <2>3, NobodyCalls
       DEF Same, ManageGood, ManageFields, ManageBys, Turn, One, Nil, Only, Own, BusyBys,
           RuntimeOps, Starts
<1> QED
  BY <1>1, <1>5, <1>6, <1>7, <1>8 DEF ManageBys

\* The models page: an apply that meets a newer revision discovers again.
LEMMA ModelsAnswer ==
  ASSUME CallsGood(op), ModelsGood(page, op), view = "models", NEW c \in Call, NEW o,
         AnswerTo(c, o), Own(op[c]), Role(op[c]) = op[c].by
  PROVE  CallsGood(op') /\ ModelsGood(page', op')
<1> DEFINE by == op[c].by
           F == ModelsFields
           Plain == Turn(op, op', c, {}, Nobody, "none", None)
<1>1. o.by = by /\ Role(op[c]) = by /\ by \in {"discover", "apply"} /\ IsPage(F, page)
      /\ page' = modelsReact(page, o)
  BY DEF AnswerTo, ModelsGood, Only, react
<1>2. /\ conflicted(o) => by = "apply" /\ \E n \in Call : Turn(op, op', c, {"discover"}, n, "discover", None)
      /\ ~conflicted(o) => Plain
  BY <1>1, FollowTurn DEF conflicted
<1>3. {"models", "rev", "basis", "phase"} \subseteq F /\ {"rev", "basis"} \subseteq F
      /\ "phase" \in F /\ "busy" \in F
  BY DEF ModelsFields
<1> HIDE DEF by
<1>4. CASE by = "discover"
  <2>1. page' = withModels(page, o.out, "offline")
    BY <1>1, <1>4 DEF modelsReact
  <2>2. /\ IsPage(F, page') /\ Same(page, page', F \ {"models", "rev", "basis", "phase"})
        /\ page'.phase \in {"offline", "ready"}
    BY <1>1, <1>3, <2>1, WithModels
  <2>3. Role(op[c]) = "discover" /\ Plain
    BY <1>1, <1>2, <1>4
  <2> QED
    BY <2>2, <2>3, NobodyCalls DEF Same, ModelsGood, ModelsFields, Turn, One, Nil, Only, Own
<1>5. CASE by = "apply" /\ conflicted(o)
  <2> DEFINE p == [page EXCEPT !.phase = "loading"]
  <2>1. page' = idle(p)
    BY <1>1, <1>5 DEF modelsReact
  <2>2. IsPage(F, p) /\ Same(page, p, F \ {"phase"}) /\ p.phase = "loading"
    BY <1>1, <1>3 DEF IsPage, Same
  <2> HIDE DEF p
  <2>3. IsPage(F, page') /\ Same(page, page', F \ ({"phase"} \cup {"busy"})) /\ page'.busy = None
        /\ Same(p, page', F \ {"busy"})
    BY <1>3, <2>1, <2>2, IdleAfter
  <2>4. page'.phase = "loading"
    BY <1>3, <2>2, <2>3 DEF Same
  <2>5. Role(op[c]) = "apply" /\ \E n \in Call : Turn(op, op', c, {"discover"}, n, "discover", None)
    BY <1>1, <1>2, <1>5
  <2> QED
    BY <2>3, <2>4, <2>5, NobodyCalls DEF Same, ModelsGood, ModelsFields, Turn, One, Nil, Only, Own
<1>6. CASE by = "apply" /\ ~conflicted(o)
  <2> DEFINE p == withApplied(page, o)
  <2>1. page' = idle(p)
    BY <1>1, <1>6 DEF modelsReact
  <2>2. IsPage(F, p) /\ Same(page, p, F \ {"rev", "basis"})
    BY <1>1, <1>3, WithApplied
  <2> HIDE DEF p
  <2>3. IsPage(F, page') /\ Same(page, page', F \ ({"rev", "basis"} \cup {"busy"})) /\ page'.busy = None
    BY <1>3, <2>1, <2>2, IdleAfter
  <2>4. Role(op[c]) = "apply" /\ Plain
    BY <1>1, <1>2, <1>6
  <2> QED
    BY <2>3, <2>4, NobodyCalls DEF Same, ModelsGood, ModelsFields, Turn, One, Nil, Only, Own
<1> QED
  BY <1>1, <1>4, <1>5, <1>6

\* The playground: an image and a result are of what the page asked for.
LEMMA PlaygroundAnswer ==
  ASSUME NoneIsNull, CallsGood(op), PlaygroundGood(page, op), view = "playground", NEW c \in Call,
         NEW o,
         AnswerTo(c, o), Own(op[c]), Role(op[c]) = op[c].by, Calls(op[c].by, op[c].kind)
  PROVE  CallsGood(op') /\ PlaygroundGood(page', op')
<1> DEFINE by == op[c].by
           F == PlaygroundFields
           Changed(fields) == IsPage(F, page') /\ Same(page, page', F \ fields)
           Plain == Turn(op, op', c, {}, Nobody, "none", None)
<1>1. o.by = by /\ Role(op[c]) = by /\ by \in {"discover", "upload", "probe"} /\ IsPage(F, page)
  BY DEF AnswerTo, PlaygroundGood, Only
<1>2. page' = playgroundReact(page, o)
  BY DEF AnswerTo, react
<1>3. Plain
  BY <1>1, FollowTurn
<1>4. {"probe", "result"} \subseteq F /\ "upload" \in F /\ "image" \in F
  BY DEF PlaygroundFields
<1> HIDE DEF by
<1>5. CASE by = "discover"
  <2> DEFINE models == o.out.val.models
             model == IF DOMAIN models = {} THEN None ELSE CHOOSE m \in DOMAIN models : TRUE
  <2>1. /\ o.out.ok => page' = [page EXCEPT !.models = models, !.phase = "ready", !.model = model]
        /\ ~o.out.ok => page' = [page EXCEPT !.phase = "unavailable"]
    BY <1>1, <1>2, <1>5 DEF playgroundReact
  <2> HIDE DEF models, model
  <2>2. Changed({"models", "phase", "model"}) /\ page'.phase \in {"ready", "unavailable"}
    BY <1>1, <2>1 DEF IsPage, PlaygroundFields, Same
  <2>3. page.phase = "loading" /\ page.image = None
    BY <1>1, <1>5 DEF PlaygroundGood, Nil, ImageOwn, imageAllowed
  <2>4. Role(op[c]) = "discover" /\ Plain
    BY <1>1, <1>3, <1>5
  <2> QED
    BY <2>2, <2>3, <2>4, NobodyCalls
       DEF Same, PlaygroundGood, PlaygroundFields, ProbeOwn, ImageOwn, Turn, One, Nil, Only, Own
<1>6. CASE by = "upload"
  <2> DEFINE p == [page EXCEPT !.image = o.out.val, !.upload = "idle"]
  <2>1. /\ o.out.ok => page' = Fit(p)
        /\ ~o.out.ok => page' = [page EXCEPT !.upload = "error"]
    BY <1>1, <1>2, <1>6 DEF playgroundReact
  <2>2. IsPage(F, p) /\ Same(page, p, F \ {"image", "upload"}) /\ p.image = o.out.val /\ p.upload = "idle"
    BY <1>1 DEF IsPage, PlaygroundFields, Same
  <2>3. o.out.ok => o.out.val = page.file
    BY <1>1, <1>6 DEF AnswerTo, OfArg, Calls, PlaygroundGood, ImageOwn
  <2> HIDE DEF p
  <2>4. /\ IsPage(F, Fit(p)) /\ Same(p, Fit(p), F \ {"image"})
        /\ Fit(p).image # None => imageAllowed(Fit(p)) /\ Fit(p).image = p.image
    BY <2>2, FitKeeps
  <2>5. Changed({"image", "upload"}) /\ page'.upload \in {"idle", "error"}
    <3>1. CASE o.out.ok
      BY <2>1, <2>2, <2>4, <3>1 DEF Same, PlaygroundFields
    <3>2. CASE ~o.out.ok
      BY <1>1, <2>1, <3>2 DEF Same, PlaygroundFields, IsPage
    <3> QED
      BY <3>1, <3>2
  <2>6. page'.image # None => page'.image = page'.file /\ imageAllowed(page')
    <3>1. CASE o.out.ok
      BY <2>1, <2>2, <2>3, <2>4, <2>5, <3>1 DEF Same, PlaygroundFields
    <3>2. CASE ~o.out.ok
      <4>1. Same(page, page', F \ {"upload"})
        BY <1>1, <2>1, <3>2 DEF Same, PlaygroundFields, IsPage
      <4> QED
        BY <4>1 DEF Same, PlaygroundFields, PlaygroundGood, ImageOwn, imageAllowed
    <3> QED
      BY <3>1, <3>2
  <2>7. Role(op[c]) = "upload" /\ Plain
    BY <1>1, <1>3, <1>6
  <2> QED
    BY <2>5, <2>6, <2>7, NobodyCalls
       DEF Same, PlaygroundGood, PlaygroundFields, ProbeOwn, ImageOwn, Turn, One, Nil, Only, Own
<1>7. CASE by = "probe"
  <2>1. page' = withProbe(page, o.out)
    BY <1>1, <1>2, <1>7 DEF playgroundReact
  <2>2. /\ Changed({"probe", "result"})
        /\ \/ o.out.ok /\ o.out.val.ok /\ page'.probe = "success" /\ page'.result = o.out.val.of
           \/ page'.probe = "error" /\ page'.result = page.result
    BY <1>1, <1>4, <2>1, WithProbe
  <2>3. o.out.ok /\ o.out.val.ok => o.out.val.of = page.ran
    BY <1>1, <1>7 DEF AnswerTo, OfArg, Calls, PlaygroundGood, ProbeOwn
  <2>4. Role(op[c]) = "probe" /\ Plain
    BY <1>1, <1>3, <1>7
  <2> QED
    BY <2>2, <2>3, <2>4, NobodyCalls
       DEF Same, PlaygroundGood, PlaygroundFields, ProbeOwn, ImageOwn, imageAllowed, Turn, One,
           Nil, Only, Own
<1> QED
  BY <1>1, <1>5, <1>6, <1>7

\* The next page of rows is put after those before it.
LEMMA FirstPagesGrow ==
  ASSUME NEW query, NEW n \in Nat
  PROVE  /\ FirstPages(query, 0) = <<>> /\ FirstPages(query, 1) = <<[query |-> query, page |-> 1]>>
         /\ FirstPages(query, n) \o <<>> = FirstPages(query, n)
         /\ FirstPages(query, n) \o <<[query |-> query, page |-> n + 1]>> = FirstPages(query, n + 1)
<1> DEFINE row(i) == [query |-> query, page |-> i]
           rows(m) == [i \in 1..m |-> row(i)]
<1>1. \A m : FirstPages(query, m) = rows(m)
  BY DEF FirstPages
<1> HIDE DEF row
<1>2. \A m \in Nat : rows(m) \in Seq({row(i) : i \in Nat}) /\ Len(rows(m)) = m
  OBVIOUS
<1>3. rows(0) = <<>> /\ rows(1) = <<row(1)>>
  OBVIOUS
<1>4. rows(n) \o <<>> = rows(n)
  BY <1>2
<1>5. rows(n) \o <<row(n + 1)>> = rows(n + 1)
  OBVIOUS
<1> QED
  BY <1>1, <1>3, <1>4, <1>5 DEF row

\* The requests page: rows are of the query on the page, in their order.
LEMMA RequestsAnswer ==
  ASSUME NoneIsNull, CallsGood(op), RequestsGood(page, op), view = "requests", NEW c \in Call,
         NEW o,
         AnswerTo(c, o), Own(op[c]), Role(op[c]) = op[c].by, Calls(op[c].by, op[c].kind)
  PROVE  CallsGood(op') /\ RequestsGood(page', op')
<1> DEFINE by == op[c].by
           F == RequestsFields
           Changed(fields) == IsPage(F, page') /\ Same(page, page', F \ fields)
           Plain == Turn(op, op', c, {}, Nobody, "none", None)
           rows == o.out.val.rows
           next == o.out.val.next
           arg == op[c].arg
<1>1. o.by = by /\ Role(op[c]) = by /\ by \in {"query", "next"} /\ IsPage(F, page)
  BY DEF AnswerTo, RequestsGood, Only
<1>2. page' = requestsReact(page, o)
  BY DEF AnswerTo, react
<1>3. Plain
  BY <1>1, FollowTurn
<1>4. o.out.ok => \/ rows = <<>> /\ next = None
                  \/ rows = <<arg>> /\ next \in {None, arg.page + 1}
  BY <1>1 DEF AnswerTo, OfArg, Calls
<1> HIDE DEF by, rows, next, arg
<1>5. CASE by = "query"
  <2>1. /\ o.out.ok => page' = [page EXCEPT !.items = rows, !.cursor = next, !.phase = "ready"]
        /\ ~o.out.ok => page' = [page EXCEPT !.phase = "unavailable"]
    BY <1>1, <1>2, <1>5 DEF requestsReact, rows, next
  <2>2. /\ Changed({"items", "cursor", "phase"}) /\ page'.phase \in {"ready", "unavailable"}
        /\ page'.phase = "ready" => o.out.ok /\ page'.items = rows /\ page'.cursor = next
    BY <1>1, <2>1 DEF IsPage, RequestsFields, Same
  <2>3. page.phase = "loading" /\ arg = [query |-> page.query, page |-> 1] /\ Nil(op, {"next"})
    BY <1>1, <1>5 DEF RequestsGood, Nil, cursorless, arg
  <2>4. page'.phase = "ready" => RowsOwn(page')
    <3>1. page'.query = page.query
      BY <2>2 DEF Same, RequestsFields
    <3>2. /\ FirstPages(page.query, 0) = <<>>
          /\ FirstPages(page.query, 1) = <<[query |-> page.query, page |-> 1]>>
      BY FirstPagesGrow
    <3>3. CASE rows = <<>> /\ next = None
      BY <2>2, <3>1, <3>2, <3>3 DEF RowsOwn
    <3>4. CASE rows = <<arg>> /\ next \in {None, arg.page + 1}
      BY <2>2, <2>3, <3>1, <3>2, <3>4 DEF RowsOwn
    <3> QED
      BY <1>4, <2>2, <3>3, <3>4
  <2>5. Role(op[c]) = "query" /\ Plain
    BY <1>1, <1>3, <1>5
  <2> HIDE DEF Plain
  <2>6. Nil(op', {"next", "query"}) /\ Only(op', {"query", "next"}) /\ CallsGood(op')
    BY <2>3, <2>5, NobodyCalls DEF RequestsGood, Turn, One, Nil, Only, Own, Plain
  <2> QED
    BY <2>2, <2>4, <2>6 DEF RequestsGood, Nil, AtMost
<1>6. CASE by = "next"
  <2>1. /\ o.out.ok => page' = [page EXCEPT !.items = @ \o rows, !.cursor = next, !.more = FALSE]
        /\ ~o.out.ok => page' = [page EXCEPT !.more = FALSE]
    BY <1>1, <1>2, <1>6 DEF requestsReact, rows, next
  <2>2. /\ Changed({"items", "cursor", "more"})
        /\ o.out.ok => page'.items = page.items \o rows /\ page'.cursor = next
        /\ ~o.out.ok => page'.items = page.items /\ page'.cursor = page.cursor
    BY <1>1, <2>1 DEF IsPage, RequestsFields, Same
  <2>3. /\ page.phase = "ready" /\ page.cursor # None
        /\ arg = [query |-> page.query, page |-> page.cursor] /\ RowsOwn(page)
    BY <1>1, <1>6 DEF RequestsGood, arg
  <2>4. page'.phase = "ready" /\ page'.query = page.query
    BY <2>2, <2>3 DEF Same, RequestsFields
  <2>5. RowsOwn(page')
    <3>1. PICK n \in Nat : page.items = FirstPages(page.query, n) /\ page.cursor = n + 1
      BY <2>3 DEF RowsOwn
    <3>2. /\ FirstPages(page.query, n) \o <<>> = FirstPages(page.query, n)
          /\ FirstPages(page.query, n) \o <<[query |-> page.query, page |-> n + 1]>>
               = FirstPages(page.query, n + 1)
      BY FirstPagesGrow
    <3>3. ASSUME ~o.out.ok
          PROVE  RowsOwn(page')
      BY <2>2, <2>4, <3>1, <3>3 DEF RowsOwn
    <3>4. ASSUME o.out.ok, rows = <<>>, next = None
          PROVE  RowsOwn(page')
      BY <2>2, <2>4, <3>1, <3>2, <3>4 DEF RowsOwn
    <3>5. ASSUME o.out.ok, rows = <<arg>>, next \in {None, arg.page + 1}
          PROVE  RowsOwn(page')
      <4>1. n + 1 \in Nat /\ arg.page = n + 1
        BY <2>3, <3>1
      <4>2. page'.items = FirstPages(page.query, n + 1) /\ page'.cursor \in {None, (n + 1) + 1}
        BY <2>2, <2>3, <3>1, <3>2, <3>5, <4>1
      <4> QED
        BY <2>4, <4>1, <4>2 DEF RowsOwn
    <3> QED
      BY <1>4, <3>3, <3>4, <3>5
  <2>6. Role(op[c]) = "next" /\ Plain
    BY <1>1, <1>3, <1>6
  <2> HIDE DEF Plain
  <2>7. Nil(op', {"next", "query"}) /\ Only(op', {"query", "next"}) /\ CallsGood(op')
    BY <2>3, <2>6, NobodyCalls DEF RequestsGood, Turn, One, Nil, AtMost, Only, Own, Plain
  <2> QED
    BY <2>2, <2>4, <2>5, <2>7 DEF RequestsGood, Nil, AtMost
<1> QED
  BY <1>1, <1>5, <1>6

\* The dashboard and the accounts.
LEMMA ReadsAnswer ==
  ASSUME NoneIsNull, CallsGood(op), ReadsGood(page, op), view \in {"dashboard", "accounts"},
         NEW c \in Call,
         NEW o, AnswerTo(c, o), Own(op[c]), Role(op[c]) = op[c].by
  PROVE  CallsGood(op') /\ ReadsGood(page', op')
<1>1. o.by = "read" /\ Role(op[c]) = "read" /\ IsPage(ReadsFields, page)
  BY DEF AnswerTo, ReadsGood, Only
<1> DEFINE phase == IF o.out.ok THEN "ready" ELSE "offline"
           poll == IF view = "dashboard" THEN "armed" ELSE "off"
<1>2. page' = [page EXCEPT !.phase = phase, !.poll = poll]
  BY DEF AnswerTo, react
<1> HIDE DEF phase, poll
<1>3. IsPage(ReadsFields, page')
  BY <1>1, <1>2 DEF IsPage, ReadsFields
<1>4. Turn(op, op', c, {}, Nobody, "none", None)
  BY <1>1, FollowTurn DEF conflicted
<1>5. Nil(op', {"read"}) /\ Only(op', {"read"}) /\ CallsGood(op')
  BY <1>1, <1>4, NobodyCalls DEF ReadsGood, Turn, Nil, AtMost, Only, Own
<1> QED
  BY <1>3, <1>5 DEF ReadsGood, Nil, AtMost

\* The turn of an answer keeps the page good, whichever it is.
LEMMA AnswerHolds ==
  ASSUME NoneIsNull, CallsGood(op), PageGood(page, op), NEW c \in Call, Answer(c)
  PROVE  CallsGood(op') /\ PageGood(page', op')
<1>1. view' = view
  BY DEF Answer
<1>2. CASE page' = page /\ Unseen(op, op')
  BY <1>2, UnseenGood, <1>1 DEF Unseen, PageGood
<1>3. ASSUME NEW o, AnswerTo(c, o), Own(op[c]), Role(op[c]) = op[c].by, Calls(op[c].by, op[c].kind)
      PROVE  CallsGood(op') /\ PageGood(page', op')
  BY <1>1, <1>3, SetupAnswer, ManageAnswer, ModelsAnswer, PlaygroundAnswer, RequestsAnswer,
     ReadsAnswer
     DEF PageGood
<1> QED
  BY <1>2, <1>3, AnswerIs

-----------------------------------------------------------------------------
(* The steps of the host and of other callers change nothing that a page     *)
(* waits for.                                                                *)
LEMMA ChangeUnseen ==
  ASSUME CallsGood(op), NEW c \in Call, NEW r, op' = [op EXCEPT ![c] = r], IsCall(r), CallGood(r),
         Own(r) <=> Own(op[c]), Own(r) => Role(r) = Role(op[c]) /\ r.arg = op[c].arg
  PROVE  Unseen(op, op')
<1>1. op' = [d \in Call |-> op'[d]] /\ \A d \in Call : op'[d] = IF d = c THEN r ELSE op[d]
  BY DEF CallsGood, IsOps
<1>2. CallsGood(op')
  BY <1>1 DEF CallsGood, IsOps
<1> QED
  BY <1>1, <1>2 DEF Unseen

LEMMA SameUnseen ==
  ASSUME CallsGood(op), op' = op
  PROVE  Unseen(op, op')
BY DEF Unseen

\* The steps of a handler are such: on to its next await,
LEMMA GoUnseen ==
  ASSUME CallsGood(op), NEW c \in Call, NEW pc, pc # "done",
         pc \in {"start", "stop"} => op[c].kind \in RuntimeOps,
         NEW loc, go(c, pc, loc)
  PROVE  Unseen(op, op')
<1> DEFINE r == [op[c] EXCEPT !.pc = pc, !.loc = loc]
<1>1. IsCall(op[c]) /\ CallGood(op[c])
  BY DEF CallsGood, IsOps
<1>2. /\ IsCall(r) /\ r.pc = pc /\ r.kind = op[c].kind /\ r.by = op[c].by
      /\ r.cur = op[c].cur /\ r.arg = op[c].arg
  BY <1>1 DEF IsCall, CallFields
<1>3. op' = [op EXCEPT ![c] = r]
  BY DEF go
<1> HIDE DEF r
<1>4. CallGood(r) /\ Role(r) = Role(op[c])
  BY <1>1, <1>2 DEF CallGood, Role, Own, Honest
<1> QED
  BY <1>2, <1>3, <1>4, ChangeUnseen DEF Own

\* to an answer about what was asked,
LEMMA FinishUnseen ==
  ASSUME CallsGood(op), NEW c \in Call, NEW out, out.ok => OfArg(op[c].kind, op[c].arg, out.val),
         finish(c, out)
  PROVE  Unseen(op, op')
<1> DEFINE kept == IF op[c].cur THEN out ELSE None
           r == [op[c] EXCEPT !.pc = "done", !.loc = None, !.out = kept]
<1>1. IsCall(op[c]) /\ CallGood(op[c])
  BY DEF CallsGood, IsOps
<1>2. /\ IsCall(r) /\ r.pc = "done" /\ r.kind = op[c].kind /\ r.by = op[c].by /\ r.cur = op[c].cur
      /\ r.arg = op[c].arg /\ r.out = kept
  BY <1>1 DEF IsCall, CallFields
<1>3. op' = [op EXCEPT ![c] = r]
  BY DEF finish
<1>4. op[c].cur => kept = out
  OBVIOUS
<1> HIDE DEF r, kept
<1>5. Own(r) => Honest(r)
  BY <1>2, <1>4 DEF Role, Own, Honest
<1>6. CallGood(r) /\ Role(r) = Role(op[c])
  BY <1>1, <1>2, <1>5 DEF CallGood, Role, Own
<1> QED
  BY <1>2, <1>3, <1>6, ChangeUnseen DEF Own

\* or to a failure.
LEMMA FailUnseen ==
  ASSUME CallsGood(op), NEW c \in Call, NEW code, finish(c, failed(code))
  PROVE  Unseen(op, op')
<1>1. failed(code).ok = FALSE
  BY DEF failed
<1> QED
  BY <1>1, FinishUnseen

\* Of most answers nothing but the kind matters.
LEMMA PlainUnseen ==
  ASSUME CallsGood(op), NEW c \in Call, op[c].kind \notin {"requests", "probe", "upload"},
         NEW out, finish(c, out)
  PROVE  Unseen(op, op')
<1>1. OfArg(op[c].kind, op[c].arg, out.val)
  BY DEF OfArg
<1> QED
  BY <1>1, FinishUnseen

\* The handlers of the runtime, the login, the models and the rest.
LEMMA RuntimeUnseen ==
  ASSUME CallsGood(op), NEW c \in Call, RuntimeCall(c)
  PROVE  Unseen(op, op')
<1>1. op[c].kind \in RuntimeOps
  BY DEF RuntimeCall, Operate, Describe, SetCredential, RunRuntime, RuntimeStarts, RuntimeStops,
         RuntimeInstalls, At, RuntimeOps, CallsGood, CallGood
<1>2. op[c].kind \notin {"requests", "probe", "upload"}
  BY <1>1 DEF RuntimeOps, Starts
<1>3. \A pc, loc : pc # "done" /\ go(c, pc, loc) => Unseen(op, op')
  BY <1>1, GoUnseen
<1>4. \A out : finish(c, out) => Unseen(op, op')
  BY <1>2, PlainUnseen
<1>5. nextRef(c) => Unseen(op, op')
  BY <1>3 DEF nextRef
<1>6. CASE Operate(c) \/ Describe(c) \/ SetCredential(c)
  BY <1>3, <1>4, <1>5, <1>6 DEF Operate, Describe, SetCredential
<1>7. CASE RunRuntime(c)
  <2>1. \A code : Refuse(c, code) => Unseen(op, op')
    BY <1>4 DEF Refuse
  <2>2. \A state, pc : pc # "done" /\ Begin(c, state, pc) => Unseen(op, op')
    BY <1>3 DEF Begin
  <2>3. StartRuntime(c) => Unseen(op, op')
    BY <2>1, <2>2 DEF StartRuntime
  <2> QED
    BY <1>3, <1>4, <1>7, <2>1, <2>2, <2>3 DEF RunRuntime, RuntimeOps, Starts
<1>8. CASE RuntimeStarts(c)
  BY <1>4, <1>8, SameUnseen DEF RuntimeStarts
<1>9. CASE RuntimeStops(c) \/ RuntimeInstalls(c)
  BY <1>3, <1>4, <1>9 DEF RuntimeStops, RuntimeInstalls
<1> QED
  BY <1>6, <1>7, <1>8, <1>9 DEF RuntimeCall

LEMMA LoginUnseen ==
  ASSUME CallsGood(op), NEW c \in Call, LoginCall(c)
  PROVE  Unseen(op, op')
<1>1. op[c].kind \notin {"requests", "probe", "upload"} /\ \E out : finish(c, out)
  BY DEF LoginCall, LoginStart, LoginStatus, LoginCancel, At
<1> QED
  BY <1>1, PlainUnseen

LEMMA ModelsUnseen ==
  ASSUME CallsGood(op), NEW c \in Call, ModelsStep(c)
  PROVE  Unseen(op, op')
<1>1. op[c].kind \in {"models", "apply"}
  BY DEF ModelsStep, ModelsCall, ModelsDone, Apply, Mutate, Reread, At
<1>2. (\E out : finish(c, out)) \/ \E pc \in {"client", "mutate", "reread"} : \E loc : go(c, pc, loc)
  BY DEF ModelsStep, ModelsCall, ModelsDone, Apply, Mutate, Reread
<1> QED
  BY <1>1, <1>2, PlainUnseen, GoUnseen

LEMMA StatusUnseen ==
  ASSUME CallsGood(op), NEW c \in Call, StatusStep(c)
  PROVE  Unseen(op, op')
<1>1. op[c].kind = "status"
  BY DEF StatusStep, Status, StatusViews, StatusDone, At
<1>2. (\E out : finish(c, out)) \/ \E pc \in {"views", "client"} : \E loc : go(c, pc, loc)
  BY DEF StatusStep, Status, StatusViews, StatusDone
<1> QED
  BY <1>1, <1>2, PlainUnseen, GoUnseen

LEMMA OtherUnseen ==
  ASSUME CallsGood(op), NEW c \in Call, OtherStep(c)
  PROVE  Unseen(op, op')
<1> DEFINE arg == op[c].arg
<1>1. CASE Probe(c)
  <2>1. \A kind : value(probeResult(kind, arg)).val.ok => value(probeResult(kind, arg)).val.of = arg
    BY DEF value, probeResult
  <2>2. op[c].kind = "probe"
    BY <1>1 DEF Probe, At
  <2>3. \A kind : OfArg(op[c].kind, arg, value(probeResult(kind, arg)).val)
    BY <2>1, <2>2 DEF OfArg
  <2>4. finish(c, failed("invalid_probe_request")) \/ \E kind : finish(c, value(probeResult(kind, arg)))
    BY <1>1 DEF Probe
  <2> HIDE DEF arg
  <2> QED
    BY <2>3, <2>4, FailUnseen, FinishUnseen DEF arg
<1>2. CASE Upload(c)
  <2>1. op[c].kind = "upload"
    BY <1>2 DEF Upload, At
  <2>2. OfArg(op[c].kind, arg, value(arg).val)
    BY <2>1 DEF OfArg, value
  <2>3. finish(c, failed("invalid_image_upload")) \/ finish(c, value(arg))
    BY <1>2 DEF Upload
  <2> QED
    BY <2>2, <2>3, FailUnseen, FinishUnseen
<1>3. CASE Requests(c)
  <2> DEFINE next == IF arg.page < Pages THEN arg.page + 1 ELSE None
             empty == [rows |-> <<>>, next |-> None]
             page1 == [rows |-> <<arg>>, next |-> next]
  <2>1. op[c].kind = "requests" /\ (finish(c, value(empty)) \/ finish(c, value(page1)))
    BY <1>3 DEF Requests, At
  <2>2. OfArg("requests", arg, empty) /\ OfArg("requests", arg, page1)
    BY DEF OfArg
  <2>3. value(empty).val = empty /\ value(page1).val = page1
    BY DEF value
  <2> HIDE DEF empty, page1
  <2> QED
    BY <2>1, <2>2, <2>3, FinishUnseen
<1>4. CASE Read(c) \/ Source(c) \/ SourceDone(c)
  <2>1. op[c].kind \notin {"requests", "probe", "upload"}
    BY <1>4 DEF Read, Source, SourceDone, At
  <2>2. op' = op \/ (\E out : finish(c, out)) \/ \E loc : go(c, "client", loc)
    BY <1>4 DEF Read, Source, SourceDone
  <2> QED
    BY <2>1, <2>2, SameUnseen, PlainUnseen, GoUnseen
<1> QED
  BY <1>1, <1>2, <1>3, <1>4 DEF OtherStep

\* The whole host, and the other callers.
LEMMA HostUnseen ==
  ASSUME CallsGood(op), HostNext(view \in Detailed)
  PROVE  Unseen(op, op')
<1>1. ASSUME NEW c \in Call, Handler(c)
      PROVE  Unseen(op, op')
  BY <1>1, RuntimeUnseen, LoginUnseen, ModelsUnseen, StatusUnseen, OtherUnseen DEF Handler
<1>2. ASSUME NEW c \in Call, ClientStep(c) \/ CoarseStep(c)
      PROVE  Unseen(op, op')
  BY <1>2, SameUnseen DEF ClientStep, CoarseStep
<1>3. CASE LoginEnds
  BY <1>3, SameUnseen DEF LoginEnds
<1> QED
  BY <1>1, <1>2, <1>3 DEF HostNext

LEMMA OthersUnseen ==
  ASSUME CallsGood(op), OthersStep
  PROVE  Unseen(op, op')
<1>1. ASSUME NEW kind, NEW arg, Send(kind, arg)
      PROVE  Unseen(op, op')
  <2> DEFINE n == NextCall(op)
             r == request(kind, arg, "other")
  <2>1. n \in Call /\ op[n].kind = "none"
    BY <1>1, NextIsFree DEF Send, MayBegin
  <2>2. IsCall(r) /\ r.by = "other" /\ r.pc = "sent" /\ r.cur = TRUE
    BY DEF IsCall, CallFields, request, Free
  <2>3. op' = [op EXCEPT ![n] = r]
    BY <1>1 DEF Send
  <2> HIDE DEF n, r
  <2>4. ~Own(op[n]) /\ ~Own(r)
    BY <2>1, <2>2 DEF CallsGood, CallGood, Own, Role
  <2> QED
    BY <2>1, <2>2, <2>3, <2>4, ChangeUnseen DEF CallGood
<1>2. ASSUME NEW c \in Call, Forget(c)
      PROVE  Unseen(op, op')
  <2>1. Turn(op, op', c, {}, Nobody, "none", None)
    BY <1>2, FreeTurn DEF Forget
  <2>2. ~Own(op[c])
    BY <1>2 DEF Forget, Own, Role
  <2> QED
    BY <2>1, <2>2, NobodyCalls DEF Turn, Unseen, Own
<1>3. ASSUME NEW c \in Call, Abort(c)
      PROVE  Unseen(op, op')
  <2> DEFINE r == [op[c] EXCEPT !.abort = TRUE]
  <2>1. IsCall(op[c]) /\ CallGood(op[c]) /\ op[c].by = "other"
    BY <1>3 DEF CallsGood, IsOps, Abort
  <2>2. op' = [op EXCEPT ![c] = r]
    BY <1>3 DEF Abort
  <2>3. IsCall(r) /\ r.kind = op[c].kind /\ r.pc = op[c].pc /\ r.by = "other" /\ r.cur = op[c].cur
    BY <2>1 DEF IsCall, CallFields
  <2> HIDE DEF r
  <2>4. ~Own(r) /\ ~Own(op[c])
    BY <2>1, <2>3 DEF Own, Role
  <2> QED
    BY <2>1, <2>2, <2>3, <2>4, ChangeUnseen DEF CallGood
<1>4. CASE op' = op
  BY <1>4, SameUnseen
<1> QED
  BY <1>1, <1>2, <1>3, <1>4 DEF OthersStep, OtherWrites, RuntimeExits

-----------------------------------------------------------------------------
(* Every step keeps the pages good.                                          *)
LEMMA ViewStays ==
  ASSUME [Next]_vars
  PROVE  view' = view
<1>1. \A p, o : Event(p, o) => view' = view
  BY DEF Event
<1>2. \A kind, arg, by, p : Ask(kind, arg, by, p) \/ AskAgain(kind, arg, by, p) => view' = view
  BY <1>1 DEF Ask, AskAgain
<1>3. SetupNext \/ SettingsNext => view' = view
  BY <1>1, <1>2
     DEF SetupNext, SetupRuntime, SetupRefresh, SetupLogin, SetupCancelLogin, SetupDiscover,
         SetupApply, SetupProbe, SetupCancelProbe, SettingsNext, SettingsRuntime,
         SettingsRefresh, SettingsLogin, SettingsCancelLogin
<1>4. ModelsNext \/ PlaygroundNext \/ RequestsNext => view' = view
  BY <1>1, <1>2
     DEF ModelsNext, ModelsRefresh, ModelsToggle, ModelsApply, PlaygroundNext, PlaygroundSelect,
         PlaygroundChoose, PlaygroundRead, PlaygroundRemove, PlaygroundRun, PlaygroundCancel,
         RequestsNext, RequestsMore, RequestsQuery
<1>5. ReadsRefresh \/ PollFires \/ DashboardPoll \/ Mount \/ Leave => view' = view
  BY <1>1, <1>2 DEF ReadsRefresh, PollFires, DashboardPoll, Mount, Leave
<1>6. \A c \in Call : Answer(c) => view' = view
  BY DEF Answer
<1> QED
  BY <1>3, <1>4, <1>5, <1>6 DEF Next, PageNext, OthersStep, pageVars, vars

\* With no page on the screen,
LEMMA GonePageHolds ==
  ASSUME NoneIsNull, CallsGood(op), page = None, Only(op, {}), PageNext
  PROVE  PagesInv'
<1>1. CASE Mount
  <2>1. CallsGood(op') /\ PageGood(page', op')
    BY <1>1, MountHolds
  <2>2. view' = view
    BY ViewStays DEF Next
  <2> QED
    BY <2>1, <2>2 DEF PagesInv, PageGood
<1>2. CASE \E c \in Call : Answer(c)
  <2>1. PICK c \in Call : Answer(c)
    BY <1>2
  <2>2. page' = page /\ Unseen(op, op')
    BY <2>1, AnswerIs DEF Only
  <2> QED
    BY <2>2 DEF Unseen, PagesInv, Only
<1> QED
  BY <1>1, <1>2
     DEF PageNext, SetupNext, SetupRuntime, SetupRefresh, SetupLogin, SetupCancelLogin,
         SetupDiscover, SetupApply, SetupProbe, SetupCancelProbe, SetupAt, SettingsNext,
         SettingsRuntime, SettingsRefresh, SettingsLogin, SettingsCancelLogin, ModelsNext,
         ModelsRefresh, ModelsToggle, ModelsApply, PlaygroundNext, PlaygroundSelect,
         PlaygroundChoose, PlaygroundRead, PlaygroundRemove, PlaygroundRun, PlaygroundCancel,
         RequestsNext, RequestsMore, RequestsQuery, ReadsRefresh, PollFires, PollArmed,
         DashboardPoll, Leave, Shows

\* with one,
LEMMA ShownPageHolds ==
  ASSUME NoneIsNull, CallsGood(op), PageGood(page, op), PageNext
  PROVE  PagesInv'
<1>1. view' = view
  BY ViewStays DEF Next
<1>2. page # None
  BY PageIsSomething
<1>3. CASE SetupNext
  <2>1. view = "setup" /\ SetupGood(page, op)
    BY <1>3 DEF SetupNext, SetupRuntime, SetupRefresh, SetupLogin, SetupCancelLogin,
                SetupDiscover, SetupApply, SetupProbe, SetupCancelProbe, SetupAt, Shows, PageGood
  <2> QED
    BY <1>1, <1>3, <2>1, SetupHolds DEF PagesInv, PageGood
<1>4. CASE SettingsNext
  <2>1. view = "settings" /\ ManageGood(page, op)
    BY <1>4 DEF SettingsNext, SettingsRuntime, SettingsRefresh, SettingsLogin,
                SettingsCancelLogin, Shows, PageGood
  <2> QED
    BY <1>1, <1>4, <2>1, ManageHolds DEF PagesInv, PageGood
<1>5. CASE ModelsNext
  <2>1. view = "models" /\ ModelsGood(page, op)
    BY <1>5 DEF ModelsNext, ModelsRefresh, ModelsToggle, ModelsApply, Shows, PageGood
  <2> QED
    BY <1>1, <1>5, <2>1, ModelsHolds DEF PagesInv, PageGood
<1>6. CASE PlaygroundNext
  <2>1. view = "playground" /\ PlaygroundGood(page, op)
    BY <1>6 DEF PlaygroundNext, PlaygroundSelect, PlaygroundChoose, PlaygroundRead,
                PlaygroundRemove, PlaygroundRun, PlaygroundCancel, imageAllowed, Shows, PageGood
  <2> QED
    BY <1>1, <1>6, <2>1, PlaygroundHolds DEF PagesInv, PageGood
<1>7. CASE RequestsNext
  <2>1. view = "requests" /\ RequestsGood(page, op)
    BY <1>7 DEF RequestsNext, RequestsMore, RequestsQuery, Shows, PageGood
  <2> QED
    BY <1>1, <1>7, <2>1, RequestsHolds DEF PagesInv, PageGood
<1>8. CASE ReadsRefresh \/ DashboardPoll
  <2>1. view \in {"dashboard", "accounts"} /\ ReadsGood(page, op)
    BY <1>8 DEF ReadsRefresh, DashboardPoll, Shows, PageGood
  <2> QED
    BY <1>1, <1>8, <2>1, ReadsHolds DEF PagesInv, PageGood
<1>9. CASE PollFires
  <2>1. \/ view = "setup" /\ SetupGood(page, op)
        \/ view = "settings" /\ ManageGood(page, op)
    BY <1>9 DEF PollFires, PageGood
  <2> QED
    BY <1>1, <1>9, <2>1, PollHolds DEF PagesInv, PageGood
<1>10. CASE Leave
  BY <1>10, LeaveHolds DEF PagesInv
<1>11. ASSUME NEW c \in Call, Answer(c)
       PROVE  PagesInv'
  BY <1>1, <1>11, AnswerHolds DEF PagesInv, PageGood
<1> QED
  BY <1>2, <1>3, <1>4, <1>5, <1>6, <1>7, <1>8, <1>9, <1>10, <1>11 DEF PageNext, Mount

\* and so in every step.
LEMMA StepPages ==
  ASSUME NoneIsNull, PagesInv, [Next]_vars
  PROVE  PagesInv'
<1>1. view' = view
  BY ViewStays
<1>2. ASSUME page' = page, Unseen(op, op')
      PROVE  PagesInv'
  <2>1. CallsGood(op')
    BY <1>2 DEF Unseen
  <2>2. CASE page = None /\ Only(op, {})
    BY <1>2, <2>1, <2>2 DEF Unseen, PagesInv, Only
  <2>3. CASE PageGood(page, op)
    <3>1. PageGood(page, op')
      BY <1>2, <2>3, UnseenGood
    <3> QED
      BY <1>1, <1>2, <2>1, <3>1 DEF PagesInv, PageGood
  <2> QED
    BY <2>2, <2>3 DEF PagesInv
<1>3. CASE PageNext
  BY <1>3, GonePageHolds, ShownPageHolds DEF PagesInv
<1>4. CASE OthersStep
  BY <1>2, <1>4, OthersUnseen DEF OthersStep, pageVars, PagesInv
<1>5. CASE HostNext(view \in Detailed) /\ UNCHANGED pageVars
  BY <1>2, <1>5, HostUnseen DEF pageVars, PagesInv
<1>6. CASE UNCHANGED vars
  BY <1>2, <1>6, SameUnseen DEF vars, hostVars, pageVars, PagesInv
<1> QED
  BY <1>3, <1>4, <1>5, <1>6 DEF Next

\* Before the first call nothing waits.
LEMMA InitPages ==
  ASSUME NEW desc, NEW keys, NEW mode, NEW state, NEW connected,
         HostInit(desc, keys, mode, state, connected), page = None
  PROVE  PagesInv
<1>1. IsCall(Free) /\ Free.cur = FALSE /\ Free.pc = "idle"
  BY DEF IsCall, CallFields, Free
<1>2. op = [c \in Call |-> op[c]] /\ \A c \in Call : op[c] = Free
  BY DEF HostInit
<1>3. CallGood(Free) /\ ~Own(Free)
  BY <1>1 DEF CallGood, Own, Role
<1> QED
  BY <1>1, <1>2, <1>3 DEF PagesInv, CallsGood, IsOps, Only

-----------------------------------------------------------------------------
(* What the invariant says of the properties.                                *)
LEMMA AwaitedIs ==
  ASSUME NEW bys, "none" \notin bys, "other" \notin bys
  PROVE  /\ Nil(op, bys) => Awaited(bys) = 0
         /\ One(op, bys) => Awaited(bys) = 1
         /\ AtMost(op, bys) => Awaited(bys) \in {0, 1}
<1> DEFINE waiting == {c \in Call : op[c].by \in bys /\ op[c].cur}
<1>1. Awaited(bys) = Cardinality(waiting)
  BY DEF Awaited
<1>2. waiting = {c \in Call : Role(op[c]) \in bys}
  BY DEF Role
<1> HIDE DEF waiting
<1>3. Nil(op, bys) => waiting = {}
  BY <1>2 DEF Nil
<1>4. One(op, bys) => \E c : waiting = {c}
  BY <1>2 DEF One
<1>5. AtMost(op, bys) => waiting = {} \/ \E c : waiting = {c}
  BY <1>2 DEF AtMost
<1>6. Cardinality({}) = 0 /\ \A c : Cardinality({c}) = 1
  BY FS_EmptySet, FS_Singleton
<1> QED
  BY <1>1, <1>3, <1>4, <1>5, <1>6

\* A page that is good is busy exactly while it waits,
LEMMA PagesAreBusy ==
  ASSUME NoneIsNull, PagesInv
  PROVE  BusyIsExact
<1> DEFINE Manage == /\ Exact(page.busy # None, RuntimeOps \cup {"login", "cancel", "discover", "apply", "probe"})
                     /\ page.status = "loading" => Awaited({"status"}) = 1
                     /\ view = "setup" =>
                          Exact(page.probe = "running", {"probe"}) /\ Exact(page.phase = "loading", {"discover"})
           Models == Exact(page.busy # None, {"apply"}) /\ Exact(page.phase = "loading", {"discover"})
           Playground == /\ Exact(page.probe = "running", {"probe"})
                         /\ Exact(page.upload = "uploading", {"upload"})
                         /\ Exact(page.phase = "loading", {"discover"})
           Rows == Exact(page.phase = "loading", {"query"})
           Reads == Awaited({"read"}) + (IF page.poll = "armed" THEN 1 ELSE 0) <= 1
<1> SUFFICES ASSUME page # None
             PROVE  CASE view \in {"setup", "settings"} -> Manage
                      [] view = "models" -> Models
                      [] view = "playground" -> Playground
                      [] view = "requests" -> Rows
                      [] OTHER -> Reads
  BY DEF BusyIsExact
<1>1. PageGood(page, op)
  BY DEF PagesInv
<1>2. \A bys, shown : /\ "none" \notin bys /\ "other" \notin bys
                      /\ IF shown THEN One(op, bys) ELSE Nil(op, bys)
                      => Exact(shown, bys)
  BY AwaitedIs DEF Exact
<1>3. "none" \notin BusyBys /\ "other" \notin BusyBys
  BY DEF BusyBys, RuntimeOps, Starts
<1>4. ASSUME view \in {"setup", "settings"} PROVE Manage
  <2>1. \/ view = "setup" /\ SetupGood(page, op)
        \/ view = "settings" /\ ManageGood(page, op)
    BY <1>1, <1>4 DEF PageGood
  <2>2. Exact(page.busy # None, BusyBys) /\ (page.status = "loading" => One(op, {"status"}))
    BY <1>2, <1>3, <2>1 DEF SetupGood, ManageGood
  <2>3. page.status = "loading" => Awaited({"status"}) = 1
    BY <2>2, AwaitedIs
  <2>4. view = "setup" => Exact(page.probe = "running", {"probe"}) /\ Exact(page.phase = "loading", {"discover"})
    BY <1>2, <2>1 DEF SetupGood
  <2>5. Exact(page.busy # None, RuntimeOps \cup {"login", "cancel", "discover", "apply", "probe"})
    BY <2>2 DEF BusyBys
  <2> QED
    BY <2>3, <2>4, <2>5
<1>5. ASSUME view = "models" PROVE Models
  BY <1>1, <1>2, <1>5 DEF PageGood, ModelsGood
<1>6. ASSUME view = "playground" PROVE Playground
  BY <1>1, <1>2, <1>6 DEF PageGood, PlaygroundGood
<1>7. ASSUME view = "requests" PROVE Rows
  BY <1>1, <1>2, <1>7 DEF PageGood, RequestsGood
<1>8. ASSUME view \in {"dashboard", "accounts"} PROVE Reads
  <2>1. ReadsGood(page, op)
    BY <1>1, <1>8 DEF PageGood
  <2>2. Awaited({"read"}) \in {0, 1} /\ (page.poll = "armed" => Awaited({"read"}) = 0)
    BY <2>1, AwaitedIs DEF ReadsGood
  <2> QED
    BY <2>2
<1>9. view \in {"setup", "settings", "models", "playground", "requests", "dashboard", "accounts"}
  BY <1>1 DEF PageGood
<1> HIDE DEF Manage, Models, Playground, Rows, Reads
<1> QED
  BY <1>4, <1>5, <1>6, <1>7, <1>8, <1>9

\* and shows what its own last question was answered.
LEMMA PagesAreOwn ==
  ASSUME NoneIsNull, PagesInv
  PROVE  AnswersAreOwn
<1> SUFFICES ASSUME page # None
             PROVE  /\ view = "requests" /\ page.phase = "ready" =>
                         /\ \A i \in DOMAIN page.items : page.items[i] = [query |-> page.query, page |-> i]
                         /\ page.cursor \in {None, Len(page.items) + 1}
                    /\ view \in {"setup", "playground"} =>
                         /\ (page.probe = "success") = (page.result # None)
                         /\ page.result \in {None, page.ran}
                    /\ view = "playground" =>
                         page.image = None \/ (page.image = page.file /\ imageAllowed(page))
  BY DEF AnswersAreOwn
<1>1. PageGood(page, op)
  BY DEF PagesInv
<1>2. ASSUME view = "requests", page.phase = "ready"
      PROVE  /\ \A i \in DOMAIN page.items : page.items[i] = [query |-> page.query, page |-> i]
             /\ page.cursor \in {None, Len(page.items) + 1}
  <2>1. PICK n \in Nat : page.items = FirstPages(page.query, n) /\ page.cursor \in {None, n + 1}
    BY <1>1, <1>2 DEF PageGood, RequestsGood, RowsOwn
  <2>2. DOMAIN page.items = 1..n /\ Len(page.items) = n
        /\ \A i \in 1..n : page.items[i] = [query |-> page.query, page |-> i]
    BY <2>1 DEF FirstPages
  <2> QED
    BY <2>1, <2>2
<1>3. ASSUME view \in {"setup", "playground"}
      PROVE  (page.probe = "success") = (page.result # None) /\ page.result \in {None, page.ran}
  <2>1. ProbeOwn(page, op)
    BY <1>1, <1>3 DEF PageGood, SetupGood, PlaygroundGood
  <2> QED
    BY <2>1 DEF ProbeOwn
<1>4. ASSUME view = "playground"
      PROVE  page.image = None \/ (page.image = page.file /\ imageAllowed(page))
  BY <1>1, <1>4 DEF PageGood, PlaygroundGood, ImageOwn
<1> QED
  BY <1>2, <1>3, <1>4

(* BusyIsExact, for any settings, credentials, catalogs, other writers and    *)
(* number of calls: a page is busy, loading, running or uploading exactly     *)
(* while the one call that its function waits for is underway, never after    *)
(* that call has ended, nor for another's.  The dashboard and the accounts    *)
(* have one read or one timer (the finally blocks of client/*.tsx).           *)
THEOREM BusyIsRight ==
  ASSUME NoneIsNull, NEW desc, NEW keys, NEW mode, NEW state, NEW connected
  PROVE  HostInit(desc, keys, mode, state, connected) /\ page = None /\ [][Next]_vars => []BusyIsExact
<1>1. HostInit(desc, keys, mode, state, connected) /\ page = None => PagesInv
  BY InitPages
<1>2. PagesInv /\ [Next]_vars => PagesInv'
  BY StepPages
<1>3. PagesInv => BusyIsExact
  BY PagesAreBusy
<1> QED
  BY <1>1, <1>2, <1>3, PTL

(* AnswersAreOwn, for the same: the image, the result of a trial and the rows *)
(* on a page are of the file, the request and the query that the page itself  *)
(* last asked for, however late or out of order the answers come, because an  *)
(* answer of a superseded or cancelled call is dropped.                       *)
THEOREM AnswersRight ==
  ASSUME NoneIsNull, NEW desc, NEW keys, NEW mode, NEW state, NEW connected
  PROVE  HostInit(desc, keys, mode, state, connected) /\ page = None /\ [][Next]_vars => []AnswersAreOwn
<1>1. HostInit(desc, keys, mode, state, connected) /\ page = None => PagesInv
  BY InitPages
<1>2. PagesInv /\ [Next]_vars => PagesInv'
  BY StepPages
<1>3. PagesInv => AnswersAreOwn
  BY PagesAreOwn
<1> QED
  BY <1>1, <1>2, <1>3, PTL

-----------------------------------------------------------------------------
(* The login that a page shows.  What it shows, and what the answers to its  *)
(* calls tell it, are views of the login operations; of an operation that    *)
(* has ended there is one view.                                              *)
LoginFields == {"id", "state"}
IsView(v) == v = [f \in LoginFields |-> v[f]] /\ v.id \in Nat
LoginAsks == {"login", "poll", "cancel"}
Asks(o, c) == Role(o[c]) \in LoginAsks
Told(o, c) == Asks(o, c) /\ o[c].pc = "done" /\ o[c].out.ok

Seen(p, o, l) == {l} \cup ({p.oauth} \ {None}) \cup {o[c].out.val : c \in {d \in Call : Told(o, d)}}
SeenGood(views, l) ==
  /\ \A v \in views : /\ IsView(v) /\ v.id <= l.id
                      /\ v.id = l.id /\ v.state # "pending" => v = l
  /\ \A v, w \in views : v.id = w.id /\ v.state # "pending" /\ w.state # "pending" => v = w

\* A login that has ended is not polled, and a poll and a cancel are of the
\* login on the page; a new login is a later one.
PollsGood(p, o) ==
  /\ AtMost(o, {"poll"})
  /\ p.poll = "armed" => Pending(p.oauth) /\ Nil(o, {"poll"})
  /\ \A c \in Call : Role(o[c]) = "poll" => Pending(p.oauth) /\ o[c].arg = p.oauth.id
  /\ \A c \in Call : Role(o[c]) = "cancel" => p.oauth # None /\ o[c].arg = p.oauth.id
  /\ \A c \in Call : Role(o[c]) = "login" => ~Pending(p.oauth)
TellsGood(p, o) ==
  \A c \in Call : Told(o, c) =>
    /\ Role(o[c]) = "poll" => o[c].out.val.id = o[c].arg
    /\ Role(o[c]) = "cancel" => o[c].out.val.id = o[c].arg /\ o[c].out.val.state # "pending"
    /\ Role(o[c]) = "login" => p.oauth = None \/ o[c].out.val.id > p.oauth.id

LoginGood(p, o, l) == SeenGood(Seen(p, o, l), l) /\ PollsGood(p, o) /\ TellsGood(p, o)
LoginView == view \in {"setup", "settings"} /\ page # None
LoginInv == IsView(login) /\ (LoginView => LoginGood(page, op, login))

\* q waits for no more logins, polls and cancels than o, and knows no more.
NoMoreAsks(o, q) ==
  \A c \in Call : Asks(q, c) => /\ Role(q[c]) = Role(o[c]) /\ q[c].arg = o[c].arg
                                /\ Told(q, c) => Told(o, c) /\ q[c].out = o[c].out

\* A page that waits for no more and shows no other login is as good.
LEMMA FewerAsks ==
  ASSUME NEW p, NEW o, NEW l, LoginGood(p, o, l), NEW q, NEW r, NoMoreAsks(o, r),
         q.oauth = p.oauth, q.poll = "armed" => p.poll = "armed"
  PROVE  LoginGood(q, r, l)
<1>1. \A c \in Call : Told(r, c) => Told(o, c) /\ r[c].out.val = o[c].out.val
  BY DEF NoMoreAsks, Told
<1>2. Seen(q, r, l) \subseteq Seen(p, o, l)
  BY <1>1 DEF Seen
<1>3. SeenGood(Seen(q, r, l), l)
  BY <1>2 DEF SeenGood, LoginGood
<1>4. /\ \A c \in Call : \A by \in LoginAsks : Role(r[c]) = by => Role(o[c]) = by /\ r[c].arg = o[c].arg
      /\ \A c \in Call : Told(r, c) => Role(r[c]) = Role(o[c]) /\ r[c].arg = o[c].arg
  BY DEF NoMoreAsks, Asks, Told
<1>5. PollsGood(q, r)
  BY <1>4 DEF PollsGood, LoginGood, AtMost, Nil, LoginAsks
<1>6. TellsGood(q, r)
  BY <1>1, <1>4 DEF TellsGood, LoginGood
<1> QED
  BY <1>3, <1>5, <1>6 DEF LoginGood

\* What a turn makes of the calls about logins.
LEMMA TurnAsks ==
  ASSUME NEW o, NEW q, NEW a, NEW bys, NEW n, NEW by, NEW arg, Turn(o, q, a, bys, n, by, arg)
  PROVE  /\ \A c \in Call : c # n /\ Asks(q, c) =>
              /\ Role(q[c]) = Role(o[c]) /\ q[c].arg = o[c].arg /\ Role(q[c]) \notin bys /\ c # a
              /\ Told(q, c) => Told(o, c) /\ q[c].out = o[c].out
         /\ \A c \in Call : c = n => Role(q[c]) = by /\ q[c].arg = arg /\ ~Told(q, c)
         /\ n \notin Call \/ by \notin LoginAsks => NoMoreAsks(o, q)
<1>1. ASSUME NEW c \in Call, c # n, Asks(q, c)
      PROVE  /\ Role(q[c]) = Role(o[c]) /\ q[c].arg = o[c].arg /\ Role(q[c]) \notin bys /\ c # a
             /\ Told(q, c) => Told(o, c) /\ q[c].out = o[c].out
  <2>1. Own(q[c]) /\ Role(q[c]) # "none"
    BY <1>1 DEF Asks, Own, LoginAsks
  <2>2. q[c] = o[c] /\ c # a /\ Role(o[c]) \notin bys
    BY <1>1, <2>1 DEF Turn
  <2> QED
    BY <2>2 DEF Told, Asks
<1>2. \A c \in Call : c = n => Role(q[c]) = by /\ q[c].arg = arg /\ ~Told(q, c)
  BY DEF Turn, Told
<1>3. n \notin Call \/ by \notin LoginAsks => NoMoreAsks(o, q)
  BY <1>1, <1>2 DEF NoMoreAsks, Asks
<1> QED
  BY <1>1, <1>2, <1>3

\* A page asks for a login, a poll or a cancel.
LEMMA MoreAsks ==
  ASSUME NEW p, NEW o, NEW l, LoginGood(p, o, l), NEW q, NEW r, NEW n \in Call,
         NEW by \in LoginAsks, NEW arg,
         Turn(o, r, Nobody, {}, n, by, arg), q.oauth = p.oauth,
         q.poll = "armed" => p.poll = "armed" /\ by # "poll",
         by = "login" => ~Pending(p.oauth),
         by = "cancel" => Pending(p.oauth) /\ arg = p.oauth.id,
         by = "poll" => p.poll = "armed" /\ arg = p.oauth.id
  PROVE  LoginGood(q, r, l)
<1>1. /\ \A c \in Call : c # n /\ Asks(r, c) =>
           /\ Role(r[c]) = Role(o[c]) /\ r[c].arg = o[c].arg
           /\ Told(r, c) => Told(o, c) /\ r[c].out = o[c].out
      /\ Role(r[n]) = by /\ r[n].arg = arg /\ ~Told(r, n)
  BY TurnAsks
<1>2. \A c \in Call : Told(r, c) => /\ Told(o, c) /\ r[c].out.val = o[c].out.val
                                    /\ Role(r[c]) = Role(o[c]) /\ r[c].arg = o[c].arg
  BY <1>1 DEF Told
<1>3. Seen(q, r, l) \subseteq Seen(p, o, l)
  BY <1>2 DEF Seen
<1>4. SeenGood(Seen(q, r, l), l)
  BY <1>3 DEF SeenGood, LoginGood
<1>5. TellsGood(q, r)
  BY <1>2 DEF TellsGood, LoginGood
<1>6. \A c \in Call : \A b \in LoginAsks : c # n /\ Role(r[c]) = b => Role(o[c]) = b /\ r[c].arg = o[c].arg
  BY <1>1 DEF Asks
<1>7. PollsGood(q, r)
  BY <1>1, <1>6 DEF PollsGood, LoginGood, AtMost, Nil, LoginAsks, Pending
<1> QED
  BY <1>4, <1>5, <1>7 DEF LoginGood

\* A page takes what the answer to its call a tells it.
LEMMA TakeAnswer ==
  ASSUME NoneIsNull, NEW p, NEW o, NEW l, LoginGood(p, o, l), NEW q, NEW r, NEW a \in Call,
         Told(o, a),
         Role(o[a]) # "poll" => One(o, BusyBys), NEW bys, Role(o[a]) # "poll" => "poll" \in bys,
         Turn(o, r, a, bys, Nobody, "none", None),
         q.oauth = o[a].out.val, q.poll = IF Pending(o[a].out.val) THEN "armed" ELSE "off"
  PROVE  LoginGood(q, r, l)
<1> DEFINE val == o[a].out.val
<1>1. \A c \in Call : Asks(r, c) =>
        /\ Role(r[c]) = Role(o[c]) /\ r[c].arg = o[c].arg /\ Role(r[c]) \notin bys /\ c # a
        /\ Told(r, c) => Told(o, c) /\ r[c].out = o[c].out
  BY TurnAsks, NobodyCalls
<1>2. \A c \in Call : Told(r, c) => Told(o, c) /\ r[c].out.val = o[c].out.val /\ Asks(r, c)
  BY <1>1 DEF Told
<1>3. val \in Seen(p, o, l)
  BY DEF Seen
<1>4. Seen(q, r, l) \subseteq Seen(p, o, l)
  BY <1>2, <1>3 DEF Seen
<1>5. SeenGood(Seen(q, r, l), l)
  BY <1>4 DEF SeenGood, LoginGood
<1>6. Role(o[a]) # "poll" => \A c \in Call : ~Asks(r, c)
  BY <1>1 DEF One, BusyBys, Asks, Told, LoginAsks
<1>7. CASE Role(o[a]) # "poll"
  BY <1>2, <1>5, <1>6, <1>7 DEF LoginGood, PollsGood, TellsGood, AtMost, Nil, Asks, LoginAsks,
                                Pending
<1>8. CASE Role(o[a]) = "poll"
  <2>1. Pending(p.oauth) /\ val.id = o[a].arg /\ o[a].arg = p.oauth.id
    BY <1>8 DEF LoginGood, PollsGood, TellsGood
  <2>2. val # None
    BY <1>3 DEF NoneIsNull, SeenGood, LoginGood, IsView
  <2>3. \A c \in Call : Asks(r, c) => Role(r[c]) = "cancel" /\ r[c].arg = val.id
    BY <1>1, <1>8, <2>1 DEF LoginGood, PollsGood, AtMost, Asks, LoginAsks, Pending
  <2>4. PollsGood(q, r)
    BY <2>2, <2>3 DEF PollsGood, AtMost, Nil, Asks, LoginAsks, Pending
  <2>5. TellsGood(q, r)
    BY <1>1, <1>2, <2>3 DEF TellsGood, LoginGood
  <2> QED
    BY <1>5, <2>4, <2>5 DEF LoginGood
<1> QED
  BY <1>7, <1>8

-----------------------------------------------------------------------------
(* The host's and the other callers' steps, as far as they are about logins. *)
LEMMA ReplaceAsks ==
  ASSUME CallsGood(op), NEW c \in Call, NEW r, op' = [op EXCEPT ![c] = r], Role(r) \notin LoginAsks
  PROVE  NoMoreAsks(op, op')
<1>1. op' = [d \in Call |-> op'[d]] /\ \A d \in Call : op'[d] = IF d = c THEN r ELSE op[d]
  BY DEF CallsGood, IsOps
<1> QED
  BY <1>1 DEF NoMoreAsks, Asks, Told

LEMMA SameAsks ==
  ASSUME op' = op
  PROVE  NoMoreAsks(op, op')
BY DEF NoMoreAsks

\* What a step of a handler makes of its own call.
Moves(c) ==
  \/ op' = op
  \/ \E pc, loc : go(c, pc, loc)
  \/ \E out : finish(c, out)

\* Nor does a step of a handler of another call.
LEMMA MoveAsks ==
  ASSUME CallsGood(op), NEW c \in Call, ~Asks(op, c), Moves(c)
  PROVE  NoMoreAsks(op, op')
<1>1. IsCall(op[c])
  BY DEF CallsGood, IsOps
<1>2. ASSUME NEW pc, NEW loc, go(c, pc, loc)
      PROVE  NoMoreAsks(op, op')
  <2> DEFINE r == [op[c] EXCEPT !.pc = pc, !.loc = loc]
  <2>1. r.by = op[c].by /\ r.cur = op[c].cur
    BY <1>1 DEF IsCall, CallFields
  <2>2. op' = [op EXCEPT ![c] = r]
    BY <1>2 DEF go
  <2> HIDE DEF r
  <2> QED
    BY <2>1, <2>2, ReplaceAsks DEF Role, Asks
<1>3. ASSUME NEW out, finish(c, out)
      PROVE  NoMoreAsks(op, op')
  <2> DEFINE kept == IF op[c].cur THEN out ELSE None
             r == [op[c] EXCEPT !.pc = "done", !.loc = None, !.out = kept]
  <2>1. r.by = op[c].by /\ r.cur = op[c].cur
    BY <1>1 DEF IsCall, CallFields
  <2>2. op' = [op EXCEPT ![c] = r]
    BY <1>3 DEF finish
  <2> HIDE DEF r
  <2> QED
    BY <2>1, <2>2, ReplaceAsks DEF Role, Asks
<1> QED
  BY <1>2, <1>3, SameAsks DEF Moves

\* Of the handlers only those of a login have a login's calls.
LEMMA HandlerAsks ==
  ASSUME CallsGood(op), NEW c \in Call, Handler(c), ~LoginCall(c)
  PROVE  NoMoreAsks(op, op') /\ login' = login
<1>1. Moves(c) /\ login' = login
  <2>1. CASE RuntimeCall(c)
    BY <2>1 DEF RuntimeCall, Operate, Describe, SetCredential, nextRef, RunRuntime, Refuse,
                Begin, StartRuntime, RuntimeStarts, RuntimeStops, RuntimeInstalls, Moves, only,
                hostState, RuntimeOps, Starts
  <2>2. CASE ModelsStep(c)
    BY <2>2 DEF ModelsStep, ModelsCall, ModelsDone, Apply, Mutate, Reread, Moves, Open, only,
                hostState
  <2>3. CASE StatusStep(c)
    BY <2>3 DEF StatusStep, Status, StatusViews, StatusDone, Moves, Open, only, hostState
  <2>4. CASE OtherStep(c)
    BY <2>4 DEF OtherStep, Probe, Upload, Requests, Read, Source, SourceDone, Moves, Open, only,
                hostState
  <2> QED
    BY <2>1, <2>2, <2>3, <2>4 DEF Handler
<1>2. op[c].kind \notin {"loginStart", "loginStatus", "loginCancel"}
  <2>1. CASE RuntimeCall(c)
    <3>1. op[c].kind \in RuntimeOps
      BY <2>1 DEF RuntimeCall, Operate, Describe, SetCredential, RunRuntime, RuntimeStarts,
                  RuntimeStops, RuntimeInstalls, At, RuntimeOps, CallsGood, CallGood
    <3> QED
      BY <3>1 DEF RuntimeOps, Starts
  <2>2. CASE ModelsStep(c)
    BY <2>2 DEF ModelsStep, ModelsCall, ModelsDone, Apply, Mutate, Reread, At
  <2>3. CASE StatusStep(c)
    BY <2>3 DEF StatusStep, Status, StatusViews, StatusDone, At
  <2>4. CASE OtherStep(c)
    BY <2>4 DEF OtherStep, Probe, Upload, Requests, Read, Source, SourceDone, At
  <2> QED
    BY <2>1, <2>2, <2>3, <2>4 DEF Handler
<1>3. CallGood(op[c])
  BY DEF CallsGood
<1>4. ~Asks(op, c)
  BY <1>2, <1>3 DEF Asks, LoginAsks, CallGood, Own, Role, Calls
<1> QED
  BY <1>1, <1>4, MoveAsks

\* The other callers ask nothing for a page.
LEMMA OthersAsks ==
  ASSUME CallsGood(op), OthersStep
  PROVE  NoMoreAsks(op, op') /\ login' = login
<1>1. login' = login
  BY DEF OthersStep, Send, Forget, Abort, OtherWrites, RuntimeExits, hostState
<1>2. ASSUME NEW kind, NEW arg, Send(kind, arg)
      PROVE  NoMoreAsks(op, op')
  <2> DEFINE r == request(kind, arg, "other")
             n == NextCall(op)
  <2>1. n \in Call
    BY <1>2, NextIsFree DEF Send, MayBegin
  <2>2. r.by = "other"
    BY DEF request, Free
  <2>3. op' = [op EXCEPT ![n] = r]
    BY <1>2 DEF Send
  <2> HIDE DEF r, n
  <2> QED
    BY <2>1, <2>2, <2>3, ReplaceAsks DEF Role, LoginAsks
<1>3. ASSUME NEW c \in Call, Forget(c)
      PROVE  NoMoreAsks(op, op')
  <2>1. Role(Free) \notin LoginAsks
    BY DEF Role, Free, LoginAsks
  <2> QED
    BY <1>3, <2>1, ReplaceAsks DEF Forget
<1>4. ASSUME NEW c \in Call, Abort(c)
      PROVE  NoMoreAsks(op, op')
  <2> DEFINE r == [op[c] EXCEPT !.abort = TRUE]
  <2>1. IsCall(op[c]) /\ op[c].by = "other"
    BY <1>4 DEF CallsGood, IsOps, Abort
  <2>2. r.by = "other"
    BY <2>1 DEF IsCall, CallFields
  <2>3. op' = [op EXCEPT ![c] = r]
    BY <1>4 DEF Abort
  <2> HIDE DEF r
  <2> QED
    BY <2>2, <2>3, ReplaceAsks DEF Role, LoginAsks
<1> QED
  BY <1>1, <1>2, <1>3, <1>4, SameAsks DEF OthersStep, OtherWrites, RuntimeExits

(* A new login is later than all that was seen, and the end of one is the    *)
(* first that is seen of it.                                                 *)
Later(l, m) ==
  /\ IsView(m)
  /\ \/ m = l
     \/ m.id = l.id + 1
     \/ m.id = l.id /\ l.state = "pending" /\ m.state # "pending"

LEMMA LaterGood ==
  ASSUME NEW l, NEW views, SeenGood(views, l), l \in views, NEW m, Later(l, m)
  PROVE  SeenGood(views \cup {m}, m)
<1>1. IsView(l) /\ l.id \in Nat
  BY DEF SeenGood, IsView
<1>2. CASE m = l
  <2>1. views \cup {m} = views
    BY <1>2
  <2> QED
    BY <1>2, <2>1
<1>3. CASE m.id = l.id + 1
  <2>1. ASSUME NEW v \in views
        PROVE  IsView(v) /\ v.id <= m.id /\ v.id # m.id
    <3>1. IsView(v) /\ v.id <= l.id
      BY DEF SeenGood
    <3>2. v.id \in Nat
      BY <3>1 DEF IsView
    <3> QED
      BY <1>1, <1>3, <3>1, <3>2
  <2>2. IsView(m) /\ m.id <= m.id
    BY <1>1, <1>3 DEF Later
  <2> QED
    BY <2>1, <2>2 DEF SeenGood
<1>4. CASE m.id = l.id /\ l.state = "pending" /\ m.state # "pending"
  <2>1. \A v \in views : IsView(v) /\ v.id <= m.id /\ (v.id = m.id => v.state = "pending")
    BY <1>4 DEF SeenGood
  <2>2. IsView(m) /\ m.id <= m.id
    BY <1>1, <1>4 DEF Later
  <2> QED
    BY <2>1, <2>2 DEF SeenGood
<1> QED
  BY <1>2, <1>3, <1>4 DEF Later

\* The handler of c is about to tell of the login m.
Tells(p, o, c, m) ==
  /\ Role(o[c]) = "poll" => m.id = o[c].arg
  /\ Role(o[c]) = "cancel" => m.id = o[c].arg /\ m.state # "pending"
  /\ Role(o[c]) = "login" => p.oauth = None \/ m.id > p.oauth.id

\* A handler that tells the login as it is tells the page nothing older.
LEMMA TellGood ==
  ASSUME NEW p, NEW l, CallsGood(op), LoginGood(p, op, l), NEW m, Later(l, m), NEW c \in Call,
         NEW out, finish(c, out),
         Asks(op, c) /\ out.ok => out.val = m /\ Tells(p, op, c, m)
  PROVE  LoginGood(p, op', m)
<1> DEFINE kept == IF op[c].cur THEN out ELSE None
           r == [op[c] EXCEPT !.pc = "done", !.loc = None, !.out = kept]
<1>1. IsCall(op[c])
  BY DEF CallsGood, IsOps
<1>2. r.by = op[c].by /\ r.cur = op[c].cur /\ r.arg = op[c].arg /\ r.out = kept
  BY <1>1 DEF IsCall, CallFields
<1>3. op' = [op EXCEPT ![c] = r]
  BY DEF finish
<1> HIDE DEF r
<1>4. op' = [d \in Call |-> op'[d]] /\ \A d \in Call : op'[d] = IF d = c THEN r ELSE op[d]
  BY <1>3 DEF CallsGood, IsOps
<1>5. /\ \A d \in Call : Role(op'[d]) = Role(op[d]) /\ op'[d].arg = op[d].arg
      /\ \A d \in Call : Told(op', d) /\ d # c => Told(op, d) /\ op'[d].out = op[d].out
  BY <1>2, <1>4 DEF Role, Told, Asks
<1>6. Told(op', c) => Asks(op, c) /\ out.ok /\ op'[c].out = out
  BY <1>2, <1>4, <1>5 DEF Told, Asks, Role, LoginAsks
<1>7. Told(op', c) => op'[c].out.val = m /\ Tells(p, op, c, m)
  BY <1>6
<1>8. Seen(p, op', m) \subseteq Seen(p, op, l) \cup {m}
  BY <1>5, <1>7 DEF Seen
<1>9. SeenGood(Seen(p, op, l) \cup {m}, m)
  BY LaterGood DEF LoginGood, Seen
<1>10. SeenGood(Seen(p, op', m), m)
  BY <1>8, <1>9 DEF SeenGood
<1>11. PollsGood(p, op')
  BY <1>5 DEF PollsGood, LoginGood, AtMost, Nil
<1>12. TellsGood(p, op')
  BY <1>5, <1>7 DEF TellsGood, LoginGood, Tells
<1> QED
  BY <1>10, <1>11, <1>12 DEF LoginGood

\* A login that starts or ends while nothing is told leaves the page good.
LEMMA LoginEndsGood ==
  ASSUME NEW p, NEW l, LoginGood(p, op, l), NEW m, Later(l, m)
  PROVE  LoginGood(p, op, m)
<1>1. Seen(p, op, m) \subseteq Seen(p, op, l) \cup {m}
  BY DEF Seen
<1>2. SeenGood(Seen(p, op, l) \cup {m}, m)
  BY LaterGood DEF LoginGood, Seen
<1> QED
  BY <1>1, <1>2 DEF LoginGood, SeenGood

------------------------------------------------------------------------------
(* The handlers of the login calls: they tell the login as it is.             *)
LEMMA LoginCallGood ==
  ASSUME CallsGood(op), IsView(login), NEW c \in Call, LoginCall(c)
  PROVE  Later(login, login') /\ \A p : LoginGood(p, op, login) => LoginGood(p, op', login')
<1> DEFINE Still == \A p : LoginGood(p, op, login) => LoginGood(p, op', login')
<1>1. CallGood(op[c])
  BY DEF CallsGood
<1>2. Later(login, login)
  BY DEF Later
<1>3. \A code : failed(code).ok = FALSE
  BY DEF failed
<1>4. \A v : value(v).ok = TRUE /\ value(v).val = v
  BY DEF value
<1>5. ASSUME NEW code, finish(c, failed(code)), NEW m, Later(login, m)
      PROVE  \A p : LoginGood(p, op, login) => LoginGood(p, op', m)
  BY <1>3, <1>5, TellGood
<1>6. login.id \in Nat
  BY DEF IsView
<1>7. CASE LoginStart(c)
  <2>1. \A b \in {"poll", "cancel"} : Role(op[c]) # b
    BY <1>1, <1>7 DEF LoginStart, At, CallGood, Own, Role, Calls
  <2>2. CASE login' = login /\ \E code : finish(c, failed(code))
    BY <1>2, <1>5, <2>2
  <2>3. ASSUME NEW s \in {"pending", "failed"}, login' = [id |-> login.id + 1, state |-> s],
               finish(c, IF s = "pending" THEN value(login') ELSE failed("login_failed"))
        PROVE  Later(login, login') /\ Still
    <3>1. IsView(login') /\ login'.id = login.id + 1
      BY <1>6, <2>3 DEF IsView, LoginFields
    <3>2. Later(login, login')
      BY <3>1 DEF Later
    <3>3. ASSUME NEW p, LoginGood(p, op, login)
          PROVE  Tells(p, op, c, login')
      <4>1. p.oauth # None => p.oauth.id <= login.id /\ IsView(p.oauth)
        BY <3>3 DEF LoginGood, Seen, SeenGood
      <4>2. p.oauth # None => p.oauth.id \in Nat
        BY <4>1 DEF IsView
      <4>3. p.oauth # None => login'.id > p.oauth.id
        BY <1>6, <3>1, <4>1, <4>2
      <4> QED
        BY <2>1, <4>3 DEF Tells
    <3>4. CASE s = "pending"
      BY <1>4, <2>3, <3>2, <3>3, <3>4, TellGood
    <3>5. CASE s = "failed"
      BY <1>5, <2>3, <3>2, <3>5
    <3> QED
      BY <3>2, <3>4, <3>5
  <2> QED
    BY <1>7, <2>2, <2>3 DEF LoginStart
<1>8. CASE LoginStatus(c)
  <2>1. \A b \in {"login", "cancel"} : Role(op[c]) # b
    BY <1>1, <1>8 DEF LoginStatus, At, CallGood, Own, Role, Calls
  <2>2. login' = login /\ ((op[c].arg = login.id /\ finish(c, value(login))) \/ finish(c, failed("oauth_not_found")))
    BY <1>8 DEF LoginStatus, only, hostState
  <2>3. op[c].arg = login.id => \A p : Tells(p, op, c, login)
    BY <2>1 DEF Tells
  <2>4. CASE op[c].arg = login.id /\ finish(c, value(login))
    BY <1>2, <1>4, <2>2, <2>3, <2>4, TellGood
  <2> QED
    BY <1>2, <1>5, <2>2, <2>4
<1>9. CASE LoginCancel(c)
  <2>1. \A b \in {"login", "poll"} : Role(op[c]) # b
    BY <1>1, <1>9 DEF LoginCancel, At, CallGood, Own, Role, Calls
  <2>2. CASE login' = login /\ finish(c, failed("oauth_not_found"))
    BY <1>2, <1>5, <2>2
  <2>3. CASE /\ op[c].arg = login.id /\ finish(c, value(login'))
             /\ login' = [login EXCEPT !.state = IF @ = "pending" THEN "cancelled" ELSE @]
    <3>1. IsView(login') /\ login'.id = login.id
          /\ login'.state = IF login.state = "pending" THEN "cancelled" ELSE login.state
      BY <2>3 DEF IsView, LoginFields
    <3>2. login.state # "pending" => login' = login
      BY <3>1 DEF IsView, LoginFields
    <3>3. Later(login, login') /\ login'.state # "pending"
      BY <3>1, <3>2 DEF Later
    <3>4. \A p : Tells(p, op, c, login')
      BY <2>1, <2>3, <3>1, <3>3 DEF Tells
    <3> QED
      BY <1>4, <2>3, <3>3, <3>4, TellGood
  <2> QED
    BY <1>9, <2>2, <2>3 DEF LoginCancel
<1> QED
  BY <1>7, <1>8, <1>9 DEF LoginCall

\* Every step of the host is later than or equal to what was seen.
LEMMA HostLogin ==
  ASSUME CallsGood(op), IsView(login), HostNext(view \in Detailed) \/ OthersStep
  PROVE  IsView(login') /\ \A p : LoginGood(p, op, login) => LoginGood(p, op', login')
<1>1. CASE LoginEnds
  <2>1. PICK s \in {"success", "failed"} : login' = [login EXCEPT !.state = s]
    BY <1>1 DEF LoginEnds
  <2>2. IsView(login') /\ login'.id = login.id /\ login'.state = s
    BY <2>1 DEF IsView, LoginFields
  <2>3. Later(login, login') /\ op' = op
    BY <1>1, <2>2 DEF LoginEnds, Later
  <2> QED
    BY <2>2, <2>3, LoginEndsGood
<1>2. ASSUME NoMoreAsks(op, op'), login' = login
      PROVE  IsView(login') /\ \A p : LoginGood(p, op, login) => LoginGood(p, op', login')
  BY <1>2, FewerAsks
<1>3. ASSUME NEW c \in Call, Handler(c)
      PROVE  IsView(login') /\ \A p : LoginGood(p, op, login) => LoginGood(p, op', login')
  BY <1>2, <1>3, HandlerAsks, LoginCallGood DEF Later
<1>4. ASSUME NEW c \in Call, ClientStep(c) \/ CoarseStep(c)
      PROVE  NoMoreAsks(op, op') /\ login' = login
  BY <1>4, SameAsks DEF ClientStep, CoarseStep, hostState
<1> QED
  BY <1>1, <1>2, <1>3, <1>4, OthersAsks DEF HostNext

-----------------------------------------------------------------------------
(* The pages' own steps, as far as they are about logins.                    *)
LEMMA AskUnmoved ==
  ASSUME CallsGood(op), LoginGood(page, op, login), NEW kind, kind # "none", NEW arg,
         NEW by, by \notin LoginAsks \cup {"none", "other"}, Calls(by, kind),
         NEW p, p.oauth = page.oauth, p.poll = page.poll,
         Ask(kind, arg, by, p) \/ AskAgain(kind, arg, by, p)
  PROVE  LoginGood(page', op', login) /\ page'.oauth = page.oauth
<1>1. page' = p /\ \E n \in Call : \E bys : Turn(op, op', Nobody, bys, n, by, arg)
  BY AskedTurn, AskedAgainTurn
<1>2. NoMoreAsks(op, op')
  BY <1>1, TurnAsks
<1> QED
  BY <1>1, <1>2, FewerAsks

\* Nor does an event that makes no call touch the login.
LEMMA EventUnmoved ==
  ASSUME CallsGood(op), LoginGood(page, op, login), NEW p, p.oauth = page.oauth, p.poll = page.poll,
         NEW bys, Event(p, op) \/ Event(p, drop(op, bys))
  PROVE  LoginGood(page', op', login) /\ page'.oauth = page.oauth
<1>1. page' = p /\ \E b : Turn(op, op', Nobody, b, Nobody, "none", None)
  BY EventTurn
<1>2. NoMoreAsks(op, op')
  BY <1>1, TurnAsks, NobodyCalls
<1> QED
  BY <1>1, <1>2, FewerAsks

\* A login is asked for when none is pending, a cancel of the one that is.
LEMMA AskMoved ==
  ASSUME CallsGood(op), LoginGood(page, op, login), NEW kind, kind # "none", NEW arg,
         NEW by \in {"login", "cancel"}, Calls(by, kind),
         NEW p, p.oauth = page.oauth, p.poll = page.poll, Ask(kind, arg, by, p),
         by = "login" => ~Pending(page.oauth),
         by = "cancel" => Pending(page.oauth) /\ arg = page.oauth.id
  PROVE  LoginGood(page', op', login) /\ page'.oauth = page.oauth
<1>1. page' = p /\ \E n \in Call : Turn(op, op', Nobody, {}, n, by, arg)
  BY AskedTurn
<1>2. by \in LoginAsks /\ by # "poll"
  BY DEF LoginAsks
<1> QED
  BY <1>1, <1>2, MoreAsks

\* The setup page, the settings page and the timer of the poll.
LEMMA SetupMoves ==
  ASSUME CallsGood(op), SetupGood(page, op), LoginGood(page, op, login), SetupNext
  PROVE  LoginGood(page', op', login) /\ page'.oauth = page.oauth
<1>1. IsPage(SetupFields, page) /\ {"oauth", "poll"} \subseteq SetupFields
  BY DEF SetupGood, SetupFields
<1>2. \A kind : /\ Busy(kind).oauth = page.oauth /\ Busy(kind).poll = page.poll
  BY <1>1 DEF IsPage, SetupFields, Busy
<1>3. CASE SetupLogin \/ SetupCancelLogin
  BY <1>2, <1>3, AskMoved DEF SetupLogin, SetupCancelLogin, Calls
<1>4. CASE \E kind \in {"install", "start"} : SetupRuntime(kind)
  BY <1>2, <1>4, AskUnmoved DEF SetupRuntime, Calls, LoginAsks
<1>5. CASE SetupRefresh
  <2> DEFINE p == [page EXCEPT !.status = "loading"]
  <2>1. p.oauth = page.oauth /\ p.poll = page.poll
    BY <1>1 DEF IsPage, SetupFields
  <2>2. AskAgain("status", None, "status", p)
    BY <1>5 DEF SetupRefresh
  <2> HIDE DEF p
  <2> QED
    BY <2>1, <2>2, AskUnmoved DEF Calls, LoginAsks
<1>6. CASE SetupDiscover
  <2> DEFINE p == [Busy("discover") EXCEPT !.phase = "loading", !.applied = FALSE]
  <2>1. p.oauth = page.oauth /\ p.poll = page.poll
    BY <1>1 DEF IsPage, SetupFields, Busy
  <2>2. AskAgain("models", None, "discover", p)
    BY <1>6 DEF SetupDiscover
  <2> HIDE DEF p
  <2> QED
    BY <2>1, <2>2, AskUnmoved DEF Calls, LoginAsks
<1>7. CASE SetupApply
  <2> DEFINE arg == [models |-> page.models, rev |-> page.rev, basis |-> page.basis]
  <2>1. Ask("apply", arg, "apply", Busy("apply"))
    BY <1>7 DEF SetupApply
  <2> HIDE DEF arg
  <2> QED
    BY <1>2, <2>1, AskUnmoved DEF Calls, LoginAsks
<1>8. CASE SetupProbe
  <2> DEFINE e == [page EXCEPT !.probe = "error"]
             run(arg) == [Busy("probe") EXCEPT !.probe = "running", !.ran = arg, !.result = None]
  <2>1. /\ e.oauth = page.oauth /\ e.poll = page.poll
        /\ \A arg : run(arg).oauth = page.oauth /\ run(arg).poll = page.poll
    BY <1>1 DEF IsPage, SetupFields, Busy
  <2>2. Event(e, op) \/ \E arg : Ask("probe", arg, "probe", run(arg))
    BY <1>8 DEF SetupProbe
  <2> HIDE DEF e, run
  <2> QED
    BY <2>1, <2>2, AskUnmoved, EventUnmoved DEF Calls, LoginAsks
<1>9. CASE SetupCancelProbe
  <2> DEFINE p == [page EXCEPT !.probe = "cancelled", !.result = None, !.busy = None]
  <2>1. p.oauth = page.oauth /\ p.poll = page.poll
    BY <1>1 DEF IsPage, SetupFields
  <2>2. Event(p, drop(op, {"probe"}))
    BY <1>9 DEF SetupCancelProbe
  <2> HIDE DEF p
  <2> QED
    BY <2>1, <2>2, EventUnmoved
<1> QED
  BY <1>3, <1>4, <1>5, <1>6, <1>7, <1>8, <1>9 DEF SetupNext

LEMMA SettingsMoves ==
  ASSUME CallsGood(op), ManageGood(page, op), LoginGood(page, op, login), SettingsNext
  PROVE  LoginGood(page', op', login) /\ page'.oauth = page.oauth
<1>1. IsPage(ManageFields, page) /\ {"oauth", "poll"} \subseteq ManageFields
  BY DEF ManageGood, ManageFields
<1>2. \A kind : /\ Busy(kind).oauth = page.oauth /\ Busy(kind).poll = page.poll
  BY <1>1 DEF IsPage, ManageFields, Busy
<1>3. CASE SettingsLogin \/ SettingsCancelLogin
  BY <1>2, <1>3, AskMoved DEF SettingsLogin, SettingsCancelLogin, Calls
<1>4. CASE \E kind \in RuntimeOps : SettingsRuntime(kind)
  <2>1. \A kind \in RuntimeOps : kind \notin LoginAsks \cup {"none", "other"} /\ Calls(kind, kind) /\ kind # "none"
    BY DEF Calls, LoginAsks, RuntimeOps, Starts
  <2> QED
    BY <1>2, <1>4, <2>1, AskUnmoved DEF SettingsRuntime
<1>5. CASE SettingsRefresh
  BY <1>5, AskUnmoved DEF SettingsRefresh, Calls, LoginAsks
<1> QED
  BY <1>3, <1>4, <1>5 DEF SettingsNext

LEMMA PollMoves ==
  ASSUME CallsGood(op), NEW fields, {"oauth", "poll"} \subseteq fields, IsPage(fields, page),
         LoginGood(page, op, login), PollFires
  PROVE  LoginGood(page', op', login) /\ page'.oauth = page.oauth
<1> DEFINE arg == page.oauth.id
<1>1. page' = [page EXCEPT !.poll = "off"] /\ page.poll = "armed"
  BY DEF PollFires, Event, PollArmed
<1>2. PICK n \in Call : Turn(op, op', Nobody, {}, n, "poll", arg)
  BY AskTurn DEF PollFires, Event, Calls
<1>3. page'.oauth = page.oauth /\ page'.poll = "off"
  BY <1>1 DEF IsPage
<1>4. "poll" \in LoginAsks
  BY DEF LoginAsks
<1> HIDE DEF arg
<1>5. arg = page.oauth.id
  BY DEF arg
<1> QED
  BY <1>1, <1>2, <1>3, <1>4, <1>5, MoreAsks

\* The verdict on the page is the last word on its login.
Verdict(p, q) ==
  p.oauth # None /\ p.oauth.state \in {"success", "failed", "cancelled"}
    => q.oauth = p.oauth \/ q.oauth.id > p.oauth.id

\* What an answer makes of the login on a page.
LoginTaken(c) ==
  \/ page'.oauth = page.oauth /\ (page'.poll = "armed" => page.poll = "armed") /\ NoMoreAsks(op, op')
  \/ /\ Told(op, c) /\ page'.oauth = op[c].out.val
     /\ page'.poll = IF Pending(op[c].out.val) THEN "armed" ELSE "off"
     /\ \E bys : /\ Role(op[c]) # "poll" => "poll" \in bys
                 /\ Turn(op, op', c, bys, Nobody, "none", None)

\* The page stays good with what it takes, and a verdict on it stays.
LEMMA TakenGood ==
  ASSUME NoneIsNull, NEW c \in Call, LoginGood(page, op, login), LoginTaken(c),
         Role(op[c]) \in {"login", "cancel"} => One(op, BusyBys)
  PROVE  LoginGood(page', op', login) /\ Verdict(page, page')
<1>1. CASE page'.oauth = page.oauth /\ (page'.poll = "armed" => page.poll = "armed") /\ NoMoreAsks(op, op')
  BY <1>1, FewerAsks DEF Verdict
<1>2. ASSUME Told(op, c), page'.oauth = op[c].out.val,
             page'.poll = IF Pending(op[c].out.val) THEN "armed" ELSE "off",
             NEW bys, Role(op[c]) # "poll" => "poll" \in bys,
             Turn(op, op', c, bys, Nobody, "none", None)
      PROVE  LoginGood(page', op', login) /\ Verdict(page, page')
  <2>1. Role(op[c]) # "poll" => One(op, BusyBys)
    BY <1>2 DEF Told, Asks, LoginAsks
  <2>2. LoginGood(page', op', login)
    BY <1>2, <2>1, TakeAnswer
  <2>3. ASSUME page.oauth # None, page.oauth.state \in {"success", "failed", "cancelled"}
        PROVE  page'.oauth = page.oauth \/ page'.oauth.id > page.oauth.id
    <3>1. Role(op[c]) # "poll"
      BY <2>3 DEF LoginGood, PollsGood, Pending
    <3>2. CASE Role(op[c]) = "login"
      BY <1>2, <2>3, <3>2 DEF LoginGood, TellsGood
    <3>3. CASE Role(op[c]) = "cancel"
      <4>1. /\ page'.oauth.id = page.oauth.id /\ page'.oauth.state # "pending" /\ page.oauth.state # "pending"
        BY <1>2, <2>3, <3>3 DEF LoginGood, TellsGood, PollsGood
      <4>2. page'.oauth \in Seen(page, op, login) /\ page.oauth \in Seen(page, op, login)
        BY <1>2, <2>3 DEF Seen
      <4> QED
        BY <4>1, <4>2 DEF LoginGood, SeenGood
    <3> QED
      BY <1>2, <3>1, <3>2, <3>3 DEF Told, Asks, LoginAsks
  <2> QED
    BY <2>2, <2>3 DEF Verdict
<1> QED
  BY <1>1, <1>2 DEF LoginTaken

\* What withLogin and withPolled make of it, on a page of any fields.
LEMMA LoginShows ==
  ASSUME NEW fields, {"oauth", "poll"} \subseteq fields, NEW p, IsPage(fields, p), NEW out
  PROVE  /\ out.ok => /\ withLogin(p, out).oauth = out.val
                      /\ withLogin(p, out).poll = IF Pending(out.val) THEN "armed" ELSE "off"
                      /\ withPolled(p, out) = withLogin(p, out)
         /\ ~out.ok => /\ withLogin(p, out) = p
                       /\ withPolled(p, out).oauth = p.oauth /\ withPolled(p, out).poll = "lost"
BY DEF IsPage, withLogin, withPolled

\* The turn that an answer is, of the functions of a login and of others.
LEMMA AnswerTurns ==
  ASSUME CallsGood(op), NEW c \in Call, NEW o, AnswerTo(c, o), view \in {"setup", "settings"}
  PROVE  /\ o.by \in {"login", "cancel"} /\ o.out.ok => Turn(op, op', c, {"poll"}, Nobody, "none", None)
         /\ o.by = "poll" => Turn(op, op', c, {}, Nobody, "none", None)
         /\ ~(o.by \in LoginAsks /\ o.out.ok) => NoMoreAsks(op, op')
<1>1. /\ o.by \in {"login", "cancel"} /\ o.out.ok => Turn(op, op', c, {"poll"}, Nobody, "none", None)
      /\ view = "setup" /\ o.by = "start" /\ o.out.ok =>
              \E n \in Call : Turn(op, op', c, {"status"}, n, "status", None)
      /\ ~(o.out.ok /\ o.by \in {"login", "cancel", "start"}) => Turn(op, op', c, {}, Nobody, "none", None)
      /\ ~(o.out.ok /\ o.by \in {"login", "cancel"}) /\ view = "settings" => Turn(op, op', c, {}, Nobody, "none", None)
  BY FollowTurn
<1>2. CASE view = "setup" /\ o.by = "start" /\ o.out.ok
  BY <1>1, <1>2, TurnAsks DEF LoginAsks
<1>3. CASE ~(view = "setup" /\ o.by = "start" /\ o.out.ok)
  <2>1. ~(o.by \in LoginAsks /\ o.out.ok) => Turn(op, op', c, {}, Nobody, "none", None)
    BY <1>1, <1>3 DEF LoginAsks
  <2> QED
    BY <1>1, <2>1, TurnAsks, NobodyCalls
<1> QED
  BY <1>1, <1>2, <1>3

\* The functions of the login, on either page.
LEMMA LoginAnswer ==
  ASSUME CallsGood(op), NEW c \in Call, NEW o, AnswerTo(c, o), view \in {"setup", "settings"},
         Role(op[c]) = op[c].by,
         NEW fields, {"oauth", "poll", "busy"} \subseteq fields, IsPage(fields, page),
         \/ o.by \in {"login", "cancel"} /\ page' = idle(withLogin(page, o.out))
         \/ o.by = "poll" /\ page' = withPolled(page, o.out)
  PROVE  LoginTaken(c)
<1> DEFINE p == withLogin(page, o.out)
           q == withPolled(page, o.out)
           val == o.out.val
           poll == IF Pending(val) THEN "armed" ELSE "off"
<1>1. /\ o.out.ok => p.oauth = val /\ p.poll = poll /\ q = p
      /\ ~o.out.ok => p.oauth = page.oauth /\ p.poll = page.poll /\ q.oauth = page.oauth /\ q.poll = "lost"
  BY LoginShows
<1>2. IsPage(fields, p)
  BY WithLogin
<1>3. \/ o.by \in {"login", "cancel"} /\ page' = idle(p)
      \/ o.by = "poll" /\ page' = q
  OBVIOUS
<1> HIDE DEF p, q, poll
<1>4. idle(p).oauth = p.oauth /\ idle(p).poll = p.poll
  BY <1>2 DEF IsPage, idle
<1>5. /\ o.out.ok => page'.oauth = val /\ page'.poll = poll
      /\ ~o.out.ok => page'.oauth = page.oauth /\ (page'.poll = "armed" => page.poll = "armed")
  BY <1>1, <1>3, <1>4
<1>6. /\ o.by \in LoginAsks /\ Role(op[c]) = o.by
      /\ o.out.ok => op[c].pc = "done" /\ op[c].out = o.out
  BY DEF AnswerTo, LoginAsks
<1>7. /\ o.out.ok => \E bys : /\ Role(op[c]) # "poll" => "poll" \in bys
                              /\ Turn(op, op', c, bys, Nobody, "none", None)
      /\ ~o.out.ok => NoMoreAsks(op, op')
  BY <1>6, AnswerTurns DEF LoginAsks
<1>8. CASE o.out.ok
  <2>1. Told(op, c) /\ op[c].out.val = val
    BY <1>6, <1>8 DEF Told, Asks
  <2> QED
    BY <1>5, <1>7, <1>8, <2>1 DEF LoginTaken, poll
<1>9. CASE ~o.out.ok
  BY <1>5, <1>7, <1>9 DEF LoginTaken
<1> QED
  BY <1>8, <1>9

\* Their other functions leave the login alone.
LEMMA OtherAnswer ==
  ASSUME CallsGood(op), NEW c \in Call, NEW o, AnswerTo(c, o), view \in {"setup", "settings"},
         o.by \notin LoginAsks,
         page'.oauth = page.oauth, page'.poll = page.poll
  PROVE  LoginTaken(c)
BY AnswerTurns DEF LoginTaken

\* What an answer makes of the login on the setup page,
LEMMA SetupTaken ==
  ASSUME CallsGood(op), SetupGood(page, op), view = "setup", NEW c \in Call, NEW o,
         AnswerTo(c, o), Own(op[c]),
         Role(op[c]) = op[c].by
  PROVE  LoginTaken(c)
<1> DEFINE F == SetupFields
           Still(p) == p.oauth = page.oauth /\ p.poll = page.poll
<1>1. o.by \in SetupBys /\ IsPage(F, page)
  BY DEF AnswerTo, SetupGood, Only
<1>2. page' = setupReact(page, o)
  BY DEF AnswerTo, react
<1>3. /\ {"oauth", "poll", "busy"} \subseteq F /\ "oauth" \in F /\ "poll" \in F /\ "busy" \in F
      /\ {"status", "runtime", "codex", "provider"} \subseteq F /\ {"rev", "basis"} \subseteq F
      /\ {"models", "rev", "basis", "phase"} \subseteq F /\ {"probe", "result"} \subseteq F
  BY DEF SetupFields
<1>4. CASE o.by \in LoginAsks
  <2>1. \/ o.by \in {"login", "cancel"} /\ page' = idle(withLogin(page, o.out))
        \/ o.by = "poll" /\ page' = withPolled(page, o.out)
    BY <1>2, <1>4 DEF setupReact, LoginAsks
  <2> QED
    BY <1>1, <1>3, <2>1, LoginAnswer
<1>5. ASSUME NEW p, IsPage(F, p), Still(p)
      PROVE  Still(idle(p))
  BY <1>3, <1>5 DEF IsPage, idle
<1>6. CASE o.by = "status"
  <2>1. page' = withStatus(page, o.out)
    BY <1>2, <1>6 DEF setupReact
  <2>2. Same(page, page', F \ {"status", "runtime", "codex", "provider"})
    BY <1>1, <1>3, <2>1, WithStatus
  <2>3. Still(page')
    BY <1>3, <2>2 DEF Same
  <2> QED
    BY <1>6, <2>3, OtherAnswer DEF LoginAsks
<1>7. CASE o.by \in {"install", "start"}
  <2> DEFINE p1 == [page EXCEPT !.runtime = o.out.val]
             p2 == [page EXCEPT !.runtime = o.out.val, !.status = "loading"]
  <2>1. page' = idle(page) \/ page' = idle(p1) \/ page' = idle(p2)
    BY <1>2, <1>7 DEF setupReact
  <2>2. IsPage(F, p1) /\ Still(p1) /\ IsPage(F, p2) /\ Still(p2)
    BY <1>1 DEF IsPage, SetupFields
  <2> HIDE DEF p1, p2
  <2>3. Still(page')
    BY <1>1, <1>5, <2>1, <2>2
  <2> QED
    BY <1>7, <2>3, OtherAnswer DEF LoginAsks
<1>8. CASE o.by = "discover"
  <2> DEFINE p == withModels(page, o.out, "error")
  <2>1. page' = idle(p)
    BY <1>2, <1>8 DEF setupReact
  <2>2. IsPage(F, p) /\ Same(page, p, F \ {"models", "rev", "basis", "phase"})
    BY <1>1, <1>3, WithModels
  <2> HIDE DEF p
  <2>3. Still(page')
    BY <1>3, <1>5, <2>1, <2>2 DEF Same
  <2> QED
    BY <1>8, <2>3, OtherAnswer DEF LoginAsks
<1>9. CASE o.by = "apply"
  <2> DEFINE e == [page EXCEPT !.phase = "error"]
             r == withApplied(page, o)
             q == [r EXCEPT !.applied = @ \/ o.out.ok]
  <2>1. page' = idle(e) \/ page' = idle(q)
    BY <1>2, <1>9 DEF setupReact
  <2>2. IsPage(F, e) /\ Still(e)
    BY <1>1 DEF IsPage, SetupFields
  <2>3. IsPage(F, r) /\ Same(page, r, F \ {"rev", "basis"})
    BY <1>1, <1>3, WithApplied
  <2> HIDE DEF e, r
  <2>4. Still(r)
    BY <1>3, <2>3 DEF Same
  <2>5. IsPage(F, q) /\ Still(q)
    BY <1>3, <2>3, <2>4 DEF IsPage
  <2> HIDE DEF q
  <2>6. Still(page')
    BY <1>5, <2>1, <2>2, <2>5
  <2> QED
    BY <1>9, <2>6, OtherAnswer DEF LoginAsks
<1>10. CASE o.by = "probe"
  <2> DEFINE p == withProbe(page, o.out)
  <2>1. page' = idle(p)
    BY <1>2, <1>10 DEF setupReact
  <2>2. IsPage(F, p) /\ Same(page, p, F \ {"probe", "result"})
    BY <1>1, <1>3, WithProbe
  <2> HIDE DEF p
  <2>3. Still(page')
    BY <1>3, <1>5, <2>1, <2>2 DEF Same
  <2> QED
    BY <1>10, <2>3, OtherAnswer DEF LoginAsks
<1> QED
  BY <1>1, <1>4, <1>6, <1>7, <1>8, <1>9, <1>10 DEF SetupBys, LoginAsks

\* and on the settings page.
LEMMA SettingsTaken ==
  ASSUME CallsGood(op), ManageGood(page, op), view = "settings", NEW c \in Call, NEW o,
         AnswerTo(c, o), Own(op[c]),
         Role(op[c]) = op[c].by
  PROVE  LoginTaken(c)
<1> DEFINE F == ManageFields
           Still(p) == p.oauth = page.oauth /\ p.poll = page.poll
<1>1. o.by \in ManageBys /\ IsPage(F, page)
  BY DEF AnswerTo, ManageGood, Only
<1>2. page' = settingsReact(page, o)
  BY DEF AnswerTo, react
<1>3. /\ {"oauth", "poll", "busy"} \subseteq F /\ "oauth" \in F /\ "poll" \in F /\ "busy" \in F
      /\ {"status", "runtime", "codex", "provider"} \subseteq F
  BY DEF ManageFields
<1>4. CASE o.by \in LoginAsks
  <2>1. \/ o.by \in {"login", "cancel"} /\ page' = idle(withLogin(page, o.out))
        \/ o.by = "poll" /\ page' = withPolled(page, o.out)
    BY <1>2, <1>4 DEF settingsReact, LoginAsks, RuntimeOps, Starts
  <2> QED
    BY <1>1, <1>3, <2>1, LoginAnswer
<1>5. CASE o.by = "status"
  <2> DEFINE r == withStatus(page, o.out)
  <2>1. page' = [r EXCEPT !.status = "shown"] \/ page' = [page EXCEPT !.status = "shown"]
    BY <1>2, <1>5 DEF settingsReact, RuntimeOps, Starts
  <2>2. IsPage(F, r) /\ Same(page, r, F \ {"status", "runtime", "codex", "provider"})
    BY <1>1, <1>3, WithStatus
  <2> HIDE DEF r
  <2>3. Still(r)
    BY <1>3, <2>2 DEF Same
  <2>4. Still(page')
    BY <1>1, <1>3, <2>1, <2>2, <2>3 DEF IsPage
  <2> QED
    BY <1>5, <2>4, OtherAnswer DEF LoginAsks
<1>6. CASE o.by \in RuntimeOps
  <2> DEFINE p == [page EXCEPT !.runtime = o.out.val]
  <2>1. page' = idle(p) \/ page' = idle(page)
    BY <1>2, <1>6 DEF settingsReact, RuntimeOps, Starts
  <2>2. IsPage(F, p) /\ Still(p)
    BY <1>1 DEF IsPage, ManageFields
  <2> HIDE DEF p
  <2>3. Still(page')
    BY <1>1, <1>3, <2>1, <2>2 DEF IsPage, idle
  <2> QED
    BY <1>6, <2>3, OtherAnswer DEF LoginAsks, RuntimeOps, Starts
<1> QED
  BY <1>1, <1>4, <1>5, <1>6 DEF ManageBys, LoginAsks

-----------------------------------------------------------------------------
(* Every step keeps the login good, and no verdict is taken back.            *)
LEMMA PageLogin ==
  ASSUME NoneIsNull, PagesInv, LoginInv, PageNext
  PROVE  /\ LoginView' => LoginGood(page', op', login)
         /\ LoginView /\ LoginView' => Verdict(page, page')
<1>1. view' = view /\ CallsGood(op)
  BY ViewStays DEF Next, PagesInv
<1>2. SUFFICES ASSUME view \in {"setup", "settings"}, page' # None
               PROVE  LoginGood(page', op', login) /\ (page # None => Verdict(page, page'))
  BY <1>1 DEF LoginView
<1>3. CASE page = None
  <2>1. Only(op, {})
    BY <1>3, PageIsSomething DEF PagesInv
  <2>2. ~\E c \in Call : Answer(c)
    <3>1. ASSUME NEW c \in Call, Answer(c)
          PROVE  FALSE
      BY <1>1, <1>2, <1>3, <2>1, <3>1, AnswerIs DEF Only
    <3> QED
      BY <3>1
  <2>3. Mount
    BY <1>3, <2>2
     DEF PageNext, SetupNext, SetupRuntime, SetupRefresh, SetupLogin, SetupCancelLogin,
         SetupDiscover, SetupApply, SetupProbe, SetupCancelProbe, SetupAt, SettingsNext,
         SettingsRuntime, SettingsRefresh, SettingsLogin, SettingsCancelLogin, ModelsNext,
         ModelsRefresh, ModelsToggle, ModelsApply, PlaygroundNext, PlaygroundSelect,
         PlaygroundChoose, PlaygroundRead, PlaygroundRemove, PlaygroundRun, PlaygroundCancel,
         RequestsNext, RequestsMore, RequestsQuery, ReadsRefresh, PollFires, PollArmed,
         DashboardPoll, Leave, Shows
  <2>4. /\ page' \in {SetupInit, SettingsInit} /\ FreeCalls(op) # {}
        /\ op' = ask(op, "status", None, "status")
    BY <1>2, <2>3 DEF Mount, Mounted, Event, MayAsk, MayBegin
  <2>5. page'.oauth = None /\ page'.poll = "off"
    BY <2>4 DEF SetupInit, SettingsInit
  <2>6. \A c \in Call : ~Asks(op', c)
    <3>1. PICK n \in Call : Turn(op, op', Nobody, {}, n, "status", None)
      BY <1>1, <2>4, AskTurn DEF Calls
    <3> QED
      BY <2>1, <3>1, TurnAsks DEF Only, Own, Asks, LoginAsks
  <2>7. IsView(login) /\ Seen(page', op', login) = {login}
    BY <2>5, <2>6 DEF Seen, Told, LoginInv
  <2>8. login.id <= login.id
    BY <2>7 DEF IsView
  <2>9. SeenGood(Seen(page', op', login), login)
    BY <2>7, <2>8 DEF SeenGood
  <2>10. PollsGood(page', op') /\ TellsGood(page', op')
    BY <2>5, <2>6 DEF PollsGood, TellsGood, Told, Asks, AtMost, Nil, LoginAsks
  <2> QED
    BY <1>3, <2>9, <2>10 DEF LoginGood
<1>4. CASE page # None
  <2>1. LoginGood(page, op, login)
    BY <1>2, <1>4 DEF LoginInv, LoginView
  <2>2. /\ view = "setup" => SetupGood(page, op)
        /\ view = "settings" => ManageGood(page, op)
    BY <1>2, <1>4 DEF PagesInv, PageGood
  <2>3. ASSUME page'.oauth = page.oauth
        PROVE  Verdict(page, page')
    BY <2>3 DEF Verdict
  <2>4. CASE SetupNext
    <3>1. view = "setup"
      BY <2>4 DEF SetupNext, SetupRuntime, SetupRefresh, SetupLogin, SetupCancelLogin,
                  SetupDiscover, SetupApply, SetupProbe, SetupCancelProbe, SetupAt, Shows
    <3> QED
      BY <1>1, <2>1, <2>2, <2>3, <2>4, <3>1, SetupMoves
  <2>5. CASE SettingsNext
    <3>1. view = "settings"
      BY <2>5 DEF SettingsNext, SettingsRuntime, SettingsRefresh, SettingsLogin,
                  SettingsCancelLogin, Shows
    <3> QED
      BY <1>1, <2>1, <2>2, <2>3, <2>5, <3>1, SettingsMoves
  <2>6. CASE PollFires
    <3>1. \E fields : {"oauth", "poll"} \subseteq fields /\ IsPage(fields, page)
      <4>1. {"oauth", "poll"} \subseteq SetupFields /\ {"oauth", "poll"} \subseteq ManageFields
        BY DEF SetupFields, ManageFields
      <4> QED
        BY <1>2, <2>2, <4>1 DEF SetupGood, ManageGood
    <3> QED
      BY <1>1, <2>1, <2>3, <2>6, <3>1, PollMoves
  <2>7. ASSUME NEW c \in Call, Answer(c)
        PROVE  LoginGood(page', op', login) /\ Verdict(page, page')
    <3>1. CASE page' = page /\ ~Own(op[c]) /\ op' = [op EXCEPT ![c] = Free]
      <4>1. NoMoreAsks(op, op')
        BY <1>1, <3>1, FreeTurn, TurnAsks, NobodyCalls
      <4> QED
        BY <2>1, <2>3, <3>1, <4>1, FewerAsks
    <3>2. ASSUME NEW o, AnswerTo(c, o), Own(op[c]), Role(op[c]) = op[c].by
          PROVE  LoginGood(page', op', login) /\ Verdict(page, page')
      <4>1. LoginTaken(c)
        BY <1>1, <1>2, <2>2, <3>2, SetupTaken, SettingsTaken
      <4>2. Role(op[c]) \in {"login", "cancel"} => One(op, BusyBys)
        <5>1. {"login", "cancel"} \subseteq BusyBys
          BY DEF BusyBys
        <5> QED
          BY <1>2, <2>2, <5>1 DEF SetupGood, ManageGood, Nil
      <4> QED
        BY <2>1, <4>1, <4>2, TakenGood
    <3>3. \/ page' = page /\ ~Own(op[c]) /\ op' = [op EXCEPT ![c] = Free]
          \/ \E o : AnswerTo(c, o) /\ Own(op[c]) /\ Role(op[c]) = op[c].by
      BY <1>1, <2>7, AnswerIs
    <3> QED
      BY <3>1, <3>2, <3>3
  <2> QED
    BY <1>2, <1>4, <2>4, <2>5, <2>6, <2>7
       DEF PageNext, ModelsNext, ModelsRefresh, ModelsToggle, ModelsApply,
         PlaygroundNext, PlaygroundSelect, PlaygroundChoose, PlaygroundRead, PlaygroundRemove,
         PlaygroundRun, PlaygroundCancel, imageAllowed, RequestsNext, RequestsMore,
         RequestsQuery, ReadsRefresh, DashboardPoll, Mount, Leave, Event, Shows
<1> QED
  BY <1>3, <1>4

\* Every step keeps what the pages are told good, and verdicts as they are.
LEMMA StepLogin ==
  ASSUME NoneIsNull, PagesInv, LoginInv, [Next]_vars
  PROVE  LoginInv' /\ (LoginView /\ LoginView' => Verdict(page, page'))
<1>1. CallsGood(op) /\ view' = view
  BY ViewStays DEF PagesInv
<1>2. CASE PageNext
  <2>1. login' = login
    <3>1. \A p, o : Event(p, o) => login' = login
      BY DEF Event, hostState
    <3>2. \A kind, arg, by, p : Ask(kind, arg, by, p) \/ AskAgain(kind, arg, by, p) => login' = login
      BY <3>1 DEF Ask, AskAgain
    <3>3. SetupNext \/ SettingsNext => login' = login
      BY <3>1, <3>2
         DEF SetupNext, SetupRuntime, SetupRefresh, SetupLogin, SetupCancelLogin, SetupDiscover,
             SetupApply, SetupProbe, SetupCancelProbe, SettingsNext, SettingsRuntime,
             SettingsRefresh, SettingsLogin, SettingsCancelLogin
    <3>4. ModelsNext \/ PlaygroundNext \/ RequestsNext => login' = login
      BY <3>1, <3>2
         DEF ModelsNext, ModelsRefresh, ModelsToggle, ModelsApply, PlaygroundNext, PlaygroundSelect,
             PlaygroundChoose, PlaygroundRead, PlaygroundRemove, PlaygroundRun, PlaygroundCancel,
             RequestsNext, RequestsMore, RequestsQuery
    <3>5. ReadsRefresh \/ PollFires \/ DashboardPoll \/ Mount \/ Leave => login' = login
      BY <3>1, <3>2 DEF ReadsRefresh, PollFires, DashboardPoll, Mount, Leave
    <3> QED
      BY <1>2, <3>3, <3>4, <3>5 DEF PageNext, Answer, hostState
  <2>2. IsView(login')
    BY <2>1 DEF LoginInv
  <2>3. /\ LoginView' => LoginGood(page', op', login)
        /\ LoginView /\ LoginView' => Verdict(page, page')
    BY <1>2, PageLogin
  <2> QED
    BY <2>1, <2>2, <2>3 DEF LoginInv
<1>3. CASE UNCHANGED pageVars /\ (HostNext(view \in Detailed) \/ OthersStep)
  <2>1. IsView(login') /\ (LoginView => LoginGood(page, op', login'))
    BY <1>1, <1>3, HostLogin DEF LoginInv
  <2>2. page' = page
    BY <1>3 DEF pageVars
  <2> QED
    BY <1>1, <2>1, <2>2 DEF LoginInv, LoginView, Verdict
<1>4. CASE UNCHANGED vars
  BY <1>4 DEF vars, hostVars, hostState, pageVars, LoginInv, LoginView, Verdict
<1> QED
  BY <1>2, <1>3, <1>4 DEF Next, OthersStep

\* Before the first call there is no login to be told of.
LEMMA InitLogin ==
  ASSUME NEW desc, NEW keys, NEW mode, NEW state, NEW connected,
         HostInit(desc, keys, mode, state, connected), page = None
  PROVE  LoginInv
BY DEF HostInit, LoginInv, LoginView, IsView, LoginFields

(* The end of a login that a page shows is final: no answer that was on its  *)
(* way, of a poll, a cancel or a login, takes it back or changes it; only a  *)
(* later login replaces it (the poll effects of SetupView and SettingsView,  *)
(* oauthDeviceStart, -Status and -Cancel).                                   *)
THEOREM VerdictStays ==
  ASSUME NoneIsNull, NEW desc, NEW keys, NEW mode, NEW state, NEW connected
  PROVE  HostInit(desc, keys, mode, state, connected) /\ page = None /\ [][Next]_vars => VerdictShownStays
<1> DEFINE Inv == PagesInv /\ LoginInv
<1>1. HostInit(desc, keys, mode, state, connected) /\ page = None => Inv
  BY InitPages, InitLogin
<1>2. Inv /\ [Next]_vars => Inv'
  BY StepPages, StepLogin
<1>3. Inv /\ [Next]_vars
      => [(/\ page # None /\ page' # None /\ view \in {"setup", "settings"}
           /\ page.oauth # None /\ page.oauth.state \in {"success", "failed", "cancelled"})
            => page'.oauth = page.oauth \/ page'.oauth.id > page.oauth.id]_pageVars
  BY StepLogin, ViewStays DEF Verdict, LoginView
<1> HIDE DEF Inv
<1> QED
  BY <1>1, <1>2, <1>3, PTL DEF VerdictShownStays

-----------------------------------------------------------------------------
(* What the planner makes of its own work.  The normal form of an endpoint   *)
(* is its own,                                                               *)
LEMMA NormalAgain ==
  ASSUME normalizeEndpoint(Endpoint) # Invalid
  PROVE  LET base == normalizeEndpoint(Endpoint) IN normalizeEndpoint(base) = base
<1> DEFINE base == [Endpoint EXCEPT !.path = "/v1"]
<1>1. normalizeEndpoint(Endpoint) = base
  BY DEF normalizeEndpoint
<1>2. base = [f \in {"host", "path"} |-> base[f]] /\ base.path = "/v1"
  BY EndpointAssumption
<1> HIDE DEF base
<1>3. normalizeEndpoint(base) = [base EXCEPT !.path = "/v1"]
  BY <1>2 DEF normalizeEndpoint
<1>4. [base EXCEPT !.path = "/v1"] = base
  BY <1>2
<1> QED
  BY <1>1, <1>3, <1>4

\* the route of the gateway for some models is complete and the gateway's own,
Profile(models) == createCpaProviderRoute(Endpoint, KeyRef, models)

LEMMA ProfileIs ==
  ASSUME NEW models, Profile(models) # Invalid
  PROVE  /\ IsRoute(Profile(models)) /\ Profile(models).extra = FALSE
         /\ Profile(models).api = CPA_PROVIDER_API /\ Profile(models).key = KeyRef
         /\ Profile(models).base = normalizeEndpoint(Endpoint) /\ normalizeEndpoint(Endpoint) # Invalid
         /\ DOMAIN Profile(models).models = {models[i].id : i \in DOMAIN models}
<1> DEFINE base  == normalizeEndpoint(Endpoint)
           caps  == normalizeCapabilities(models)
           built == buildModels(caps)
           route == [extra |-> FALSE, api |-> CPA_PROVIDER_API, base |-> base, key |-> KeyRef, models |-> built]
<1>1. base # Invalid /\ caps # Invalid /\ Profile(models) = route
  <2> HIDE DEF built
  <2> QED
    BY DEF Profile, createCpaProviderRoute, built
<1>2. DOMAIN built = {models[i].id : i \in DOMAIN models}
  <2>1. caps = firstById(models)
    BY <1>1 DEF normalizeCapabilities
  <2>2. DOMAIN firstById(models) = {models[i].id : i \in DOMAIN models}
    BY DEF firstById
  <2> HIDE DEF caps
  <2>3. DOMAIN built = DOMAIN caps
    BY DEF buildModels
  <2> QED
    BY <2>1, <2>2, <2>3
<1> HIDE DEF base, built
<1>3. /\ route = [f \in RouteFields \cup {"extra"} |-> route[f]] /\ route.extra = FALSE
      /\ route.api = CPA_PROVIDER_API /\ route.key = KeyRef /\ route.base = base /\ route.models = built
  BY DEF RouteFields
<1> HIDE DEF route, caps
<1> QED
  BY <1>1, <1>2, <1>3 DEF IsRoute, base

\* The route of a section, whoever wrote it.
IsUser(user) == user = None \/ IsRoute(user)

\* a plan that is neither refused nor in conflict writes just that route,
\* whatever of it was there before,
LEMMA PlanWrites ==
  ASSUME NoneIsNull, NEW s, IsUser(s.user), NEW models,
         planCpaProviderSettings(s, Endpoint, KeyRef, models) \notin {Invalid, Conflict}
  PROVE  /\ Profile(models) # Invalid
         /\ withOps(s.user, planCpaProviderSettings(s, Endpoint, KeyRef, models)) = Profile(models)
<1> DEFINE profile  == Profile(models)
           existing == assertNoProviderConflict(s, profile)
           ops      == IF existing.noOp THEN {} ELSE routeOps(s.user, profile)
           plan     == [changed |-> ~existing.noOp, route |-> profile, ops |-> ops]
<1>1. profile # Invalid /\ existing # Conflict /\ planCpaProviderSettings(s, Endpoint, KeyRef, models) = plan
  <2> HIDE DEF profile
  <2>1. profile = createCpaProviderRoute(Endpoint, KeyRef, models)
    BY DEF profile, Profile
  <2> HIDE DEF existing
  <2>2. existing = assertNoProviderConflict(s, profile)
    BY DEF existing
  <2> QED
    BY <2>1, <2>2 DEF planCpaProviderSettings
<1>2. IsRoute(profile) /\ profile.extra = FALSE
  BY <1>1, ProfileIs
<1> HIDE DEF profile
<1>3. /\ s.user # None => routeHasOwnedIdentity(s.user, profile) /\ existing.noOp = (s.user = profile)
      /\ s.user = None => existing.noOp = FALSE
  BY <1>1 DEF assertNoProviderConflict, routeIsExact
<1> HIDE DEF existing
<1> DEFINE all == [f \in RouteFields \cup {"extra"} |->
                     IF f \in ops \/ s.user = None THEN profile[f] ELSE s.user[f]]
<1>4. withOps(s.user, plan) = IF ops = {} THEN s.user ELSE all
  <2> HIDE DEF ops
  <2> QED
    BY DEF withOps
<1>5. CASE s.user = None
  <2>1. ops = RouteFields /\ ops # {}
    BY <1>3, <1>5 DEF routeOps, RouteFields
  <2>2. all = profile
    BY <1>2, <1>5 DEF IsRoute
  <2> QED
    BY <1>1, <1>4, <2>1, <2>2 DEF profile
<1>6. CASE s.user # None
  <2>1. /\ IsRoute(s.user) /\ s.user.extra = FALSE
        /\ s.user # profile => ops = {f \in RouteFields : s.user[f] # profile[f]}
        /\ s.user = profile => ops = {}
    BY <1>3, <1>6 DEF IsUser, IsRoute, routeHasOwnedIdentity, routeOps
  <2>2. s.user # profile => \A f \in RouteFields \cup {"extra"} : f \notin ops => s.user[f] = profile[f]
    BY <1>2, <2>1
  <2> HIDE DEF ops
  <2>3. s.user # profile => ops # {}
    BY <1>2, <2>1, <2>2 DEF IsRoute
  <2>4. s.user # profile => all = profile
    BY <1>2, <1>6, <2>2 DEF IsRoute
  <2> HIDE DEF all
  <2>5. withOps(s.user, plan) = profile
    BY <1>4, <2>1, <2>3, <2>4
  <2> QED
    BY <1>1, <2>5 DEF profile
<1> QED
  BY <1>5, <1>6

\* and planned again over it, nothing changes, and it counts as configured.
LEMMA PlanAgain ==
  ASSUME NoneIsNull, NEW models, Profile(models) # Invalid, NEW t, t.user = Profile(models)
  PROVE  /\ planCpaProviderSettings(t, Endpoint, KeyRef, models).changed = FALSE
         /\ DOMAIN models # {} => cpaProviderConfigured(t.user, Endpoint, KeyRef)
<1> DEFINE profile == Profile(models)
<1>1. /\ IsRoute(profile) /\ profile.extra = FALSE /\ profile.api = CPA_PROVIDER_API
      /\ profile.key = KeyRef /\ profile.base = normalizeEndpoint(Endpoint)
      /\ normalizeEndpoint(Endpoint) # Invalid
      /\ DOMAIN profile.models = {models[i].id : i \in DOMAIN models}
  BY ProfileIs
<1>2. profile = createCpaProviderRoute(Endpoint, KeyRef, models) /\ profile # Invalid
  BY DEF Profile
<1> HIDE DEF profile
<1>3. profile # None
  BY <1>1 DEF NoneIsNull, IsRoute
<1>4. normalizeEndpoint(profile.base) = profile.base
  BY <1>1, NormalAgain
<1>5. routeHasOwnedIdentity(profile, profile)
  BY <1>1, <1>4 DEF routeHasOwnedIdentity
<1>6. t.user = profile
  BY DEF profile
<1>7. assertNoProviderConflict(t, profile) = [noOp |-> TRUE]
  BY <1>3, <1>5, <1>6 DEF assertNoProviderConflict, routeIsExact
<1> DEFINE existing == assertNoProviderConflict(t, profile)
<1> HIDE DEF existing
<1>8. existing # Conflict /\ existing.noOp = TRUE
  <2>1. Conflict # [noOp |-> TRUE]
    BY ConflictAssumption
  <2>2. [noOp |-> TRUE].noOp = TRUE
    OBVIOUS
  <2> QED
    BY <1>7, <2>1, <2>2, Zenon DEF existing
<1>9. planCpaProviderSettings(t, Endpoint, KeyRef, models).changed = FALSE
  <2> DEFINE ops == IF existing.noOp THEN {} ELSE routeOps(t.user, profile)
             differs == ~existing.noOp
  <2>1. planCpaProviderSettings(t, Endpoint, KeyRef, models)
          = [changed |-> differs, route |-> profile, ops |-> ops]
    BY <1>2, <1>8 DEF planCpaProviderSettings, existing
  <2>2. differs = FALSE
    BY <1>8
  <2> HIDE DEF ops, differs
  <2>3. [changed |-> differs, route |-> profile, ops |-> ops].changed = differs
    OBVIOUS
  <2> QED
    BY <2>1, <2>2, <2>3, Zenon
<1>10. ownRoute(profile, Endpoint, KeyRef)
  BY <1>1, <1>3, <1>4 DEF ownRoute
<1>11. DOMAIN models # {} => DOMAIN profile.models # {}
  BY <1>1
<1> QED
  BY <1>6, <1>9, <1>10, <1>11 DEF cpaProviderConfigured

\* A finite set that is not empty is listed by a sequence that is not empty.
LEMMA ListIsListed ==
  ASSUME NEW S, IsFiniteSet(S), S # {}
  PROVE  DOMAIN SetToSeq(S) # {}
<1>1. Cardinality(S) \in Nat /\ Cardinality(S) # 0
  BY FS_CardinalityType, FS_EmptySet
<1>2. ExistsBijection(1 .. Cardinality(S), S)
  BY FS_CardinalityType
<1>3. PICK f \in Bijection(1 .. Cardinality(S), S) : TRUE
  BY <1>2 DEF ExistsBijection
<1>4. f \in [1 .. Cardinality(S) -> S] /\ IsInjective(f)
  BY DEF Bijection, Injection
<1>5. SetToSeq(S) \in [1 .. Cardinality(S) -> S]
  BY <1>4 DEF SetToSeq
<1> QED
  BY <1>1, <1>5

-----------------------------------------------------------------------------
(* The write of applyModels.  Only of finitely many models can a list be     *)
(* made; the settings hold routes.                                           *)
Few(models) == IsFiniteSet(DOMAIN models)
RoutesGood == settings # None => IsUser(settings.user)
Listed(models) == SetToSeq({[id |-> id, name |-> id, image |-> models[id]] : id \in DOMAIN models})

\* A list of some models has some.
LEMMA ListedIs ==
  ASSUME NEW models, Few(models), DOMAIN models # {}
  PROVE  DOMAIN Listed(models) # {}
<1> DEFINE entry(id) == [id |-> id, name |-> id, image |-> models[id]]
           S == {entry(id) : id \in DOMAIN models}
<1> DEFINE entries == [id \in DOMAIN models |-> entry(id)]
<1>1. IsFiniteSet(S)
  <2>1. entries \in Surjection(DOMAIN models, S)
    BY DEF Surjection
  <2> QED
    BY <2>1, FS_Surjection DEF Few
<1>2. S # {}
  OBVIOUS
<1>3. Listed(models) = SetToSeq(S)
  BY DEF Listed
<1> HIDE DEF S
<1> QED
  BY <1>1, <1>2, <1>3, ListIsListed

\* Mutate writes the route that it planned.
LEMMA MutateSticks ==
  ASSUME NoneIsNull, IInv, RoutesGood, NEW c \in Call, Few(op[c].arg.models), Mutate(c), Commits(c)
  PROVE  Sticks(c)' /\ RoutesGood'
<1> DEFINE models == op[c].arg.models
           plan == planCpaProviderSettings(settings, Endpoint, KeyRef, Listed(models))
<1>1. IsOps(op) /\ IsCall(op[c]) /\ PlanGood(settings, op[c]) /\ op'[c].pc = "reread"
  BY DEF IInv, Mutate, At, IsOps, Commits
<1>2. op[c].arg.rev = settings.rev
  <2>1. ASSUME op[c].arg.rev # settings.rev, NEW out, finish(c, out) PROVE FALSE
    BY <1>1, <2>1 DEF finish, IsCall, CallFields, IsOps
  <2> QED
    BY <2>1 DEF Mutate
<1>3. IsSection(settings) /\ op[c].loc = plan /\ plan \notin {Invalid, Conflict}
  BY <1>1, <1>2 DEF PlanGood, PlanOf, Listed
<1>4. settings # None /\ IsUser(settings.user)
  BY <1>3 DEF NoneIsNull, IsSection, RoutesGood
<1> DEFINE user == withOps(settings.user, op[c].loc)
<1>5. /\ settings' = [settings EXCEPT !.user = user, !.rev = @ + 1]
      /\ go(c, "reread", op[c].loc)
  BY <1>2 DEF Mutate
<1>6. op'[c].arg = op[c].arg
  BY <1>1, <1>5 DEF go, IsCall, CallFields, IsOps
<1> HIDE DEF user
<1>7. settings' = [f \in SettingsFields |-> settings'[f]] /\ settings'.user = user
  BY <1>3, <1>5 DEF IsSection, SettingsFields
<1>8. settings' # None
  BY <1>7 DEF NoneIsNull
<1> HIDE DEF plan
<1>9. Profile(Listed(models)) # Invalid /\ user = Profile(Listed(models))
  BY <1>3, <1>4, PlanWrites DEF plan, user
<1>10. /\ planCpaProviderSettings(settings', Endpoint, KeyRef, Listed(models)).changed = FALSE
       /\ DOMAIN Listed(models) # {} => cpaProviderConfigured(settings'.user, Endpoint, KeyRef)
       /\ IsUser(settings'.user)
  BY <1>7, <1>9, PlanAgain, ProfileIs DEF IsUser
<1>11. DOMAIN models # {} => DOMAIN Listed(models) # {}
  BY ListedIs
<1>12. (planFor(op[c].arg.models).changed)' = planCpaProviderSettings(settings', Endpoint, KeyRef, Listed(models)).changed
  BY <1>6 DEF planFor, Listed
<1>13. (Configured)' <=> cpaProviderConfigured(settings'.user, Endpoint, KeyRef)
  BY <1>8 DEF Configured
<1>14. Sticks(c)'
  BY <1>6, <1>10, <1>11, <1>12, <1>13 DEF Sticks
<1> QED
  BY <1>10, <1>14 DEF RoutesGood

-----------------------------------------------------------------------------
(* The models of a request are finitely many: those that the endpoint listed,*)
(* as they pass through the client, the answer to a page, the page and its   *)
(* request, or the request of another caller.                                *)
FewCall(r) ==
  /\ r.kind = "apply" => Few(r.arg.models)
  /\ r.by = "discover" /\ r.cur => r.kind = "models"
  /\ r.kind = "models" /\ r.pc = "done" /\ r.cur /\ r.out.ok => Few(r.out.val.models)
FewExch(e) ==
  e.of = "models" => /\ HasReply(e) /\ e.reply.check = "body" => e.reply.body \in Catalogs
                     /\ e.st = "settled" /\ e.res.ok => e.res.val \in Catalogs
FewPair(r, e) ==
  /\ FewCall(r) /\ FewExch(e)
  /\ r.kind = "models" /\ r.pc = "client" => e.of = "models"
FewCalls == \A c \in Call : FewPair(op[c], exch[c])
FewPage  == view \in {"setup", "models"} /\ page # None => Few(page.models)
FewInv   == FewCalls /\ FewPage

Typed == IsOps(op) /\ exch = [c \in Call |-> exch[c]]

\* A step of one call, with its exchange or without,
LEMMA ChangeFew ==
  ASSUME Typed, FewCalls, NEW c \in Call, NEW r, op' = [op EXCEPT ![c] = r],
         NEW e, exch' = [exch EXCEPT ![c] = e] \/ (e = exch[c] /\ exch' = exch), FewPair(r, e)
  PROVE  FewCalls'
<1>1. \A d \in Call : op'[d] = (IF d = c THEN r ELSE op[d]) /\ exch'[d] = (IF d = c THEN e ELSE exch[d])
  BY DEF Typed, IsOps
<1> QED
  BY <1>1 DEF FewCalls

\* of an exchange alone,
LEMMA ExchFew ==
  ASSUME Typed, FewCalls, NEW c \in Call, op' = op, NEW e, exch' = [exch EXCEPT ![c] = e], FewExch(e),
         e.of = exch[c].of \/ op[c].kind # "models"
  PROVE  FewCalls'
<1>1. \A d \in Call : op'[d] = op[d] /\ exch'[d] = (IF d = c THEN e ELSE exch[d])
  BY DEF Typed
<1> QED
  BY <1>1 DEF FewCalls, FewPair

\* or of neither.
LEMMA SameFew ==
  ASSUME FewCalls, op' = op, exch' = exch
  PROVE  FewCalls'
BY DEF FewCalls

Blank(e) == e.of # "models" \/ (e.st # "settled" /\ ~HasReply(e))

\* A handler goes on, and may open an exchange; or ends.
LEMMA GoFew ==
  ASSUME Typed, FewCalls, NEW c \in Call, NEW pc, NEW loc, go(c, pc, loc),
         NEW e, exch' = [exch EXCEPT ![c] = e] \/ (e = exch[c] /\ exch' = exch),
         Blank(e) \/ e = exch[c],
         op[c].kind = "models" => pc = "client" /\ e.of = "models"
  PROVE  FewCalls'
<1> DEFINE r == [op[c] EXCEPT !.pc = pc, !.loc = loc]
<1>1. /\ r.pc = pc /\ r.kind = op[c].kind /\ r.by = op[c].by /\ r.cur = op[c].cur
      /\ r.arg = op[c].arg /\ r.out = op[c].out
  BY DEF Typed, IsOps, IsCall, CallFields
<1>2. op' = [op EXCEPT ![c] = r]
  BY DEF go
<1> HIDE DEF r
<1>3. FewCall(r)
  BY <1>1 DEF FewCalls, FewPair, FewCall
<1>4. FewExch(e)
  BY DEF Blank, FewExch, FewCalls, FewPair
<1> QED
  BY <1>1, <1>2, <1>3, <1>4, ChangeFew DEF FewPair

LEMMA FinishFew ==
  ASSUME Typed, FewCalls, NEW c \in Call, NEW out, finish(c, out), exch' = exch,
         op[c].kind = "models" /\ out.ok => Few(out.val.models)
  PROVE  FewCalls'
<1> DEFINE kept == IF op[c].cur THEN out ELSE None
           r == [op[c] EXCEPT !.pc = "done", !.loc = None, !.out = kept]
<1>1. /\ r.pc = "done" /\ r.kind = op[c].kind /\ r.by = op[c].by /\ r.cur = op[c].cur
      /\ r.arg = op[c].arg /\ r.out = kept
  BY DEF Typed, IsOps, IsCall, CallFields
<1>2. op' = [op EXCEPT ![c] = r]
  BY DEF finish
<1> HIDE DEF r
<1>3. FewPair(op[c], exch[c])
  BY DEF FewCalls
<1>4. FewPair(r, exch[c])
  BY <1>1, <1>3 DEF FewPair, FewCall
<1> QED
  BY <1>2, <1>4, ChangeFew

\* What the host makes of a list of the endpoint.
LEMMA DiscoveredFew ==
  ASSUME NEW list \in Catalogs, NEW desc, discovered(list, desc).ok
  PROVE  Few(discovered(list, desc).val.models)
<1> DEFINE caps == normalizeCpaModels(list)
           image(id) == id \in configuredImageModels(desc.user, Endpoint, KeyRef)
           models == [id \in DOMAIN caps |-> image(id)]
           val == [models |-> models, rev |-> desc.rev, basis |-> desc.user]
<1>1. caps # Invalid /\ discovered(list, desc) = value(val)
  BY DEF discovered, failed
<1>2. caps = firstById(list)
  BY <1>1 DEF normalizeCpaModels
<1>3. DOMAIN firstById(list) = {list[i].id : i \in DOMAIN list}
  BY DEF firstById
<1>4. IsFiniteSet({list[i].id : i \in DOMAIN list})
  <2> DEFINE id(i) == list[i].id
             ids == [i \in DOMAIN list |-> id(i)]
             S == {id(i) : i \in DOMAIN list}
  <2>1. ids \in Surjection(DOMAIN list, S)
    BY DEF Surjection
  <2>2. IsFiniteSet(DOMAIN list)
    BY CatalogsAssumption
  <2> QED
    BY <2>1, <2>2, FS_Surjection
<1>5. DOMAIN models = DOMAIN caps
  OBVIOUS
<1> HIDE DEF caps, models
<1>6. value(val).val.models = models
  BY DEF value
<1> HIDE DEF val
<1> QED
  BY <1>1, <1>2, <1>3, <1>4, <1>5, <1>6 DEF Few

\* Handlers of calls that ask for no models,
Plain(c) ==
  /\ op[c].kind # "models"
  /\ \/ op' = op
     \/ \E pc, loc : go(c, pc, loc)
     \/ \E out : finish(c, out)

LEMMA PlainFew ==
  ASSUME Typed, FewCalls, NEW c \in Call, Plain(c), exch' = exch
  PROVE  FewCalls'
BY SameFew, GoFew, FinishFew DEF Plain

\* those of the runtime and of the login,
LEMMA RuntimeFew ==
  ASSUME CallsGood(op), Typed, FewCalls, NEW c \in Call, RuntimeCall(c)
  PROVE  FewCalls'
<1>1. exch' = exch
  BY DEF RuntimeCall, Operate, Describe, SetCredential, RunRuntime, RuntimeStarts, RuntimeStops,
         RuntimeInstalls, only, clientVars
<1>2. op[c].kind \in RuntimeOps
  BY DEF RuntimeCall, Operate, Describe, SetCredential, RunRuntime, RuntimeStarts, RuntimeStops,
         RuntimeInstalls, At, RuntimeOps, CallsGood, CallGood
<1>3. op[c].kind # "models"
  BY <1>2 DEF RuntimeOps, Starts
<1>4. \A pc, loc : go(c, pc, loc) => FewCalls'
  BY <1>1, <1>3, PlainFew DEF Plain
<1>5. \A out : finish(c, out) => FewCalls'
  BY <1>1, <1>3, PlainFew DEF Plain
<1>6. nextRef(c) => FewCalls'
  BY <1>4 DEF nextRef
<1>7. CASE Operate(c) \/ Describe(c) \/ SetCredential(c)
  BY <1>4, <1>5, <1>6, <1>7 DEF Operate, Describe, SetCredential
<1>8. CASE RunRuntime(c)
  <2>1. \A code : Refuse(c, code) => FewCalls'
    BY <1>5 DEF Refuse
  <2>2. \A state, pc : Begin(c, state, pc) => FewCalls'
    BY <1>4 DEF Begin
  <2>3. StartRuntime(c) => FewCalls'
    BY <2>1, <2>2 DEF StartRuntime
  <2> QED
    BY <1>4, <1>5, <1>8, <2>1, <2>2, <2>3 DEF RunRuntime, RuntimeOps, Starts
<1>9. CASE RuntimeStarts(c)
  BY <1>1, <1>5, <1>9, SameFew DEF RuntimeStarts
<1>10. CASE RuntimeStops(c) \/ RuntimeInstalls(c)
  BY <1>4, <1>5, <1>10 DEF RuntimeStops, RuntimeInstalls
<1> QED
  BY <1>7, <1>8, <1>9, <1>10 DEF RuntimeCall

LEMMA LoginPlain ==
  ASSUME NEW c \in Call, LoginCall(c)
  PROVE  Plain(c) /\ exch' = exch
<1>1. exch' = exch /\ op[c].kind # "models"
  BY DEF LoginCall, LoginStart, LoginStatus, LoginCancel, only, clientVars, At
<1>2. \E out : finish(c, out)
  BY DEF LoginCall, LoginStart, LoginStatus, LoginCancel
<1> QED
  BY <1>1, <1>2 DEF Plain

\* An exchange that begins has no list yet.
LEMMA OpenedBlank ==
  ASSUME NEW operation
  PROVE  /\ Blank(Opened(operation)) /\ Opened(operation).of = operation
         /\ Blank(Idle) /\ FewExch(Idle)
BY DEF Blank, Opened, Idle, HasReply, FewExch

\* those of the models, of the status and the rest.
LEMMA ModelsFew ==
  ASSUME Typed, FewCalls, NEW c \in Call, ModelsStep(c)
  PROVE  FewCalls'
<1>1. CASE ModelsCall(c)
  <2>1. CASE settings = None
    <3>1. finish(c, failed("llm_pi_ai_unavailable")) /\ exch' = exch
      BY <1>1, <2>1 DEF ModelsCall, only, clientVars
    <3> QED
      BY <3>1, FinishFew DEF failed
  <2>2. CASE settings # None
    <3>1. go(c, "client", settings) /\ exch' = [exch EXCEPT ![c] = Opened("models")]
      BY <1>1, <2>2 DEF ModelsCall, Open
    <3> QED
      BY <3>1, GoFew, OpenedBlank
  <2> QED
    BY <2>1, <2>2
<1>2. CASE ModelsDone(c)
  <2>1. op[c].kind = "models" /\ op[c].pc = "client" /\ exch[c].st = "settled" /\ exch' = exch
    BY <1>2 DEF ModelsDone, At, only, clientVars
  <2>2. exch[c].res.ok => exch[c].res.val \in Catalogs
    BY <2>1 DEF FewCalls, FewPair, FewExch
  <2> DEFINE out == IF exch[c].res.ok THEN discovered(exch[c].res.val, op[c].loc) ELSE exch[c].res
  <2>3. finish(c, out)
    BY <1>2 DEF ModelsDone
  <2>4. out.ok => Few(out.val.models)
    BY <2>2, DiscoveredFew
  <2> HIDE DEF out
  <2> QED
    BY <2>1, <2>3, <2>4, FinishFew
<1>3. CASE Apply(c) \/ Mutate(c) \/ Reread(c)
  <2>1. exch' = exch /\ op[c].kind # "models"
    BY <1>3 DEF Apply, Mutate, Reread, only, clientVars, At
  <2>2. (\E pc, loc : go(c, pc, loc)) \/ \E out : finish(c, out)
    BY <1>3 DEF Apply, Mutate, Reread
  <2> QED
    BY <2>1, <2>2, PlainFew DEF Plain
<1> QED
  BY <1>1, <1>2, <1>3 DEF ModelsStep

LEMMA StatusFew ==
  ASSUME Typed, FewCalls, NEW c \in Call, StatusStep(c)
  PROVE  FewCalls'
<1>1. op[c].kind # "models"
  BY DEF StatusStep, Status, StatusViews, StatusDone, At
<1>2. CASE exch' = exch
  <2>1. (\E pc, loc : go(c, pc, loc)) \/ \E out : finish(c, out)
    BY DEF StatusStep, Status, StatusViews, StatusDone
  <2> QED
    BY <1>1, <1>2, <2>1, PlainFew DEF Plain
<1>3. CASE exch' # exch
  <2>1. (\E pc, loc : go(c, pc, loc)) /\ exch' = [exch EXCEPT ![c] = Opened("authStatus")]
    BY <1>3 DEF StatusStep, Status, StatusViews, StatusDone, only, clientVars, Open
  <2> QED
    BY <1>1, <2>1, GoFew, OpenedBlank
<1> QED
  BY <1>2, <1>3

LEMMA OtherFew ==
  ASSUME Typed, FewCalls, NEW c \in Call, OtherStep(c)
  PROVE  FewCalls'
<1>1. op[c].kind # "models"
  BY DEF OtherStep, Probe, Upload, Requests, Read, Source, SourceDone, At
<1>2. CASE Source(c)
  <2>1. PICK o : exch' = [exch EXCEPT ![c] = Opened(o)]
    BY <1>2 DEF Source, Open
  <2>2. go(c, "client", None)
    BY <1>2 DEF Source
  <2>3. Blank(Opened(o))
    BY OpenedBlank
  <2> QED
    BY <1>1, <2>1, <2>2, <2>3, GoFew
<1>3. CASE SourceDone(c) /\ exch' # exch
  <2>1. Again(c, "quota", op[c].abort) /\ op' = op
    BY <1>3 DEF SourceDone, only, clientVars
  <2> DEFINE opened == [Idle EXCEPT !.of = "quota"]
             e == Fetching(opened, exch[c].key, op[c].abort)
  <2>2. exch' = [exch EXCEPT ![c] = e]
    BY <2>1 DEF Again
  <2>3. IsExch(opened) /\ opened.of = "quota"
    BY DEF IsExch, ExchFields, Idle
  <2> HIDE DEF opened
  <2>4. e.of = "quota"
    BY <2>3 DEF Fetching, Settled, IsExch, ExchFields
  <2> HIDE DEF e
  <2>5. FewExch(e)
    BY <2>4 DEF FewExch
  <2> QED
    BY <1>1, <2>1, <2>2, <2>5, ExchFew
<1>4. CASE ~Source(c) /\ exch' = exch
  <2>1. CASE Probe(c) \/ Upload(c) \/ Requests(c)
    BY <1>1, <1>4, <2>1, PlainFew DEF Probe, Upload, Requests, Plain
  <2>2. CASE Read(c) \/ SourceDone(c)
    BY <1>1, <1>4, <2>2, PlainFew DEF Read, SourceDone, Plain
  <2> QED
    BY <1>4, <2>1, <2>2 DEF OtherStep
<1>5. ~Source(c) /\ ~SourceDone(c) => exch' = exch
  BY DEF OtherStep, Probe, Upload, Requests, Read, only, clientVars
<1> QED
  BY <1>2, <1>3, <1>4, <1>5

LEMMA HandlerFew ==
  ASSUME CallsGood(op), Typed, FewCalls, NEW c \in Call, Handler(c)
  PROVE  FewCalls'
BY RuntimeFew, LoginPlain, PlainFew, ModelsFew, StatusFew, OtherFew DEF Handler

-----------------------------------------------------------------------------
(* The exchange of a list: it is one that the endpoint may give, or none.    *)
LEMMA SettledFew ==
  ASSUME NEW e, IsExch(e), NEW res, e.of = "models" /\ res.ok => res.val \in Catalogs
  PROVE  FewExch(Settled(e, res)) /\ Settled(e, res).of = e.of
<1> DEFINE r == IF e.reply = None THEN None ELSE [check |-> "read"]
           s == [e EXCEPT !.st = "settled", !.res = res, !.timedOut = FALSE, !.reply = r]
<1>1. Settled(e, res) = s
  BY DEF Settled
<1>2. r = None \/ r.check = "read"
  OBVIOUS
<1> HIDE DEF r
<1>3. s.st = "settled" /\ s.res = res /\ s.of = e.of /\ s.reply = r
  BY DEF IsExch, ExchFields
<1> HIDE DEF s
<1> QED
  BY <1>1, <1>2, <1>3 DEF FewExch, HasReply

\* It fails, is sent, replied to, read, or ends in one of the client's ways.
LEMMA FailedFew ==
  ASSUME Typed, ClientInv, FewCalls, NEW c \in Call, NEW code, op' = op,
         exch' = [exch EXCEPT ![c] = Settled(exch[c], failed(code))]
  PROVE  FewCalls'
<1>1. IsExch(exch[c])
  BY DEF ClientInv, Sound
<1>2. failed(code).ok = FALSE
  BY DEF failed
<1> DEFINE e == Settled(exch[c], failed(code))
<1>3. FewExch(e) /\ e.of = exch[c].of
  BY <1>1, <1>2, SettledFew
<1> HIDE DEF e
<1> QED
  BY <1>3, ExchFew DEF e

LEMMA ResolveFew ==
  ASSUME Typed, ClientInv, FewCalls, NEW c \in Call, NEW stored, NEW aborted, op' = op,
         Resolve(c, stored, aborted)
  PROVE  FewCalls'
<1>1. IsExch(exch[c]) /\ ~HasReply(exch[c]) /\ exch[c].st = "resolve"
  BY DEF ClientInv, Sound, Resolve
<1> DEFINE e == [exch[c] EXCEPT !.st = "fetch", !.key = stored]
<1>2. \/ \E code : exch' = [exch EXCEPT ![c] = Settled(exch[c], failed(code))]
      \/ exch' = [exch EXCEPT ![c] = e]
  BY DEF Resolve, Fetching
<1>3. e.of = exch[c].of /\ e.st = "fetch" /\ ~HasReply(e)
  BY <1>1 DEF IsExch, ExchFields, HasReply
<1> HIDE DEF e
<1>4. FewExch(e)
  BY <1>3 DEF FewExch
<1> QED
  BY <1>2, <1>3, <1>4, FailedFew, ExchFew

LEMMA ReplyFew ==
  ASSUME Typed, ClientInv, FewCalls, NEW c \in Call, op' = op, NEW reply,
         exch' = [exch EXCEPT ![c].reply = reply], exch[c].st # "settled" \/ exch[c].of # "models",
         exch[c].of = "models" /\ reply.check = "body" => reply.body \in Catalogs
  PROVE  FewCalls'
<1> DEFINE e == [exch[c] EXCEPT !.reply = reply]
<1>1. IsExch(exch[c])
  BY DEF ClientInv, Sound
<1>2. e.reply = reply /\ e.st = exch[c].st /\ e.of = exch[c].of
  BY <1>1, ReplySound
<1>3. exch' = [exch EXCEPT ![c] = e]
  OBVIOUS
<1> HIDE DEF e
<1>4. FewExch(e)
  BY <1>2 DEF FewExch
<1> QED
  BY <1>2, <1>3, <1>4, ExchFew

LEMMA ServeFew ==
  ASSUME Typed, ClientInv, FewCalls, NEW c \in Call, op' = op, NEW ok, Serve(c, ok, answers(exch[c].of))
  PROVE  FewCalls'
<1>1. exch[c].st # "settled" \/ exch[c].of # "models"
  BY DEF Serve
<1>2. exch[c].of = "models" => answers(exch[c].of) = Catalogs
  BY DEF answers
<1>3. CASE ~ok
  <2> DEFINE reply == [check |-> "status"]
  <2>1. exch' = [exch EXCEPT ![c].reply = reply] /\ reply.check # "body"
    BY <1>3 DEF Serve
  <2> HIDE DEF reply
  <2> QED
    BY <1>1, <2>1, ReplyFew
<1>4. CASE ok /\ exch[c].of = "usageQueue"
  <2> DEFINE took == SubSeq(queue, 1, IF Len(queue) < Count THEN Len(queue) ELSE Count)
             reply == [check |-> "body", body |-> took]
  <2>1. exch' = [exch EXCEPT ![c].reply = reply]
    BY <1>4 DEF Serve
  <2> HIDE DEF reply
  <2> QED
    BY <1>1, <1>4, <2>1, ReplyFew
<1>5. CASE ok /\ exch[c].of # "usageQueue"
  <2>1. PICK b \in answers(exch[c].of) : exch' = [exch EXCEPT ![c].reply = [check |-> "body", body |-> b]]
    BY <1>5 DEF Serve
  <2> DEFINE reply == [check |-> "body", body |-> b]
  <2>2. exch' = [exch EXCEPT ![c].reply = reply] /\ reply.body = b
    BY <2>1
  <2> HIDE DEF reply
  <2> QED
    BY <1>1, <1>2, <2>1, <2>2, ReplyFew
<1> QED
  BY <1>3, <1>4, <1>5

LEMMA GarbleFew ==
  ASSUME Typed, ClientInv, FewCalls, NEW c \in Call, op' = op, Garble(c)
  PROVE  FewCalls'
<1>1. PICK f \in Faults : exch' = [exch EXCEPT ![c].reply = [check |-> f]]
  BY DEF Garble
<1> DEFINE reply == [check |-> f]
<1>2. exch' = [exch EXCEPT ![c].reply = reply] /\ reply.check # "body"
  BY <1>1, FaultsAssumption
<1> HIDE DEF reply
<1>3. exch[c].st # "settled"
  BY DEF Garble
<1> QED
  BY <1>2, <1>3, ReplyFew

LEMMA HeadersFew ==
  ASSUME Typed, ClientInv, FewCalls, NEW c \in Call, op' = op, Headers(c)
  PROVE  FewCalls'
<1> DEFINE e == [exch[c] EXCEPT !.st = "body"]
<1>1. \/ \E code : exch' = [exch EXCEPT ![c] = Settled(exch[c], failed(code))]
      \/ exch' = [exch EXCEPT ![c] = e]
  BY DEF Headers
<1>2. IsExch(exch[c]) /\ FewExch(exch[c])
  BY DEF ClientInv, Sound, FewCalls, FewPair
<1>3. e.of = exch[c].of /\ e.st = "body" /\ e.reply = exch[c].reply
  BY <1>2 DEF IsExch, ExchFields
<1> HIDE DEF e
<1>4. FewExch(e)
  BY <1>2, <1>3 DEF FewExch, HasReply
<1> QED
  BY <1>1, <1>3, <1>4, FailedFew, ExchFew

LEMMA BodyFew ==
  ASSUME Typed, ClientInv, FewCalls, NEW c \in Call, op' = op, Body(c)
  PROVE  FewCalls'
<1> DEFINE reply == exch[c].reply
           res == parse(exch[c].of, reply.body)
<1>1. /\ IsExch(exch[c]) /\ FewExch(exch[c]) /\ HasReply(exch[c])
      /\ reply.check \in {"bytes", "json", "body"}
  BY DEF Body, ClientInv, Sound, HasReply, Running, FewCalls, FewPair
<1>2. CASE reply.check \in {"bytes", "json"}
  <2>1. \E code : exch' = [exch EXCEPT ![c] = Settled(exch[c], failed(code))]
    BY <1>2 DEF Body
  <2> QED
    BY <2>1, FailedFew
<1>3. CASE reply.check = "body"
  <2>1. exch' = [exch EXCEPT ![c] = Settled(exch[c], res)]
    BY <1>3 DEF Body
  <2>2. exch[c].of = "models" /\ res.ok => res.val \in Catalogs
    BY <1>1, <1>3 DEF FewExch, parse, parseModels, value, failed
  <2> HIDE DEF res
  <2> DEFINE e == Settled(exch[c], res)
  <2>3. FewExch(e) /\ e.of = exch[c].of
    BY <1>1, <2>2, SettledFew
  <2> HIDE DEF e
  <2> QED
    BY <2>1, <2>3, ExchFew DEF e
<1> QED
  BY <1>1, <1>2, <1>3

LEMMA TimerFew ==
  ASSUME Typed, ClientInv, FewCalls, NEW c \in Call, op' = op, TimerFires(c)
  PROVE  FewCalls'
<1> DEFINE e == [exch[c] EXCEPT !.timedOut = TRUE]
<1>1. IsExch(exch[c]) /\ FewExch(exch[c])
  BY DEF ClientInv, Sound, FewCalls, FewPair
<1>2. e.of = exch[c].of /\ e.st = exch[c].st /\ e.reply = exch[c].reply /\ e.res = exch[c].res
  BY <1>1 DEF IsExch, ExchFields
<1>3. exch' = [exch EXCEPT ![c] = e]
  BY DEF TimerFires
<1> HIDE DEF e
<1>4. FewExch(e)
  BY <1>1, <1>2 DEF FewExch, HasReply
<1> QED
  BY <1>2, <1>3, <1>4, ExchFew

LEMMA RejectsFew ==
  ASSUME Typed, ClientInv, FewCalls, NEW c \in Call, op' = op, NEW aborted, Rejects(c, aborted)
  PROVE  FewCalls'
<1>1. \E code : exch' = [exch EXCEPT ![c] = Settled(exch[c], failed(code))]
  BY DEF Rejects
<1> QED
  BY <1>1, FailedFew

LEMMA ExchangedFew ==
  ASSUME Typed, ClientInv, FewCalls, NEW c \in Call, op' = op, NEW stored,
         NEW bodies, exch[c].of = "models" => bodies \subseteq Catalogs, Exchanged(c, stored, bodies)
  PROVE  FewCalls'
<1>1. PICK res \in {r \in Promised(c, bodies) : r.ok} \cup {failed("network")} :
        exch' = [exch EXCEPT ![c] = [Settled(exch[c], res) EXCEPT !.key = stored]]
  BY DEF Exchanged
<1>2. IsExch(exch[c])
  BY DEF ClientInv, Sound
<1>3. exch[c].of = "models" /\ res.ok => res.val \in Catalogs
  <2>1. \A code : failed(code).ok = FALSE
    BY DEF failed
  <2>2. \A body : parseModels(body).ok => parseModels(body).val = body
    BY DEF parseModels, value, failed
  <2>3. \A body : parse("models", body) = parseModels(body)
    BY DEF parse
  <2> SUFFICES ASSUME exch[c].of = "models", res.ok PROVE res.val \in Catalogs
    OBVIOUS
  <2>4. res \in Promised(c, bodies) /\ res \notin Failures
    BY <2>1 DEF Failures
  <2>5. PICK body \in bodies : res = parse("models", body)
    BY <2>4 DEF Promised
  <2> QED
    BY <2>2, <2>3, <2>5
<1> DEFINE s == Settled(exch[c], res)
           e == [s EXCEPT !.key = stored]
<1>4. FewExch(s) /\ s.of = exch[c].of
  BY <1>2, <1>3, SettledFew
<1>5. IsExch(s)
  BY <1>2, SettledSound DEF Sound
<1>6. exch' = [exch EXCEPT ![c] = e]
  BY <1>1
<1> HIDE DEF s
<1>7. e.of = s.of /\ e.st = s.st /\ e.reply = s.reply /\ e.res = s.res
  BY <1>5 DEF IsExch, ExchFields
<1> HIDE DEF e
<1>8. FewExch(e)
  BY <1>4, <1>7 DEF FewExch, HasReply
<1> QED
  BY <1>4, <1>6, <1>7, <1>8, ExchFew

\* All of these are the client's steps.
LEMMA ClientFew ==
  ASSUME Typed, ClientInv, FewCalls, NEW c \in Call, ClientStep(c) \/ CoarseStep(c)
  PROVE  FewCalls'
<1>1. op' = op
  BY DEF ClientStep, CoarseStep
<1>2. CASE ClientStep(c)
  BY <1>1, <1>2, ResolveFew, ServeFew, GarbleFew, HeadersFew, BodyFew, TimerFew, RejectsFew DEF ClientStep
<1>3. CASE CoarseStep(c)
  <2> DEFINE bodies == IF Up THEN answers(exch[c].of) ELSE {}
  <2>1. exch[c].of = "models" => bodies \subseteq Catalogs
    BY DEF answers
  <2>2. Exchanged(c, cred[credentialOf(exch[c].of)], bodies)
    BY <1>3 DEF CoarseStep
  <2> HIDE DEF bodies
  <2> QED
    BY <1>1, <2>1, <2>2, ExchangedFew
<1> QED
  BY <1>2, <1>3

-----------------------------------------------------------------------------
(* The callers: what they ask, drop, and take the answer of.                 *)
SafeCall(r, s) ==
  /\ FewCall(r) => FewCall(s)
  /\ s.kind = "models" /\ s.pc = "client" => r.kind = "models" /\ r.pc = "client"
Safe(o, q) == IsOps(q) /\ \A c \in Call : SafeCall(o[c], q[c])

LEMMA SafeFew ==
  ASSUME Typed, FewCalls, Safe(op, op'),
         exch' = exch \/ \E c \in Call : op[c].pc = "done" /\ exch' = [exch EXCEPT ![c] = Idle]
  PROVE  FewCalls'
<1>1. FewExch(Idle)
  BY OpenedBlank
<1>2. ASSUME NEW d \in Call
      PROVE  FewPair(op'[d], exch'[d])
  <2>1. FewPair(op[d], exch[d]) /\ SafeCall(op[d], op'[d])
    BY DEF FewCalls, Safe
  <2>2. exch'[d] = exch[d] \/ (exch'[d] = Idle /\ op[d].pc = "done")
    BY DEF Typed
  <2> QED
    BY <1>1, <2>1, <2>2 DEF FewPair, SafeCall
<1> QED
  BY <1>2 DEF FewCalls

\* Such are the ways in which a page changes its calls.
LEMMA SafeSame ==
  ASSUME NEW o, IsOps(o)
  PROVE  Safe(o, o)
BY DEF Safe, SafeCall

LEMMA SafeTrans ==
  ASSUME NEW o, NEW p, NEW q, Safe(o, p), Safe(p, q)
  PROVE  Safe(o, q)
BY DEF Safe, SafeCall

LEMMA SafeChange ==
  ASSUME NEW o, IsOps(o), NEW p, NEW c, NEW r, p = [o EXCEPT ![c] = r], IsCall(r), FewCall(r), r.pc # "client"
  PROVE  Safe(o, p)
<1>1. p = [d \in Call |-> p[d]] /\ \A d \in Call : p[d] = IF d = c THEN r ELSE o[d]
  BY DEF IsOps
<1>2. IsOps(p)
  BY <1>1 DEF IsOps
<1> QED
  BY <1>1, <1>2 DEF Safe, SafeCall

LEMMA SafeAsk ==
  ASSUME NEW o, IsOps(o), NEW kind, NEW arg, NEW by,
         kind = "apply" => Few(arg.models), by = "discover" => kind = "models"
  PROVE  Safe(o, ask(o, kind, arg, by))
<1> DEFINE r == request(kind, arg, by)
<1>1. IsCall(r) /\ r.pc = "sent" /\ r.kind = kind /\ r.arg = arg /\ r.by = by
  BY DEF IsCall, CallFields, request, Free
<1>2. ask(o, kind, arg, by) = [o EXCEPT ![NextCall(o)] = r]
  BY DEF ask
<1> HIDE DEF r
<1>3. FewCall(r)
  BY <1>1 DEF FewCall
<1> QED
  BY <1>1, <1>2, <1>3, SafeChange

LEMMA SafeFree ==
  ASSUME NEW o, IsOps(o), NEW c
  PROVE  Safe(o, [o EXCEPT ![c] = Free])
<1>1. IsCall(Free) /\ Free.pc = "idle" /\ Free.kind = "none" /\ Free.by = "none"
  BY DEF IsCall, CallFields, Free
<1>2. FewCall(Free)
  BY <1>1 DEF FewCall
<1> QED
  BY <1>1, <1>2, SafeChange

LEMMA SafeDrop ==
  ASSUME NEW o, IsOps(o), NEW bys
  PROVE  Safe(o, drop(o, bys))
<1> DEFINE p == drop(o, bys)
<1>1. IsOps(p)
  BY DropCalm DEF Calm
<1>2. ASSUME NEW c \in Call
      PROVE  SafeCall(o[c], p[c])
  <2>1. IsCall(o[c])
    BY DEF IsOps
  <2>2. p[c] = o[c] \/ p[c] = [o[c] EXCEPT !.cur = FALSE, !.abort = TRUE, !.out = None]
    BY DEF drop
  <2>3. \/ p[c] = o[c]
        \/ /\ p[c].kind = o[c].kind /\ p[c].pc = o[c].pc /\ p[c].arg = o[c].arg /\ p[c].cur = FALSE
    BY <2>1, <2>2 DEF IsCall, CallFields
  <2> QED
    BY <2>3 DEF SafeCall, FewCall
<1> QED
  BY <1>1, <1>2 DEF Safe

LEMMA SafeDropAsk ==
  ASSUME NEW o, IsOps(o), NEW bys, NEW kind, NEW arg, NEW by,
         kind = "apply" => Few(arg.models), by = "discover" => kind = "models"
  PROVE  Safe(o, ask(drop(o, bys), kind, arg, by))
<1>1. Safe(o, drop(o, bys)) /\ IsOps(drop(o, bys))
  BY SafeDrop DEF Safe
<1>2. Safe(drop(o, bys), ask(drop(o, bys), kind, arg, by))
  BY <1>1, SafeAsk
<1> QED
  BY <1>1, <1>2, SafeTrans

SafeStep == Safe(op, op') /\ exch' = exch

\* A page's step is one of them,
LEMMA EventSafe ==
  ASSUME NEW p, NEW o, Safe(op, o), Event(p, o)
  PROVE  SafeStep
BY DEF Event, SafeStep, clientVars

LEMMA AskSafe ==
  ASSUME IsOps(op), NEW kind, NEW arg, NEW by, NEW p, Ask(kind, arg, by, p) \/ AskAgain(kind, arg, by, p),
         kind = "apply" => Few(arg.models), by = "discover" => kind = "models"
  PROVE  SafeStep
<1>1. Safe(op, ask(op, kind, arg, by)) /\ Safe(op, ask(drop(op, {by}), kind, arg, by))
  BY SafeAsk, SafeDropAsk
<1> QED
  BY <1>1, EventSafe DEF Ask, AskAgain

LEMMA AskSafely ==
  ASSUME IsOps(op), NEW kind, NEW arg, NEW by, NEW p, Ask(kind, arg, by, p) \/ AskAgain(kind, arg, by, p),
         kind # "apply", by # "discover"
  PROVE  SafeStep
BY AskSafe

LEMMA QuietSafe ==
  ASSUME IsOps(op), NEW p, NEW bys, Event(p, op) \/ Event(p, drop(op, bys))
  PROVE  SafeStep
BY SafeSame, SafeDrop, EventSafe

LEMMA AnswerSafe ==
  ASSUME IsOps(op), NEW c \in Call, Answer(c)
  PROVE  Safe(op, op') /\ op[c].pc = "done" /\ exch' = [exch EXCEPT ![c] = Idle]
<1> DEFINE freed == [op EXCEPT ![c] = Free]
<1>1. Safe(op, freed) /\ IsOps(freed)
  BY SafeFree DEF Safe
<1>2. \A o : Safe(freed, followUp(o, freed))
  <2> HIDE DEF freed
  <2>1. "status" # "apply" /\ "status" # "discover"
    OBVIOUS
  <2> QED
    BY <1>1, <2>1, SafeDrop, SafeDropAsk, SafeSame DEF followUp
<1>3. PICK out \in {op[c].out, failed("REMOTE_UNAVAILABLE")} :
        op' = followUp([op[c] EXCEPT !.out = out], freed) \/ op' = freed
  BY DEF Answer
<1>4. Safe(op, op')
  <2> HIDE DEF freed
  <2> QED
    BY <1>1, <1>2, <1>3, SafeTrans
<1> QED
  BY <1>4 DEF Answer, Consumed

LEMMA PageSafe ==
  ASSUME Typed, FewCalls, FewPage, PageNext
  PROVE  FewCalls'
<1>1. IsOps(op)
  BY DEF Typed
<1>2. SafeStep => FewCalls'
  BY SafeFew DEF SafeStep
<1>3. CASE SetupApply \/ ModelsApply
  <2> DEFINE arg == [models |-> page.models, rev |-> page.rev, basis |-> page.basis]
  <2>1. Ask("apply", arg, "apply", Busy("apply")) /\ Few(page.models)
    BY <1>3 DEF SetupApply, ModelsApply, SetupAt, Shows, FewPage
  <2>2. arg.models = page.models
    OBVIOUS
  <2> HIDE DEF arg
  <2>3. Few(arg.models)
    BY <2>1, <2>2
  <2> QED
    BY <1>1, <1>2, <2>1, <2>3, AskSafe
<1>4. CASE SetupNext /\ ~SetupApply
  <2>1. CASE SetupRefresh \/ SetupLogin \/ SetupCancelLogin \/ \E kind \in {"install", "start"} : SetupRuntime(kind)
    BY <1>1, <1>2, <2>1, AskSafely DEF SetupRefresh, SetupLogin, SetupCancelLogin, SetupRuntime
  <2>2. CASE SetupDiscover
    BY <1>1, <1>2, <2>2, AskSafe DEF SetupDiscover
  <2>3. CASE SetupProbe
    <3>1. ASSUME NEW arg, NEW p, Ask("probe", arg, "probe", p) PROVE FewCalls'
      BY <1>1, <1>2, <3>1, AskSafely
    <3>2. ASSUME NEW p, Event(p, op) PROVE FewCalls'
      BY <1>1, <1>2, <3>2, QuietSafe
    <3> QED
      BY <2>3, <3>1, <3>2 DEF SetupProbe
  <2>4. CASE SetupCancelProbe
    BY <1>1, <1>2, <2>4, QuietSafe DEF SetupCancelProbe
  <2> QED
    BY <1>4, <2>1, <2>2, <2>3, <2>4 DEF SetupNext
<1>5. CASE SettingsNext
  BY <1>1, <1>2, <1>5, AskSafely
     DEF SettingsNext, SettingsRuntime, SettingsRefresh, SettingsLogin, SettingsCancelLogin, RuntimeOps, Starts
<1>6. CASE ModelsNext /\ ~ModelsApply
  BY <1>1, <1>2, <1>6, AskSafe, QuietSafe DEF ModelsNext, ModelsRefresh, ModelsToggle
<1>7. CASE PlaygroundNext
  BY <1>1, <1>2, <1>7, AskSafely, QuietSafe
     DEF PlaygroundNext, PlaygroundSelect, PlaygroundChoose, PlaygroundRead, PlaygroundRemove,
         PlaygroundRun, PlaygroundCancel
<1>8. CASE RequestsNext
  <2>1. CASE RequestsMore
    BY <1>1, <1>2, <2>1, AskSafely DEF RequestsMore
  <2>2. ASSUME NEW q, RequestsQuery(q)
        PROVE  SafeStep
    <3> DEFINE left == drop(op, {"query", "next"})
    <3>1. Safe(op, left) /\ Safe(op, ask(left, "requests", cursorless(q), "query"))
      BY <1>1, SafeDrop, SafeDropAsk
    <3>2. PICK p : Event(p, left) \/ Event(p, ask(left, "requests", cursorless(q), "query"))
      BY <2>2 DEF RequestsQuery
    <3> HIDE DEF left
    <3> QED
      BY <3>1, <3>2, EventSafe
  <2> QED
    BY <1>2, <1>8, <2>1, <2>2 DEF RequestsNext
<1>9. CASE ReadsRefresh
  BY <1>1, <1>2, <1>9, AskSafely DEF ReadsRefresh
<1>10. CASE PollFires
  <2>1. Safe(op, ask(op, "loginStatus", page.oauth.id, "poll"))
    BY <1>1, SafeAsk
  <2> QED
    BY <1>2, <1>10, <2>1, EventSafe DEF PollFires
<1>11. CASE DashboardPoll
  <2>1. Safe(op, ask(op, "read", None, "read"))
    BY <1>1, SafeAsk
  <2> QED
    BY <1>2, <1>11, <2>1, EventSafe DEF DashboardPoll
<1>12. CASE Mount
  <2> DEFINE arg == IF view = "requests" THEN cursorless(RequestsInit.query) ELSE None
  <2>1. \A kind, by : kind # "apply" /\ (by = "discover" => kind = "models") => Safe(op, ask(op, kind, arg, by))
    BY <1>1, SafeAsk
  <2>2. Mounted[2] # "apply" /\ (Mounted[3] = "discover" => Mounted[2] = "models")
    BY DEF Mounted
  <2>3. Safe(op, ask(op, Mounted[2], arg, Mounted[3]))
    BY <2>1, <2>2
  <2>4. Event(Mounted[1], ask(op, Mounted[2], arg, Mounted[3]))
    BY <1>12 DEF Mount
  <2> QED
    BY <1>2, <2>3, <2>4, EventSafe
<1>13. CASE Leave
  BY <1>1, <1>2, <1>13, QuietSafe DEF Leave
<1>14. CASE \E c \in Call : Answer(c)
  BY <1>1, <1>14, AnswerSafe, SafeFew
<1> QED
  BY <1>3, <1>4, <1>5, <1>6, <1>7, <1>8, <1>9, <1>10, <1>11, <1>12, <1>13, <1>14
     DEF PageNext, SetupNext, ModelsNext

\* as are those of the other callers.
LEMMA OthersFew ==
  ASSUME Typed, FewCalls, OthersStep
  PROVE  FewCalls'
<1>1. IsOps(op)
  BY DEF Typed
<1>2. ASSUME NEW kind, NEW arg \in otherArgs(kind), Send(kind, arg)
      PROVE  FewCalls'
  <2>1. kind = "apply" => Few(arg.models)
    <3>1. SUFFICES ASSUME kind = "apply" PROVE Few(arg.models)
      OBVIOUS
    <3>2. PICK ids \in {s \in SUBSET ModelIds : IsFiniteSet(s)} : \E b : DOMAIN arg.models = ids
      BY <1>2, <3>1 DEF otherArgs
    <3> QED
      BY <3>2 DEF Few
  <2>2. op' = ask(op, kind, arg, "other") /\ exch' = exch
    BY <1>2 DEF Send, ask, clientVars
  <2> QED
    BY <1>1, <2>1, <2>2, SafeAsk, SafeFew
<1>3. ASSUME NEW c \in Call, Forget(c)
      PROVE  FewCalls'
  BY <1>1, <1>3, SafeFree, SafeFew DEF Forget, Consumed
<1>4. ASSUME NEW c \in Call, Abort(c)
      PROVE  FewCalls'
  <2> DEFINE r == [op[c] EXCEPT !.abort = TRUE]
  <2>1. IsCall(op[c]) /\ FewPair(op[c], exch[c])
    BY <1>1 DEF IsOps, FewCalls
  <2>2. op' = [op EXCEPT ![c] = r] /\ exch' = exch
    BY <1>4 DEF Abort, clientVars
  <2>3. r.kind = op[c].kind /\ r.pc = op[c].pc /\ r.by = op[c].by /\ r.cur = op[c].cur /\ r.arg = op[c].arg
        /\ r.out = op[c].out
    BY <2>1 DEF IsCall, CallFields
  <2> HIDE DEF r
  <2>4. FewPair(r, exch[c])
    BY <2>1, <2>3 DEF FewPair, FewCall
  <2> QED
    BY <2>2, <2>4, ChangeFew
<1>5. CASE OtherWrites \/ RuntimeExits
  BY <1>5, SameFew DEF OtherWrites, RuntimeExits, clientVars
<1> QED
  BY <1>2, <1>3, <1>4, <1>5 DEF OthersStep

\* Every step keeps the models of the calls few.
LEMMA StepFew ==
  ASSUME CallsGood(op), Typed, ClientInv, FewCalls, FewPage, [Next]_vars
  PROVE  FewCalls'
<1>1. CASE HostNext(view \in Detailed)
  <2>1. CASE LoginEnds
    BY <2>1, SameFew DEF LoginEnds, clientVars
  <2> QED
    BY <1>1, <2>1, HandlerFew, ClientFew DEF HostNext
<1>2. CASE UNCHANGED vars
  BY <1>2, SameFew DEF vars, hostVars, clientVars
<1> QED
  BY <1>1, <1>2, PageSafe, OthersFew DEF Next

-----------------------------------------------------------------------------
(* The models that a page shows: its steps keep them,                        *)
LEMMA SetupModels ==
  ASSUME IsPage(SetupFields, page), SetupNext \/ PollFires
  PROVE  page'.models = page.models
<1> DEFINE F == SetupFields
<1>1. \A p, o : Event(p, o) => page' = p
  BY DEF Event
<1>2. \A kind, arg, by, p : Ask(kind, arg, by, p) \/ AskAgain(kind, arg, by, p) => page' = p
  BY <1>1 DEF Ask, AskAgain
<1>3. "models" \in F
  BY DEF SetupFields
<1>4. CASE SetupRefresh \/ SetupLogin \/ SetupCancelLogin \/ SetupApply \/ \E kind \in {"install", "start"} : SetupRuntime(kind)
  <2>1. page' = [page EXCEPT !.status = "loading"] \/ \E kind : page' = [page EXCEPT !.busy = kind]
    BY <1>2, <1>4 DEF SetupRefresh, SetupLogin, SetupCancelLogin, SetupApply, SetupRuntime, Busy
  <2> QED
    BY <1>3, <2>1 DEF IsPage
<1>5. CASE SetupDiscover
  <2>1. page' = [[page EXCEPT !.busy = "discover"] EXCEPT !.phase = "loading", !.applied = FALSE]
    BY <1>2, <1>5 DEF SetupDiscover, Busy
  <2> QED
    BY <1>3, <2>1 DEF IsPage
<1>6. CASE SetupProbe
  <2>1. \/ page' = [page EXCEPT !.probe = "error"]
        \/ \E m : page' = [[page EXCEPT !.busy = "probe"] EXCEPT !.probe = "running", !.ran = m, !.result = None]
    BY <1>1, <1>2, <1>6 DEF SetupProbe, Busy
  <2> QED
    BY <1>3, <2>1 DEF IsPage
<1>7. CASE SetupCancelProbe
  <2>1. page' = [page EXCEPT !.probe = "cancelled", !.result = None, !.busy = None]
    BY <1>1, <1>7 DEF SetupCancelProbe
  <2> QED
    BY <1>3, <2>1 DEF IsPage
<1>8. CASE PollFires
  <2>1. page' = [page EXCEPT !.poll = "off"]
    BY <1>1, <1>8 DEF PollFires
  <2> QED
    BY <1>3, <2>1 DEF IsPage
<1> QED
  BY <1>4, <1>5, <1>6, <1>7, <1>8 DEF SetupNext

LEMMA ModelsModels ==
  ASSUME IsPage(ModelsFields, page), ModelsNext
  PROVE  DOMAIN page'.models = DOMAIN page.models
<1>1. \A p, o : Event(p, o) => page' = p
  BY DEF Event
<1>2. \A kind, arg, by, p : Ask(kind, arg, by, p) \/ AskAgain(kind, arg, by, p) => page' = p
  BY <1>1 DEF Ask, AskAgain
<1>3. "models" \in ModelsFields
  BY DEF ModelsFields
<1>4. CASE ModelsRefresh \/ ModelsApply
  <2>1. page' = [page EXCEPT !.phase = "loading"] \/ page' = [page EXCEPT !.busy = "apply"]
    BY <1>2, <1>4 DEF ModelsRefresh, ModelsApply, Busy
  <2> QED
    BY <1>3, <2>1 DEF IsPage
<1>5. CASE \E m \in ModelIds : ModelsToggle(m)
  <2>1. PICK m : page' = [page EXCEPT !.models[m] = ~@]
    BY <1>1, <1>5 DEF ModelsToggle
  <2> DEFINE models == [page.models EXCEPT ![m] = ~@]
  <2>2. DOMAIN models = DOMAIN page.models
    OBVIOUS
  <2>3. page' = [page EXCEPT !.models = models]
    BY <2>1
  <2> HIDE DEF models
  <2>4. page'.models = models
    BY <1>3, <2>3 DEF IsPage
  <2> QED
    BY <2>2, <2>4
<1> QED
  BY <1>4, <1>5 DEF ModelsNext

\* an answer leaves them or brings those it was given,
LEMMA AnswerModels ==
  ASSUME CallsGood(op), FewCalls, NEW c \in Call, NEW o, AnswerTo(c, o), Own(op[c]),
         \/ view = "setup" /\ SetupGood(page, op)
         \/ view = "models" /\ ModelsGood(page, op),
         Few(page.models)
  PROVE  Few(page'.models)
<1> DEFINE by == op[c].by
<1>1. o.by = by /\ by = Role(op[c]) /\ op[c].cur
  BY DEF AnswerTo, Own, Role
<1>2. by = "discover" /\ o.out.ok => Few(o.out.val.models)
  BY <1>1 DEF FewCalls, FewPair, FewCall, AnswerTo
<1> HIDE DEF by
<1>3. CASE view = "setup" /\ SetupGood(page, op)
  <2> DEFINE F == SetupFields
  <2>1. IsPage(F, page) /\ page' = setupReact(page, o) /\ by \in SetupBys
    BY <1>1, <1>3 DEF SetupGood, Only, AnswerTo, react
  <2>2. "models" \in F
    BY DEF SetupFields
  <2>3. \A p : IsPage(F, p) => IsPage(F, idle(p)) /\ idle(p).models = p.models
    BY <2>2 DEF IsPage, idle
  <2>4. CASE by = "discover"
    <3> DEFINE p == withModels(page, o.out, "error")
    <3>1. page' = idle(p)
      BY <1>1, <2>1, <2>4 DEF setupReact
    <3>2. IsPage(F, p) /\ (p.models = page.models \/ (o.out.ok /\ p.models = o.out.val.models))
      BY <2>1, <2>2 DEF withModels, IsPage
    <3> HIDE DEF p
    <3> QED
      BY <1>2, <2>3, <2>4, <3>1, <3>2
  <2>5. CASE by # "discover"
    <3>1. CASE by = "status"
      <4>1. page' = withStatus(page, o.out)
        BY <1>1, <2>1, <3>1 DEF setupReact
      <4> QED
        BY <2>1, <2>2, <4>1 DEF withStatus, IsPage
    <3>2. CASE by \in {"install", "start"}
      <4> DEFINE p == IF o.out.ok THEN [page EXCEPT !.runtime = o.out.val] ELSE page
                 q == IF o.out.ok THEN [page EXCEPT !.runtime = o.out.val, !.status = "loading"] ELSE page
      <4>1. page' = idle(p) \/ page' = idle(q)
        BY <1>1, <2>1, <3>2 DEF setupReact
      <4>2. IsPage(F, p) /\ p.models = page.models /\ IsPage(F, q) /\ q.models = page.models
        BY <2>1, <2>2 DEF IsPage
      <4> HIDE DEF p, q
      <4> QED
        BY <2>3, <4>1, <4>2
    <3>3. CASE by \in {"login", "cancel", "poll"}
      <4>1. page' = idle(withLogin(page, o.out)) \/ page' = withPolled(page, o.out)
        BY <1>1, <2>1, <3>3 DEF setupReact
      <4>2. IsPage(F, withLogin(page, o.out)) /\ withLogin(page, o.out).models = page.models
            /\ withPolled(page, o.out).models = page.models
        BY <2>1, <2>2 DEF IsPage, withLogin, withPolled
      <4> QED
        BY <2>3, <4>1, <4>2
    <3>4. CASE by = "apply"
      <4> DEFINE w == withApplied(page, o)
                 p == [page EXCEPT !.phase = "error"]
                 q == [w EXCEPT !.applied = @ \/ o.out.ok]
      <4>1. page' = idle(p) \/ page' = idle(q)
        BY <1>1, <2>1, <3>4 DEF setupReact
      <4>2. IsPage(F, w) /\ w.models = page.models
        BY <2>1, <2>2 DEF IsPage, withApplied
      <4> HIDE DEF w
      <4>3. IsPage(F, p) /\ p.models = page.models /\ IsPage(F, q) /\ q.models = page.models
        BY <2>1, <2>2, <4>2 DEF IsPage
      <4> HIDE DEF p, q
      <4> QED
        BY <2>3, <4>1, <4>3
    <3>5. CASE by = "probe"
      <4> DEFINE p == withProbe(page, o.out)
      <4>1. page' = idle(p)
        BY <1>1, <2>1, <3>5 DEF setupReact
      <4>2. IsPage(F, p) /\ p.models = page.models
        BY <2>1, <2>2 DEF IsPage, withProbe
      <4> HIDE DEF p
      <4> QED
        BY <2>3, <4>1, <4>2
    <3> QED
      BY <2>1, <2>5, <3>1, <3>2, <3>3, <3>4, <3>5 DEF SetupBys
  <2> QED
    BY <2>4, <2>5
<1>4. CASE view = "models" /\ ModelsGood(page, op)
  <2> DEFINE F == ModelsFields
  <2>1. IsPage(F, page) /\ page' = modelsReact(page, o) /\ by \in {"discover", "apply"}
    BY <1>1, <1>4 DEF ModelsGood, Only, AnswerTo, react
  <2>2. "models" \in F
    BY DEF ModelsFields
  <2>3. CASE by = "discover"
    <3> DEFINE p == withModels(page, o.out, "offline")
    <3>1. page' = p
      BY <1>1, <2>1, <2>3 DEF modelsReact
    <3>2. p.models = page.models \/ (o.out.ok /\ p.models = o.out.val.models)
      BY <2>1, <2>2 DEF withModels, IsPage
    <3> HIDE DEF p
    <3> QED
      BY <1>2, <2>3, <3>1, <3>2
  <2>4. CASE by = "apply"
    <3> DEFINE w == withApplied(page, o)
               p == IF conflicted(o) THEN [page EXCEPT !.phase = "loading"] ELSE w
    <3>1. page' = idle(p)
      BY <1>1, <2>1, <2>4 DEF modelsReact
    <3>2. IsPage(F, w) /\ w.models = page.models
      BY <2>1, <2>2 DEF IsPage, withApplied
    <3> HIDE DEF w
    <3>3. IsPage(F, p) /\ p.models = page.models
      BY <2>1, <2>2, <3>2 DEF IsPage
    <3> HIDE DEF p
    <3> QED
      BY <2>2, <3>1, <3>3 DEF IsPage, idle
  <2> QED
    BY <2>1, <2>3, <2>4
<1> QED
  BY <1>3, <1>4

\* and so they stay few.
LEMMA StepPageFew ==
  ASSUME NoneIsNull, PagesInv, FewInv, [Next]_vars
  PROVE  FewPage'
<1>1. view' = view
  BY ViewStays
<1>2. page' = page => FewPage'
  BY <1>1 DEF FewInv, FewPage
<1> SUFFICES ASSUME PageNext, view \in {"setup", "models"}, page' # None, page' # page
             PROVE  Few(page'.models)
  BY <1>1, <1>2 DEF FewPage, Next, OthersStep, pageVars, vars
<1>3. CASE Mount
  <2>1. page' = SetupInit \/ page' = ModelsInit
    BY <1>3 DEF Mount, Mounted, Event
  <2>2. SetupInit.models = <<>> /\ ModelsInit.models = <<>>
    BY DEF SetupInit, ModelsInit, NoModels
  <2>3. page'.models = <<>>
    BY <2>1, <2>2
  <2>4. DOMAIN <<>> = {} /\ IsFiniteSet({})
    BY FS_EmptySet
  <2> QED
    BY <2>3, <2>4 DEF Few
<1>4. CASE page # None /\ ~Mount /\ ~(\E c \in Call : Answer(c))
  <2>1. /\ PageGood(page, op) /\ Few(page.models)
    BY <1>4 DEF PagesInv, FewInv, FewPage
  <2>2. \/ view = "setup" /\ IsPage(SetupFields, page)
        \/ view = "models" /\ IsPage(ModelsFields, page)
    BY <2>1 DEF PageGood, SetupGood, ModelsGood
  <2>3. ~Leave
    BY DEF Leave, Event
  <2>4. ~SettingsNext /\ ~PlaygroundNext /\ ~RequestsNext
    BY DEF SettingsNext, SettingsRuntime, SettingsRefresh, SettingsLogin, SettingsCancelLogin,
           PlaygroundNext, PlaygroundSelect, PlaygroundChoose, PlaygroundRead, PlaygroundRemove, PlaygroundRun,
           PlaygroundCancel, RequestsNext, RequestsMore, RequestsQuery, Shows
  <2>5. ~ReadsRefresh /\ ~DashboardPoll
    BY DEF ReadsRefresh, DashboardPoll, Shows
  <2>6. SetupNext => view = "setup"
    BY DEF SetupNext, SetupRuntime, SetupRefresh, SetupLogin, SetupCancelLogin,
           SetupDiscover, SetupApply, SetupProbe, SetupCancelProbe, SetupAt, Shows
  <2>7. ModelsNext => view = "models"
    BY DEF ModelsNext, ModelsRefresh, ModelsToggle, ModelsApply, Shows
  <2>8. PollFires => view = "setup"
    BY DEF PollFires
  <2>9. SetupNext \/ ModelsNext \/ PollFires
    BY <1>4, <2>3, <2>4, <2>5 DEF PageNext
  <2>10. DOMAIN page'.models = DOMAIN page.models
    BY <2>2, <2>6, <2>7, <2>8, <2>9, SetupModels, ModelsModels
  <2> QED
    BY <2>1, <2>10 DEF Few
<1>5. ASSUME NEW c \in Call, Answer(c)
      PROVE  Few(page'.models)
  <2>1. CallsGood(op)
    BY DEF PagesInv
  <2>2. PICK o : Own(op[c]) /\ AnswerTo(c, o)
    BY <1>5, <2>1, AnswerIs
  <2>3. PageGood(page, op)
    BY <2>2 DEF PagesInv, Only
  <2>4. page # None
    BY <2>3, PageIsSomething
  <2>5. \/ view = "setup" /\ SetupGood(page, op)
        \/ view = "models" /\ ModelsGood(page, op)
    BY <2>3 DEF PageGood
  <2> QED
    BY <2>1, <2>2, <2>4, <2>5, AnswerModels DEF FewInv, FewPage
<1>6. page = None => Mount \/ \E c \in Call : Answer(c)
  BY DEF PageNext, SetupNext, SetupRuntime, SetupRefresh, SetupLogin, SetupCancelLogin,
         SetupDiscover, SetupApply, SetupProbe, SetupCancelProbe, SetupAt, SettingsNext,
         SettingsRuntime, SettingsRefresh, SettingsLogin, SettingsCancelLogin, ModelsNext,
         ModelsRefresh, ModelsToggle, ModelsApply, PlaygroundNext, PlaygroundSelect,
         PlaygroundChoose, PlaygroundRead, PlaygroundRemove, PlaygroundRun, PlaygroundCancel,
         RequestsNext, RequestsMore, RequestsQuery, ReadsRefresh, PollFires, PollArmed,
         DashboardPoll, Leave, Shows
<1> QED
  BY <1>3, <1>4, <1>5, <1>6

-----------------------------------------------------------------------------
(* The invariant of the property: the plans (IInv), the pages and their      *)
(* calls (PagesInv), the exchanges (ClientInv), the models on their way      *)
(* (FewInv) and the routes of the settings.                                  *)
AppliesInv == IInv /\ PagesInv /\ ClientInv /\ FewInv /\ RoutesGood

LEMMA CommitSticks ==
  ASSUME NoneIsNull, AppliesInv, [Next]_vars, NEW c \in Call, Commits(c)
  PROVE  Sticks(c)' /\ RoutesGood'
<1>1. Mutate(c)
  BY CommitMutates DEF AppliesInv
<1>2. op[c].kind = "apply"
  BY <1>1 DEF Mutate, At
<1>3. Few(op[c].arg.models)
  BY <1>2 DEF AppliesInv, FewInv, FewCalls, FewPair, FewCall
<1> QED
  BY <1>1, <1>3, MutateSticks DEF AppliesInv

LEMMA StepRoutes ==
  ASSUME NoneIsNull, AppliesInv, [Next]_vars
  PROVE  RoutesGood'
<1>1. IInv /\ IsOps(op) /\ RoutesGood
  BY DEF AppliesInv, IInv
<1>2. CASE settings' = settings
  BY <1>1, <1>2 DEF RoutesGood
<1>3. CASE OtherWrites
  <2>1. IsSection(settings)
    BY <1>1, <1>3 DEF IInv, IsSettings, OtherWrites
  <2>2. PICK r \in WriterRoutes : settings' = [settings EXCEPT !.user = r, !.rev = @ + 1]
    BY <1>3 DEF OtherWrites
  <2>3. settings'.user = r
    BY <2>1, <2>2 DEF IsSection, SettingsFields
  <2>4. IsUser(r)
    BY WriterAssumption DEF IsUser
  <2> QED
    BY <2>3, <2>4 DEF RoutesGood
<1>4. ASSUME NEW c \in Call, Mutate(c), settings' # settings
      PROVE  RoutesGood'
  <2>1. op[c].pc = "mutate" /\ go(c, "reread", op[c].loc)
    BY <1>4 DEF Mutate, At
  <2>2. op'[c].pc = "reread"
    BY <1>1, <2>1 DEF go, IsOps, IsCall, CallFields
  <2>3. Commits(c)
    BY <2>1, <2>2 DEF Commits
  <2> QED
    BY <2>3, CommitSticks
<1>5. ASSUME NEW c \in Call, Apply(c)
      PROVE  settings' = settings
  BY <1>5 DEF Apply, only, hostState
<1> QED
  BY <1>1, <1>2, <1>3, <1>4, <1>5, StepKinds DEF CalmStep

LEMMA StepApplies ==
  ASSUME NoneIsNull, AppliesInv, [Next]_vars
  PROVE  AppliesInv' /\ [\A c \in Call : Commits(c) => Sticks(c)']_hostVars
<1>1. IInv' /\ PagesInv' /\ ClientInv'
  BY StepInv, StepPages, StepHolds DEF AppliesInv, ClientHolds
<1>2. Typed /\ CallsGood(op)
  BY DEF AppliesInv, IInv, ClientInv, PagesInv, Typed
<1>3. FewInv'
  BY <1>2, StepFew, StepPageFew DEF AppliesInv, FewInv
<1>4. RoutesGood'
  BY StepRoutes
<1>5. \A c \in Call : Commits(c) => Sticks(c)'
  BY CommitSticks
<1> QED
  BY <1>1, <1>3, <1>4, <1>5 DEF AppliesInv

LEMMA InitApplies ==
  ASSUME NEW desc, IsSettings(desc), desc # None => IsUser(desc.user), NEW records,
         NEW keys, NEW mode, NEW state, NEW connected,
         HostInit(desc, keys, mode, state, connected), ClientInit(records), page = None
  PROVE  AppliesInv
<1>1. IInv /\ PagesInv /\ ClientInv
  BY InitIInv, InitPages, InitClientInv
<1>2. \A c \in Call : op[c] = Free /\ exch[c] = Idle
  BY DEF HostInit, ClientInit, Call
<1>3. Free.kind = "none" /\ Free.by = "none"
  BY DEF Free
<1>4. FewExch(Idle) /\ FewCall(Free)
  BY <1>3, OpenedBlank DEF FewCall
<1>5. FewInv
  BY <1>2, <1>3, <1>4 DEF FewInv, FewCalls, FewPair, FewPage
<1>6. RoutesGood
  BY DEF HostInit, RoutesGood
<1> QED
  BY <1>1, <1>5, <1>6 DEF AppliesInv

(* ApplySticks, for any endpoint, catalogs of finitely many models, routes of *)
(* other writers, number of calls and order of their answers: what            *)
(* applyModels wrote is what it planned.  Planned again it changes nothing,   *)
(* and with a model the provider counts as configured (applyModels,           *)
(* planCpaProviderSettings, cpaProviderConfigured).                           *)
THEOREM ApplyHolds ==
  ASSUME NoneIsNull, NEW desc, IsSettings(desc), desc # None => IsUser(desc.user), NEW records,
         NEW keys, NEW mode, NEW state, NEW connected
  PROVE  /\ HostInit(desc, keys, mode, state, connected) /\ ClientInit(records) /\ page = None
         /\ [][Next]_vars
         => ApplySticks
<1>1. HostInit(desc, keys, mode, state, connected) /\ ClientInit(records) /\ page = None => AppliesInv
  BY InitApplies
<1>2. AppliesInv /\ [Next]_vars => AppliesInv'
  BY StepApplies
<1>3. AppliesInv /\ [Next]_vars => [\A c \in Call : Commits(c) => Sticks(c)']_hostVars
  BY StepApplies
<1> QED
  BY <1>1, <1>2, <1>3, PTL DEF ApplySticks
=============================================================================
