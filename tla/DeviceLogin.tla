----------------------------- MODULE DeviceLogin -----------------------------
(***************************************************************************)
(* Codex device login: CodexDeviceLoginManager                             *)
(* (packages/gateway/src/host/oauth/manager.ts) and the manager slot of    *)
(* GatewayHostService (gateway-service.ts) behind the remotes              *)
(* oauthDeviceStart, oauthDeviceStatus and oauthDeviceCancel.              *)
(*                                                                         *)
(* An element of Call is one oauthDeviceStart() call.  It names the login  *)
(* process it may spawn and the manager it may create.  A call runs        *)
(* without interruption to the next await of something that takes time:    *)
(* the join of a process and the ready promise.  Time is abstract: an      *)
(* armed timer may fire at any moment.                                     *)
(***************************************************************************)
CONSTANTS
  Call,      \* the calls of oauthDeviceStart
  Prints,    \* the kinds of line a login process prints
  None

Fields   == {"uri", "code"}
Verdicts == {"success", "failed", "denied", "expired", "cancelled"}

(* "other" is a line the parser ignores, "invalid" one it throws at. *)
ASSUME ConstAssumption ==
  /\ None \notin Call
  /\ Prints \subseteq Fields \cup Verdicts \cup {"other", "invalid"}

VARIABLES
  slot,      \* GatewayHostService.oauth: the call that created the manager
  manager,   \* the managers, by the call that created them
  login,     \* the operations, by the call that started them
  pc,        \* where each call stands
  joining,   \* the manager whose dispose() a call awaits
  unloading, \* the disposal of the plugin: "no", "joining" or "done"
  retired    \* the manager whose dispose() the plugin's disposal awaits

vars == <<slot, manager, login, pc, joining, unloading, retired>>

Final  == Verdicts \cup {"timed_out"}
States == {"starting", "pending"} \cup Final

(* terminationPromise is undefined while child is "running", unsettled while  *)
(* it is "terminating", and settled once it is "exited" or "abandoned": then  *)
(* terminate() or waitForExit() failed, or waitForExit() gave up, and the     *)
(* process may live on.                                                      *)
Operation ==
  [manager  : Call \cup {None},
   state    : States,
   fields   : SUBSET Fields,  \* what the parser has found
   ready    : {"unsettled", "resolved", "rejected"},
   terminal : BOOLEAN,
   timer    : {"none", "startup", "expiry"},
   child    : {"none", "running", "terminating", "exited", "abandoned"},
   stream   : {"open", "ended"}]

Manager == [operation : Call \cup {None}, disposed : BOOLEAN]

NoLogin == [manager |-> None, state |-> "starting", fields |-> {},
            ready |-> "unsettled", terminal |-> FALSE, timer |-> "none",
            child |-> "none", stream |-> "open"]

NewManager == [operation |-> None, disposed |-> FALSE]

Init ==
  /\ slot = None
  /\ manager = [c \in Call |-> NewManager]
  /\ login = [c \in Call |-> NoLogin]
  /\ pc = [c \in Call |-> "idle"]
  /\ joining = [c \in Call |-> None]
  /\ unloading = "no"
  /\ retired = None

Exists(o)  == login[o].child # "none"
Settled(r) == r.child \in {"exited", "abandoned"}
Current(m) == manager[m].operation

-----------------------------------------------------------------------------
(* The manager's helpers, on one operation *)

(* terminateAndWait() up to its await; without effect once called. *)
Terminated(r) ==
  [r EXCEPT !.child = IF @ = "running" THEN "terminating" ELSE @]

(* rejectReady() *)
Rejected(r) ==
  [r EXCEPT !.ready = IF @ = "unsettled" THEN "rejected" ELSE @]

Ended(r, state) ==
  Terminated(Rejected([r EXCEPT !.state = state, !.terminal = TRUE, !.timer = "none"]))

(* Mutant of Failed: a timeout does not terminate the process. *)
FailedTimeoutDetaches(r, state) ==
  IF r.terminal THEN r
  ELSE IF state = "timed_out"
    THEN Rejected([r EXCEPT !.state = state, !.terminal = TRUE, !.timer = "none"])
    ELSE Ended(r, state)

(* Mutant of Failed: it does not look at terminal. *)
FailedAgain(r, state) == Ended(r, state)

(* failOperation() *)
Failed(r, state) == IF r.terminal THEN r ELSE Ended(r, state)

(* scheduleExpiry() *)
Scheduled(r) == [r EXCEPT !.timer = IF r.terminal THEN @ ELSE "expiry"]

(* Mutants of Shown: the startup timer is cleared and no other is set; the    *)
(* kind of the event is taken for the state.                                 *)
ShownUntimed(r) ==
  IF r.ready = "unsettled"
    THEN [r EXCEPT !.state = "pending", !.ready = "resolved", !.timer = "none"]
    ELSE r

ShownAsKind(r) == [r EXCEPT !.state = "ready", !.ready = "resolved"]

(* applyParserEvents(), a ready event: it does not look at terminal. *)
Shown(r) ==
  IF r.ready = "unsettled"
    THEN Scheduled([r EXCEPT !.state = "pending", !.ready = "resolved"])
    ELSE r

(* applyParserEvents(), a state event: success leaves the ready promise as it *)
(* is.                                                                       *)
Told(r, state) ==
  IF r.terminal THEN r
  ELSE IF state = "success"
    THEN Terminated([r EXCEPT !.state = state, !.terminal = TRUE, !.timer = "none"])
    ELSE Ended(r, state)

(* The events of one line, applied. *)
Line(r, line) ==
  IF line \in Fields
    THEN LET f == [r EXCEPT !.fields = @ \cup {line}]
         IN IF f.fields = Fields /\ r.fields # Fields THEN Shown(f) ELSE f
  ELSE IF line \in Verdicts THEN Told(r, line)
  ELSE r

(* The chunk throws: a field or a line is invalid, or its two verdicts differ. *)
Conflict(l1, l2) ==
  l1 = "invalid" \/ l2 = "invalid" \/ ({l1, l2} \subseteq Verdicts /\ l1 # l2)

(* The parser reads a whole chunk before its events are applied. *)
Chunk(r, l1, l2) ==
  IF Conflict(l1, l2) THEN Failed(r, "failed") ELSE Line(Line(r, l1), l2)

-----------------------------------------------------------------------------
(* oauthDeviceStart() *)

Goto(c, to) == pc' = [pc EXCEPT ![c] = to]

Spawned(m) ==
  [NoLogin EXCEPT !.manager = m, !.child = "running", !.timer = "startup"]

(* Mutant of StartOn: a second login is started beside the first. *)
StartOnAnyway(c, m, managers, logins) ==
  /\ manager' = [managers EXCEPT ![m].operation = c]
  /\ login' = [logins EXCEPT ![c] = Spawned(m)]
  /\ Goto(c, "starting")

(* start() of manager m up to its await: a second login is refused, the spawn *)
(* may fail, and so may the attachment to the process's output.              *)
StartOn(c, m, managers, logins) ==
  \/ /\ \/ managers[m].disposed
        \/ managers[m].operation # None /\ ~logins[managers[m].operation].terminal
        \/ TRUE                                    \* spawn() throws
     /\ manager' = managers /\ login' = logins
     /\ Goto(c, "done")
  \/ /\ ~managers[m].disposed
     /\ managers[m].operation # None => logins[managers[m].operation].terminal
     /\ manager' = [managers EXCEPT ![m].operation = c]
     /\ \E r \in {Spawned(m),
                  [Failed(Spawned(m), "failed") EXCEPT !.timer = "startup"]} :
          login' = [logins EXCEPT ![c] = r]
     /\ Goto(c, "starting")

(* The manager is created in the slot and started on. *)
Create(c, managers, logins) ==
  /\ slot' = c
  /\ StartOn(c, c, managers, logins)

(* Mutant of Cancelled: the ready promise is forgotten. *)
CancelledSilently(r) ==
  Terminated([r EXCEPT !.state = IF r.terminal THEN @ ELSE "cancelled", !.terminal = TRUE])

(* dispose() of a manager up to its await, on its operation; the timer is not *)
(* cleared yet.                                                              *)
Cancelled(r) ==
  IF r.terminal THEN Terminated(r)
  ELSE [Ended(r, "cancelled") EXCEPT !.timer = r.timer]

Disposing(m, logins) ==
  LET o == Current(m)
  IN IF o = None THEN logins ELSE [logins EXCEPT ![o] = Cancelled(@)]

(* status(): a login whose device code has expired fails as it is looked at. *)
Expiring(r) ==
  {r} \cup (IF ~r.terminal /\ r.ready = "resolved" THEN {Failed(r, "expired")} ELSE {})

Looked(m) ==
  IF m = None \/ Current(m) = None THEN {login}
  ELSE {[login EXCEPT ![Current(m)] = r] : r \in Expiring(login[Current(m)])}

(* prepareOauthManager(): the slot's manager is kept only if the launch       *)
(* target is the same and its login is in no final state; else it is         *)
(* disposed, which awaits the process if there is one and nobody disposed    *)
(* the manager before.                                                       *)
Start(c) ==
  /\ pc[c] = "idle"
  /\ unloading = "no"
  /\ \E looked \in Looked(slot), same \in BOOLEAN :
       LET kept == /\ slot # None /\ same
                   /\ Current(slot) # None
                   /\ looked[Current(slot)].state \notin Final
           swept == IF slot = None \/ manager[slot].disposed
                      THEN looked ELSE Disposing(slot, looked)
           waits == /\ slot # None /\ ~manager[slot].disposed
                    /\ Current(slot) # None
                    /\ ~Settled(swept[Current(slot)])
           managers == IF slot = None THEN manager
                       ELSE [manager EXCEPT ![slot].disposed = TRUE]
       IN \/ kept /\ StartOn(c, slot, manager, looked) /\ UNCHANGED <<slot, joining>>
          \/ ~kept /\ ~waits /\ Create(c, managers, swept) /\ UNCHANGED joining
          \/ /\ ~kept /\ waits
             /\ manager' = managers
             /\ login' = swept
             /\ joining' = [joining EXCEPT ![c] = slot]
             /\ Goto(c, "disposing")
             /\ UNCHANGED slot
  /\ UNCHANGED <<unloading, retired>>

(* The old manager's process was joined; dispose() clears its timer. *)
Joined(m) == \A o \in Call : Current(m) = o => Settled(login[o])

Swept(m) == [o \in Call |->
  IF Current(m) = o THEN [login[o] EXCEPT !.timer = "none"] ELSE login[o]]

Replace(c) ==
  /\ pc[c] = "disposing"
  /\ Joined(joining[c])
  /\ Create(c, manager, Swept(joining[c]))
  /\ UNCHANGED <<joining, unloading, retired>>

(* start() resumes: the ready promise is resolved, or it is rejected and the  *)
(* process that was told to end has been joined.                             *)
StartReturns(c) ==
  /\ pc[c] = "starting"
  /\ \/ login[c].ready = "resolved"
     \/ login[c].ready = "rejected" /\ Settled(login[c])
  /\ Goto(c, "done")
  /\ login' = IF login[c].ready = "resolved" /\ ~login[c].terminal
                THEN [login EXCEPT ![c] = Scheduled([@ EXCEPT !.state = "pending"])]
                ELSE login
  /\ UNCHANGED <<slot, manager, joining, unloading, retired>>

-----------------------------------------------------------------------------
(* The other remotes and the disposal of the plugin *)

(* oauthDeviceStatus() *)
Status ==
  /\ slot # None
  /\ \E looked \in Looked(slot) : login' = looked
  /\ UNCHANGED <<slot, manager, pc, joining, unloading, retired>>

(* oauthDeviceCancel() *)
Cancel ==
  /\ slot # None /\ ~manager[slot].disposed
  /\ Current(slot) # None
  /\ ~login[Current(slot)].terminal
  /\ login' = [login EXCEPT ![Current(slot)] = Ended(@, "cancelled")]
  /\ UNCHANGED <<slot, manager, pc, joining, unloading, retired>>

(* The effect of the constructor: the slot's manager is disposed, unless a    *)
(* call did that before, and the slot emptied, whatever it holds by then.    *)
Unload ==
  /\ unloading = "no"
  /\ slot # None /\ ~manager[slot].disposed
  /\ unloading' = "joining"
  /\ retired' = slot
  /\ manager' = [manager EXCEPT ![slot].disposed = TRUE]
  /\ login' = Disposing(slot, login)
  /\ UNCHANGED <<slot, pc, joining>>

UnloadAtOnce ==
  /\ unloading = "no"
  /\ slot # None => manager[slot].disposed
  /\ unloading' = "done"
  /\ slot' = None
  /\ UNCHANGED <<manager, login, pc, joining, retired>>

Unloaded ==
  /\ unloading = "joining"
  /\ Joined(retired)
  /\ unloading' = "done"
  /\ slot' = None
  /\ login' = Swept(retired)
  /\ UNCHANGED <<manager, pc, joining, retired>>

-----------------------------------------------------------------------------
(* What happens to an operation *)

Becomes(o, r) ==
  /\ login' = [login EXCEPT ![o] = r]
  /\ UNCHANGED <<slot, manager, pc, joining, unloading, retired>>

(* A chunk of one or two lines is read; a terminal operation ignores it. *)
Output(o) ==
  /\ Exists(o) /\ login[o].stream = "open"
  /\ ~login[o].terminal
  /\ \E l1, l2 \in Prints : Becomes(o, Chunk(login[o], l1, l2))

(* The output ends, or cannot be read: with its last line read (Output), a    *)
(* login that has not shown its code has failed.                             *)
OutputEnds(o) ==
  /\ Exists(o) /\ login[o].stream = "open"
  /\ \E broken \in BOOLEAN :
       Becomes(o, [IF broken \/ login[o].ready = "unsettled"
                     THEN Failed(login[o], "failed") ELSE login[o]
                   EXCEPT !.stream = "ended"])

(* The startup timer, or the expiry timer, fires. *)
TimerFires(o) ==
  /\ login[o].timer # "none" /\ ~login[o].terminal
  /\ \E state \in {"timed_out", "expired"} :
       /\ login[o].timer = "startup" => state = "timed_out"
       /\ Becomes(o, Failed(login[o], state))

(* The process ends, or could never be spawned.  monitorDone(): whatever its  *)
(* exit code, a login that saw no verdict has failed.                        *)
ChildExits(o) ==
  /\ login[o].child \in {"running", "terminating", "abandoned"}
  /\ Becomes(o, Failed([login[o] EXCEPT !.child = "exited"], "failed"))

(* terminate() throws, waitForExit() rejects, or it resolves with false, which*)
(* nobody looks at: the termination promise settles and the process lives.   *)
JoinFails(o) ==
  /\ login[o].child = "terminating"
  /\ Becomes(o, [login[o] EXCEPT !.child = "abandoned"])

Next ==
  \/ Status \/ Cancel \/ Unload \/ UnloadAtOnce \/ Unloaded
  \/ \E c \in Call :
       \/ Start(c) \/ Replace(c) \/ StartReturns(c)
       \/ Output(c) \/ OutputEnds(c) \/ TimerFires(c) \/ ChildExits(c)
       \/ JoinFails(c)

Spec == Init /\ [][Next]_vars

(* Timers fire, waitForExit() settles, when the process is gone or because it *)
(* failed or gave up, and a call whose await has settled goes on.  No process*)
(* has to print anything or to end by itself.                                *)
FairSpec ==
  /\ Spec
  /\ WF_vars(Unloaded)
  /\ \A c \in Call :
       /\ WF_vars(Replace(c)) /\ WF_vars(StartReturns(c)) /\ WF_vars(TimerFires(c))
       /\ WF_vars(login[c].child = "terminating" /\ (ChildExits(c) \/ JoinFails(c)))

-----------------------------------------------------------------------------
TypeOK ==
  /\ slot \in Call \cup {None}
  /\ manager \in [Call -> Manager]
  /\ login \in [Call -> Operation]
  /\ pc \in [Call -> {"idle", "disposing", "starting", "done"}]
  /\ joining \in [Call -> Call \cup {None}]
  /\ unloading \in {"no", "joining", "done"}
  /\ retired \in Call \cup {None}

(* docs/evidence/phase-3.md: "The manager now terminates and joins on every   *)
(* parsed terminal state".  However output, timers, cancel(), dispose() and   *)
(* the exit interleave, a process that was not told to end belongs to a login *)
(* that is still underway, and is the one cancel() and dispose() of its       *)
(* manager reach.                                                            *)
RunningIsReachable ==
  \A o \in Call : login[o].child = "running" =>
    /\ ~login[o].terminal
    /\ Current(login[o].manager) = o
    /\ ~manager[login[o].manager].disposed

(* architecture.md: a "bounded device operation".  A login that is underway   *)
(* always has a timer that will end it.                                      *)
ArmedUntilEnded ==
  \A o \in Call : Exists(o) /\ ~login[o].terminal => login[o].timer # "none"

(* The first of timeout, expiry, cancel(), dispose(), exit and verdict decides*)
(* the state, and the later ones leave it (the one exception, which a chunk   *)
(* with the success line before the code makes, is that it shows "pending").  *)
FirstVerdictKept ==
  [][\A o \in Call : login[o].terminal =>
       \/ login'[o].state = login[o].state
       \/ login[o].ready = "unsettled"]_vars

(* Every login ends, its process gone or given up by terminate() and          *)
(* waitForExit(), never merely forgotten; and every oauthDeviceStart()        *)
(* returns or throws, unless the success line came before the code: then      *)
(* nothing settles the ready promise.                                         *)
EveryLoginEnds ==
  \A c \in Call :
    /\ Exists(c) ~> (login[c].terminal /\ Settled(login[c]))
    /\ pc[c] \in {"disposing", "starting"} ~>
         \/ pc[c] = "done"
         \/ login[c].state = "success" /\ login[c].ready = "unsettled"

(* architecture.md, oauthDeviceCancel: "cancellation of the bounded device    *)
(* operation".  A login process that was not told to end is in the manager    *)
(* that cancel and the disposal of the plugin go through.                    *)
RunningIsInSlot ==
  \A o \in Call : login[o].child = "running" => login[o].manager = slot
=============================================================================
