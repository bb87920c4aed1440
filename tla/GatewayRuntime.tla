---------------------------- MODULE GatewayRuntime ----------------------------
(***************************************************************************)
(* GatewayRuntime (packages/runtime/src/index.ts): the lifecycle of one    *)
(* managed CPA process, or of one external endpoint.                       *)
(*                                                                         *)
(* An element of Inst is one GatewayRuntime in an OS process of its own;   *)
(* the instances share a DSH home: the owner lock and managed.yaml.  An    *)
(* element of Call is one call of install(), start(), stop(), restart() or *)
(* dispose() on its instance.  JavaScript runs a call without interruption *)
(* from one await to the next, so pc names the await a call is suspended   *)
(* at, and an action runs the call from there to its next await.  What is  *)
(* awaited may fail wherever the code awaits it, the removal of            *)
(* managed.yaml included: files, hashes, probes and credentials are not    *)
(* modelled beyond success and failure.                                    *)
(*                                                                         *)
(* Two things are assumed of what the class is given.  The owner lock is   *)
(* the ideal one (see OwnerLock for what the lock file does), and its      *)
(* release() does not throw.  The subprocess service's waitForExit()       *)
(* settles only once the process is gone; terminateAndJoin() would take    *)
(* its rejection for the end of the process too.                           *)
(***************************************************************************)
EXTENDS Naturals, FiniteSets

CONSTANTS
  Inst,    \* the runtime instances that share the home
  Call,    \* the calls; a call that spawns a process also names that process
  InstOf,  \* the instance each call is made on
  Ops,     \* the operations callers use
  Modes,   \* the modes an instance may be configured with
  None

ASSUME ConstAssumption ==
  /\ InstOf \in [Call -> Inst]
  /\ Ops \subseteq {"install", "start", "stop", "restart", "dispose"}
  /\ Modes \subseteq {"managed", "external"}
  /\ None \notin Inst \cup Call \cup {"install", "start", "stop", "restart", "dispose"}

VARIABLES
  mode,    \* config.mode of each instance
  rt,      \* the private fields of each instance
  lock,    \* the instance whose record is in the lock file, or None
  config,  \* the instance that wrote managed.yaml, or None: absent
  child,   \* the process each call spawned
  pc,      \* the await each call is suspended at
  op,      \* the operation of each call
  joining, \* "handle" of stop() and failManaged(): the process joined
  pending  \* "pendingStart" of stop(): the start it waits for

vars == <<mode, rt, lock, config, child, pc, op, joining, pending>>

State == {"disabled", "stopped", "starting", "ready", "degraded", "stopping", "failed"}

ALLOWED_TRANSITIONS ==
  {<<"disabled", "stopped">>,
   <<"stopped", "starting">>, <<"stopped", "disabled">>,
   <<"starting", "ready">>, <<"starting", "degraded">>,
   <<"starting", "stopping">>, <<"starting", "failed">>,
   <<"ready", "degraded">>, <<"ready", "stopping">>, <<"ready", "failed">>,
   <<"degraded", "starting">>, <<"degraded", "stopping">>,
   <<"degraded", "stopped">>, <<"degraded", "failed">>,
   <<"stopping", "stopped">>, <<"stopping", "disabled">>, <<"stopping", "failed">>,
   <<"failed", "starting">>, <<"failed", "stopping">>,
   <<"failed", "stopped">>, <<"failed", "disabled">>}

CanMove(from, to) == from = to \/ <<from, to>> \in ALLOWED_TRANSITIONS

(* transition(): where it throws, the state stays what it is. *)
Move(r, to) == IF CanMove(r.state, to) THEN [r EXCEPT !.state = to] ELSE r

StartPC   == {"load", "acquire", "portprobe", "configure", "readiness",
              "failjoin", "failrelease", "failremove", "validate", "probe"}
StopPC    == {"stopidle", "stopjoin", "stopwait", "stoprelease", "stopremove"}
InstallPC == {"prepare", "insacquire", "inswork", "insrelease"}
(* A call of AbortedPC was rejected before it could set the state it owes. *)
AbortedPC == {"startaborted", "stopaborted"}
PC        == {"idle", "done"} \cup AbortedPC \cup StartPC \cup StopPC \cup InstallPC

Fields == [state         : State,
           ownerHeld     : BOOLEAN,
           processHandle : Call \cup {None},
           startPromise  : Call \cup {None},
           stopRequested : BOOLEAN,
           disposed      : BOOLEAN]

Init ==
  /\ mode \in [Inst -> Modes]
  /\ rt \in [Inst -> [state         : {"stopped", "disabled"},  \* config.enabled
                      ownerHeld     : {FALSE},
                      processHandle : {None},
                      startPromise  : {None},
                      stopRequested : {FALSE},
                      disposed      : {FALSE}]]
  /\ lock = None
  /\ config = None
  /\ child = [c \in Call |-> "none"]
  /\ pc = [c \in Call |-> "idle"]
  /\ op = [c \in Call |-> None]
  /\ joining = [c \in Call |-> None]
  /\ pending = [c \in Call |-> None]

Live(k) == child[k] \in {"running", "terminating"}

(* The fields of the instance that call c runs on. *)
My(c) == rt[InstOf[c]]

Put(c, r)   == rt' = [rt EXCEPT ![InstOf[c]] = r]
Goto(c, to) == pc' = [pc EXCEPT ![c] = to]

(* handle.terminate(), the handle kept for waitForExit(). *)
Terminate(c, processes, h) ==
  /\ joining' = [joining EXCEPT ![c] = h]
  /\ child' = IF h # None /\ processes[h] = "running"
                THEN [processes EXCEPT ![h] = "terminating"]
                ELSE processes

CallsOf(i) == {c \in Call : InstOf[c] = i}

(* waitForExit() of c has resolved. *)
Joined(c) == pc[c] \in {"failjoin", "stopjoin"} /\ ~Live(joining[c])

(* Every waitForExit() of a process resolves as it ends: the calls that       *)
(* joined it go on before any other event reaches their instance.            *)
JoinsResumed(c) == \A d \in CallsOf(InstOf[c]) : ~Joined(d)

-----------------------------------------------------------------------------
(* Fragments that several operations run between two awaits *)

(* Mutant of DropOwner: ownerHeld stays set. *)
DropOwnerKeepsFlag(c, r, releasing, released) ==
  /\ Put(c, [r EXCEPT !.processHandle = None])
  /\ Goto(c, IF r.ownerHeld THEN releasing ELSE released)

(* The handle is dropped and releaseOwner() called, which awaits the lock's   *)
(* release only if ownerHeld.                                                *)
DropOwner(c, r, releasing, released) ==
  /\ Put(c, [r EXCEPT !.processHandle = None, !.ownerHeld = FALSE])
  /\ Goto(c, IF r.ownerHeld THEN releasing ELSE released)

(* RuntimeOwnerLock.release(): it removes the instance's own record only. *)
ReleaseLock(c) ==
  lock' = IF lock = InstOf[c] THEN None ELSE lock

(* removeManagedConfig(): it removes the file whoever wrote it. *)
RemoveConfig(c) ==
  config' = IF mode[InstOf[c]] = "managed" THEN None ELSE config

(* Mutant of Fail: the lock is given up before the process is joined. *)
FailWithoutJoin(c, r, processes) ==
  /\ Terminate(c, processes, r.processHandle)
  /\ DropOwner(c, r, "failrelease", "failremove")

(* failManaged() up to its first await. *)
Fail(c, r, processes) ==
  /\ Terminate(c, processes, r.processHandle)
  /\ IF r.processHandle # None
       THEN Put(c, r) /\ Goto(c, "failjoin")
       ELSE DropOwner(c, r, "failrelease", "failremove")

(* Mutant of StartEnds: nobody is woken. *)
StartEndsSilently(c, r, how) ==
  /\ Put(c, [r EXCEPT !.startPromise = None])
  /\ Goto(c, how)

(* The start promise of c settles with the fields r.  Its continuations run   *)
(* before any other event: start() clears startPromise, and a stop() that     *)
(* awaits this start drops handle and owner.                                 *)
StartEnds(c, r, how) ==
  LET ended   == [r EXCEPT !.startPromise = None]
      waiters == {s \in Call : pc[s] = "stopwait" /\ pending[s] = c}
      woken   == IF ended.ownerHeld THEN "stoprelease" ELSE "stopremove"
  IN /\ Put(c, IF waiters = {} THEN ended
               ELSE [ended EXCEPT !.processHandle = None, !.ownerHeld = FALSE])
     /\ pc' = [x \in Call |-> IF x = c THEN how
                              ELSE IF x \in waiters THEN woken ELSE pc[x]]

(* start() up to the first await of startManaged() or startExternal(). *)
EnterStart(c, r) ==
  IF /\ ~r.disposed
     /\ r.startPromise = None
     /\ r.state \notin {"disabled", "ready", "stopping"}
    THEN /\ Put(c, [r EXCEPT !.state = "starting", !.stopRequested = FALSE,
                             !.startPromise = c])
         /\ Goto(c, IF mode[InstOf[c]] = "managed" THEN "load" ELSE "validate")
    ELSE Put(c, r) /\ Goto(c, "done")

(* stop() returns to its caller: to the user, to restart() or to dispose(). *)
StopReturns(c, r, o) ==
  CASE o = "stop"    -> Put(c, r) /\ Goto(c, "done")
    [] o = "restart" -> EnterStart(c, r)
    [] o = "dispose" ->
         /\ Put(c, [r EXCEPT !.state = IF @ = "stopped" THEN "disabled" ELSE @,
                             !.disposed = TRUE])
         /\ Goto(c, "done")

(* stop() up to its first await, with the fields r. *)
EnterStop(c, r, o) ==
  \/ /\ r.state \in {"disabled", "stopped"}
     /\ Put(c, r) /\ Goto(c, "stopidle")
     /\ UNCHANGED <<child, joining, pending>>
  \/ /\ r.state = "stopping"
     /\ StopReturns(c, r, o)
     /\ UNCHANGED <<child, joining, pending>>
  \/ /\ r.state \in {"starting", "ready", "degraded", "failed"}
     /\ LET start == IF r.state = "starting" THEN r.startPromise ELSE None
            s == [r EXCEPT !.state = "stopping",
                           !.stopRequested = IF start # None THEN TRUE ELSE @]
        IN /\ pending' = [pending EXCEPT ![c] = start]
           /\ Terminate(c, child, r.processHandle)
           /\ IF r.processHandle # None THEN Put(c, s) /\ Goto(c, "stopjoin")
              ELSE IF start # None      THEN Put(c, s) /\ Goto(c, "stopwait")
              ELSE DropOwner(c, s, "stoprelease", "stopremove")

-----------------------------------------------------------------------------
(* The calls *)

Called(c, o) ==
  /\ pc[c] = "idle"
  /\ JoinsResumed(c)
  /\ o \in Ops
  /\ op' = [op EXCEPT ![c] = o]
  /\ UNCHANGED <<mode, lock, config>>

Start(c) ==
  /\ Called(c, "start")
  /\ EnterStart(c, My(c))
  /\ UNCHANGED <<child, joining, pending>>

Stop(c) ==
  /\ Called(c, "stop")
  /\ EnterStop(c, My(c), "stop")

Rejected(c) == Goto(c, "done") /\ UNCHANGED <<rt, child, joining, pending>>

Restart(c) ==
  /\ Called(c, "restart")
  /\ IF My(c).disposed \/ My(c).state = "disabled"
       THEN Rejected(c)
       ELSE EnterStop(c, My(c), "restart")

Dispose(c) ==
  /\ Called(c, "dispose")
  /\ IF My(c).disposed THEN Rejected(c) ELSE EnterStop(c, My(c), "dispose")

Install(c) ==
  /\ Called(c, "install")
  /\ Goto(c, IF /\ ~My(c).disposed
                /\ mode[InstOf[c]] = "managed"
                /\ My(c).state \notin {"ready", "starting", "stopping"}
               THEN "prepare" ELSE "done")
  /\ UNCHANGED <<rt, child, joining, pending>>

-----------------------------------------------------------------------------
(* startManaged() *)

At(c, here) ==
  /\ pc[c] = here
  /\ Joined(c) \/ JoinsResumed(c)
  /\ UNCHANGED <<mode, op, pending>>

(* The release is verified and the port persisted; acquireOwner() throws if   *)
(* this instance holds the lock already, else it awaits the lock.             *)
Loaded(c) ==
  /\ At(c, "load")
  /\ IF My(c).ownerHeld THEN Fail(c, My(c), child)
     ELSE Goto(c, "acquire") /\ UNCHANGED <<rt, child, joining>>
  /\ UNCHANGED <<lock, config>>

LoadFails(c) ==
  /\ At(c, "load")
  /\ Fail(c, My(c), child)
  /\ UNCHANGED <<lock, config>>

Acquired(c) ==
  /\ At(c, "acquire")
  /\ lock = None
  /\ lock' = InstOf[c]
  /\ LET r == [My(c) EXCEPT !.ownerHeld = TRUE]
     IN IF r.stopRequested THEN Fail(c, r, child)
        ELSE Put(c, r) /\ Goto(c, "portprobe") /\ UNCHANGED <<child, joining>>
  /\ UNCHANGED config

(* Another record is in the lock file, or the file system fails. *)
AcquireFails(c) ==
  /\ At(c, "acquire")
  /\ Fail(c, My(c), child)
  /\ UNCHANGED <<lock, config>>

PortFree(c) ==
  /\ At(c, "portprobe")
  /\ ~My(c).stopRequested
  /\ Goto(c, "configure")
  /\ UNCHANGED <<rt, lock, config, child, joining>>

(* Something answers at the port, or stop() was called. *)
PortProbeFails(c) ==
  /\ At(c, "portprobe")
  /\ Fail(c, My(c), child)
  /\ UNCHANGED <<lock, config>>

(* The configuration is written and the process spawned, whatever            *)
(* stopRequested says; the readiness loop looks at it first.                 *)
Spawned(c) ==
  /\ At(c, "configure")
  /\ config' = InstOf[c]
  /\ LET r == [My(c) EXCEPT !.processHandle = c]
         processes == [child EXCEPT ![c] = "running"]
     IN IF r.stopRequested
          THEN Fail(c, r, processes)
          ELSE Put(c, r) /\ Goto(c, "readiness") /\ child' = processes /\ UNCHANGED joining
  /\ UNCHANGED lock

(* A credential is missing, or spawn() throws after the file was written. *)
SpawnFails(c) ==
  /\ At(c, "configure")
  /\ config' \in {config, InstOf[c]}
  /\ Fail(c, My(c), child)
  /\ UNCHANGED lock

(* Mutant of Ready: the state is assigned, not transitioned to. *)
ReadyUnchecked(c) ==
  /\ At(c, "readiness")
  /\ ~My(c).stopRequested
  /\ StartEnds(c, [My(c) EXCEPT !.state = "ready"], "done")
  /\ UNCHANGED <<lock, config, child, joining>>

(* A probe answers ready.  transition("ready") throws if the state has left   *)
(* "starting" meanwhile, and the start fails.                                *)
Ready(c) ==
  /\ At(c, "readiness")
  /\ ~My(c).stopRequested
  /\ IF CanMove(My(c).state, "ready")
       THEN StartEnds(c, Move(My(c), "ready"), "done") /\ UNCHANGED <<child, joining>>
       ELSE Fail(c, My(c), child)
  /\ UNCHANGED <<lock, config>>

(* The deadline passed, the endpoint is another one, the process ended, or    *)
(* stop() was called.                                                        *)
ReadinessFails(c) ==
  /\ At(c, "readiness")
  /\ Fail(c, My(c), child)
  /\ UNCHANGED <<lock, config>>

(* failManaged() *)

FailJoined(c) ==
  /\ At(c, "failjoin")
  /\ Joined(c)
  /\ DropOwner(c, My(c), "failrelease", "failremove")
  /\ joining' = [joining EXCEPT ![c] = None]
  /\ UNCHANGED <<lock, config, child>>

FailReleased(c) ==
  /\ At(c, "failrelease")
  /\ ReleaseLock(c)
  /\ Goto(c, "failremove")
  /\ UNCHANGED <<rt, config, child, joining>>

FailRemoved(c) ==
  /\ At(c, "failremove")
  /\ RemoveConfig(c)
  /\ StartEnds(c, IF ~My(c).stopRequested THEN Move(My(c), "failed")
                  ELSE IF My(c).state = "stopping" THEN Move(My(c), "stopped")
                  ELSE My(c), "done")
  /\ UNCHANGED <<lock, child, joining>>

(* rm rejects inside failManaged(): the start ends with that error, and        *)
(* neither failed nor stopped is set.                                        *)
FailRemoveFails(c) ==
  /\ At(c, "failremove")
  /\ StartEnds(c, My(c), "startaborted")
  /\ UNCHANGED <<lock, config, child, joining>>

-----------------------------------------------------------------------------
(* startExternal() *)

(* The credentials are valid, or not.  probe() throws once disposed, outside  *)
(* the try: the start ends in the state it is in.                            *)
Validated(c) ==
  /\ At(c, "validate")
  /\ \/ My(c).stopRequested /\ StartEnds(c, My(c), "done")
     \/ ~My(c).stopRequested /\ StartEnds(c, Move(My(c), "degraded"), "done")
     \/ /\ ~My(c).stopRequested
        /\ IF My(c).disposed THEN StartEnds(c, My(c), "startaborted")
                             ELSE Goto(c, "probe") /\ UNCHANGED rt
  /\ UNCHANGED <<lock, config, child, joining>>

Probed(c) ==
  /\ At(c, "probe")
  /\ IF My(c).stopRequested
       THEN StartEnds(c, My(c), "done")
       ELSE \E s \in {"ready", "degraded"} : StartEnds(c, Move(My(c), s), "done")
  /\ UNCHANGED <<lock, config, child, joining>>

-----------------------------------------------------------------------------
(* stop(), after its first await *)

StopIdleRemoved(c) ==
  /\ At(c, "stopidle")
  /\ RemoveConfig(c)
  /\ StopReturns(c, My(c), op[c])
  /\ UNCHANGED <<lock, child, joining>>

(* rm rejects, and stop(), restart() or dispose() with it: before it did       *)
(* anything (stopidle), or with the state left in "stopping" (stopremove).    *)
StopRemoveFails(c) ==
  /\ mode[InstOf[c]] = "managed"
  /\ \/ At(c, "stopidle") /\ Goto(c, "done")
     \/ At(c, "stopremove") /\ Goto(c, "stopaborted")
  /\ UNCHANGED <<rt, lock, config, child, joining>>

StopJoined(c) ==
  /\ At(c, "stopjoin")
  /\ Joined(c)
  /\ IF pending[c] # None /\ My(c).startPromise = pending[c]
       THEN Goto(c, "stopwait") /\ UNCHANGED rt
       ELSE DropOwner(c, My(c), "stoprelease", "stopremove")
  /\ joining' = [joining EXCEPT ![c] = None]
  /\ UNCHANGED <<lock, config, child>>

StopReleased(c) ==
  /\ At(c, "stoprelease")
  /\ ReleaseLock(c)
  /\ Goto(c, "stopremove")
  /\ UNCHANGED <<rt, config, child, joining>>

(* Mutant of StopRemoved: the final transition is forgotten. *)
StopRemovedStaysStopping(c) ==
  /\ At(c, "stopremove")
  /\ RemoveConfig(c)
  /\ StopReturns(c, [My(c) EXCEPT !.stopRequested = FALSE], op[c])
  /\ UNCHANGED <<lock, child, joining>>

StopRemoved(c) ==
  /\ At(c, "stopremove")
  /\ RemoveConfig(c)
  /\ IF CanMove(My(c).state, "stopped")
       THEN StopReturns(c, [My(c) EXCEPT !.state = "stopped", !.stopRequested = FALSE], op[c])
       ELSE Goto(c, "done") /\ UNCHANGED rt
  /\ UNCHANGED <<lock, child, joining>>

-----------------------------------------------------------------------------
(* install() *)

InstallPrepared(c) ==
  /\ At(c, "prepare")
  /\ \/ ~My(c).ownerHeld /\ Goto(c, "insacquire")
     \/ Goto(c, "done")          \* no asset, or RuntimeOwnerError
  /\ UNCHANGED <<rt, lock, config, child, joining>>

InstallAcquires(c) ==
  /\ At(c, "insacquire")
  /\ \/ /\ lock = None
        /\ lock' = InstOf[c]
        /\ Put(c, [My(c) EXCEPT !.ownerHeld = TRUE])
        /\ Goto(c, "inswork")
     \/ Goto(c, "done") /\ UNCHANGED <<rt, lock>>
  /\ UNCHANGED <<config, child, joining>>

(* The lock is acquired, and the asset's names are refused before the try      *)
(* whose finally would release it.                                           *)
InstallRefused(c) ==
  /\ At(c, "insacquire")
  /\ lock = None
  /\ lock' = InstOf[c]
  /\ Put(c, [My(c) EXCEPT !.ownerHeld = TRUE])
  /\ Goto(c, "done")
  /\ UNCHANGED <<config, child, joining>>

(* The release is staged, verified and selected, or is not; finally runs      *)
(* releaseOwner(), whoever acquired meanwhile.                               *)
InstallWorked(c) ==
  /\ At(c, "inswork")
  /\ Put(c, [My(c) EXCEPT !.ownerHeld = FALSE])
  /\ Goto(c, IF My(c).ownerHeld THEN "insrelease" ELSE "done")
  /\ UNCHANGED <<lock, config, child, joining>>

InstallReleased(c) ==
  /\ At(c, "insrelease")
  /\ ReleaseLock(c)
  /\ Goto(c, "done")
  /\ UNCHANGED <<rt, config, child, joining>>

-----------------------------------------------------------------------------
(* The processes *)

(* A process ends, terminated or not. *)
ChildExits(k) ==
  /\ Live(k)
  /\ child' = [child EXCEPT ![k] = "exited"]
  /\ UNCHANGED <<mode, rt, lock, config, pc, op, joining, pending>>

(* Mutant of ChildReported: the outcome of the process becomes the state. *)
ChildReportedAsState(k) ==
  /\ child[k] = "exited"
  /\ child' = [child EXCEPT ![k] = "reported"]
  /\ Put(k, [My(k) EXCEPT !.state = "exited"])
  /\ UNCHANGED <<mode, lock, config, pc, op, joining, pending>>

(* The continuation of handle.done in monitorChild(). *)
ChildReported(k) ==
  /\ child[k] = "exited"
  /\ child' = [child EXCEPT ![k] = "reported"]
  /\ IF My(k).processHandle = k /\ My(k).state \in {"starting", "ready", "degraded"}
       THEN Put(k, [My(k) EXCEPT !.state = "failed"])
       ELSE UNCHANGED rt
  /\ UNCHANGED <<mode, lock, config, pc, op, joining, pending>>

-----------------------------------------------------------------------------
CallBegins(c) == Start(c) \/ Stop(c) \/ Restart(c) \/ Dispose(c) \/ Install(c)

StartStep(c) ==
  \/ Loaded(c) \/ LoadFails(c) \/ Acquired(c) \/ AcquireFails(c)
  \/ PortFree(c) \/ PortProbeFails(c) \/ Spawned(c) \/ SpawnFails(c)
  \/ Ready(c) \/ ReadinessFails(c)
  \/ FailJoined(c) \/ FailReleased(c) \/ FailRemoved(c) \/ FailRemoveFails(c)
  \/ Validated(c) \/ Probed(c)

StopStep(c) ==
  \/ StopIdleRemoved(c) \/ StopJoined(c) \/ StopReleased(c)
  \/ StopRemoved(c) \/ StopRemoveFails(c)

InstallStep(c) ==
  \/ InstallPrepared(c) \/ InstallAcquires(c) \/ InstallRefused(c)
  \/ InstallWorked(c) \/ InstallReleased(c)

Step(c) == StartStep(c) \/ StopStep(c) \/ InstallStep(c)

Next ==
  \E c \in Call : CallBegins(c) \/ Step(c) \/ ChildExits(c) \/ ChildReported(c)

Spec == Init /\ [][Next]_vars

(* Callers that start or restart an instance only while none of its stop(),   *)
(* restart() or dispose() calls is underway.                                 *)
Awaited ==
  \A c, d \in Call :
    /\ pc[c] = "idle" /\ op'[c] \in {"start", "restart"}
    /\ InstOf[d] = InstOf[c]
    => pc[d] \notin StopPC

AwaitedSpec == Init /\ [][Next /\ Awaited]_vars

(* Whatever a call awaits settles: files and probes are bounded, the         *)
(* readiness loop has a deadline, and the subprocess service escalates a     *)
(* terminate() until the process is gone.  Nobody has to call, and a process *)
(* that was not told to end need not.                                        *)
FairSpec ==
  /\ Spec
  /\ \A c \in Call :
       /\ WF_vars(Step(c))
       /\ WF_vars(child[c] = "terminating" /\ ChildExits(c))
       /\ WF_vars(ChildReported(c))

-----------------------------------------------------------------------------
TypeOK ==
  /\ mode \in [Inst -> {"managed", "external"}]
  /\ rt \in [Inst -> Fields]
  /\ lock \in Inst \cup {None}
  /\ config \in Inst \cup {None}
  /\ child \in [Call -> {"none", "running", "terminating", "exited", "reported"}]
  /\ pc \in [Call -> PC]
  /\ op \in [Call -> Ops \cup {None}]
  /\ joining \in [Call -> Call \cup {None}]
  /\ pending \in [Call -> Call \cup {None}]

Suspended(c) == pc[c] \notin {"idle", "done"} \cup AbortedPC
Quiet(i) == \A c \in CallsOf(i) : ~Suspended(c)

(* docs/design/security.md: "Exactly one managed runtime owner ... may be     *)
(* active".  A process runs only while its instance holds the lock, so that   *)
(* no other instance can start one beside it.                                *)
OneOwnerPerHome ==
  \A k \in Call : Live(k) => lock = InstOf[k] /\ My(k).ownerHeld

(* install() gives up in its finally whatever ownership it finds, also that   *)
(* of a start() that took the lock beside it.  What install() may do to the   *)
(* lock is OneOwnerPerHome's; the properties of processes below are of        *)
(* instances that are not asked to install.                                  *)
NeverInstalls(i) == \A c \in CallsOf(i) : op[c] # "install"

(* What holds of it, for callers that await stop(), restart() and dispose()   *)
(* before they start again (AwaitedSpec): however the calls of an instance    *)
(* overlap otherwise with each other and with crashes, it keeps the lock for  *)
(* as long as its process lives, runs no second process, and the one it runs  *)
(* is the one stop() would terminate.                                        *)
LiveChildOwned ==
  \A k \in Call : Live(k) /\ NeverInstalls(InstOf[k]) =>
    lock = InstOf[k] /\ My(k).ownerHeld /\ My(k).processHandle = k

(* ready is never shown over a process whose end was already reported: a      *)
(* probe answered late cannot override the crash, and no overlapping stop()   *)
(* drops the process of the start() that is about to answer.                 *)
ReadyIsRunning ==
  \A i \in Inst : NeverInstalls(i) /\ rt[i].state = "ready" /\ mode[i] = "managed" =>
     /\ rt[i].processHandle # None
     /\ child[rt[i].processHandle] # "reported"

(* ownerHeld, which decides whether releaseOwner() does anything, agrees with *)
(* the lock file: it is never set without the record, and a record it does    *)
(* not show is being removed.                                                *)
OwnerFlagExact ==
  \A i \in Inst :
    /\ rt[i].ownerHeld => lock = i
    /\ lock = i => \/ rt[i].ownerHeld
                   \/ \E c \in CallsOf(i) : pc[c] \in {"failrelease", "stoprelease", "insrelease"}

(* docs/design/architecture.md: "Stop, restart, and unload terminate and      *)
(* join the whole process tree".  When all its calls have returned, whatever  *)
(* their overlap, an instance has a process only if "ready", and is in a      *)
(* transient state (start() and stop() could not take it out of "stopping")   *)
(* only if the call that owed it another one was rejected: by the removal of  *)
(* managed.yaml, or because the start found its runtime disposed.             *)
Ended(i, how) == \E c \in CallsOf(i) : pc[c] = how

SettledWhenQuiet ==
  \A i \in Inst : Quiet(i) =>
    /\ rt[i].state = "starting" => Ended(i, "startaborted")
    /\ rt[i].state = "stopping" => Ended(i, "stopaborted")
    /\ NeverInstalls(i) => \A k \in CallsOf(i) : Live(k) => rt[i].state = "ready"

(* Every call returns or throws: no stop() waits for a start that waits for   *)
(* it, and none waits for a process nobody terminated.                       *)
EveryCallReturns == \A c \in Call : Suspended(c) ~> ~Suspended(c)

(* docs/adr/0005: "A managed CPA process must not ... survive plugin          *)
(* disposal".  A disposed instance has no process that was not told to end.   *)
DisposedMeansDead ==
  \A k \in Call : child[k] = "running" => ~My(k).disposed

(* index.ts, deviceLoginTarget(): "the managed binary and private active      *)
(* config for a sibling device-login process": while the runtime is ready,    *)
(* the file whose path it hands out exists.                                   *)
ReadyHasConfig ==
  \A i \in Inst : rt[i].state = "ready" /\ mode[i] = "managed" => config # None
=============================================================================
