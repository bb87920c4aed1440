------------------------- MODULE GatewayRuntimeProofs -------------------------
(* Proofs about GatewayRuntime, for every set of instances sharing a home    *)
(* and every set of calls on them.                                           *)
EXTENDS GatewayRuntime, TLAPS

-----------------------------------------------------------------------------
(* Types of the fragments that the operations share *)

RtType      == rt' \in [Inst -> Fields]
PcType      == pc' \in [Call -> PC]
ProcessType == /\ child' \in [Call -> {"none", "running", "terminating", "exited", "reported"}]
               /\ joining' \in [Call -> Call \cup {None}]

(* The fields of a call's own instance are fields. *)
LEMMA MyType == ASSUME TypeOK, NEW c \in Call PROVE My(c) \in Fields
BY ConstAssumption DEF TypeOK, My

LEMMA PutType ==
  ASSUME TypeOK, NEW c \in Call, NEW r \in Fields, Put(c, r)
  PROVE  RtType
BY ConstAssumption DEF TypeOK, Put, RtType

LEMMA GotoType ==
  ASSUME TypeOK, NEW c \in Call, NEW to \in PC, Goto(c, to)
  PROVE  PcType
BY DEF TypeOK, Goto, PcType

LEMMA MoveType ==
  ASSUME NEW r \in Fields, NEW to \in State PROVE Move(r, to) \in Fields
BY DEF Move, Fields

LEMMA TerminateType ==
  ASSUME TypeOK, NEW c \in Call, NEW r \in Fields,
         NEW processes \in [Call -> {"none", "running", "terminating", "exited", "reported"}],
         Terminate(c, processes, r.processHandle)
  PROVE  ProcessType
BY DEF TypeOK, Terminate, ProcessType, Fields

LEMMA DropOwnerType ==
  ASSUME TypeOK, NEW c \in Call, NEW r \in Fields,
         NEW releasing \in PC, NEW released \in PC,
         DropOwner(c, r, releasing, released)
  PROVE  RtType /\ PcType
<1>1. [r EXCEPT !.processHandle = None, !.ownerHeld = FALSE] \in Fields
  BY DEF Fields
<1>2. QED
  BY <1>1, PutType, GotoType DEF DropOwner

LEMMA FailType ==
  ASSUME TypeOK, NEW c \in Call, NEW r \in Fields,
         NEW processes \in [Call -> {"none", "running", "terminating", "exited", "reported"}],
         Fail(c, r, processes)
  PROVE  RtType /\ PcType /\ ProcessType
<1>1. {"failjoin", "failrelease", "failremove"} \subseteq PC
  BY DEF PC, StartPC
<1>2. QED
  BY <1>1, TerminateType, PutType, GotoType, DropOwnerType DEF Fail

LEMMA StartEndsType ==
  ASSUME TypeOK, NEW c \in Call, NEW r \in Fields,
         NEW how \in {"done", "startaborted"}, StartEnds(c, r, how)
  PROVE  RtType /\ PcType
<1>1. {"done", "startaborted", "stoprelease", "stopremove"} \subseteq PC
  BY DEF PC, AbortedPC, StopPC
<1>2. PcType
  BY <1>1 DEF StartEnds, TypeOK, PcType
<1>3. /\ [r EXCEPT !.startPromise = None] \in Fields
      /\ [[r EXCEPT !.startPromise = None] EXCEPT !.processHandle = None, !.ownerHeld = FALSE]
           \in Fields
  BY DEF Fields
<1>4. RtType
  BY <1>3, PutType DEF StartEnds
<1>5. QED
  BY <1>2, <1>4

LEMMA EnterStartType ==
  ASSUME TypeOK, NEW c \in Call, NEW r \in Fields, EnterStart(c, r)
  PROVE  RtType /\ PcType
<1>1. {"load", "validate", "done"} \subseteq PC
  BY DEF PC, StartPC
<1>2. [r EXCEPT !.state = "starting", !.stopRequested = FALSE, !.startPromise = c] \in Fields
  BY DEF Fields, State
<1>3. QED
  BY <1>1, <1>2, PutType, GotoType DEF EnterStart

LEMMA StopReturnsType ==
  ASSUME TypeOK, NEW c \in Call, NEW r \in Fields,
         NEW o \in {"stop", "restart", "dispose"}, StopReturns(c, r, o)
  PROVE  RtType /\ PcType
<1>1. "done" \in PC
  BY DEF PC
<1>2. [r EXCEPT !.state = IF @ = "stopped" THEN "disabled" ELSE @, !.disposed = TRUE] \in Fields
  BY DEF Fields, State
<1>3. CASE o = "stop"
  BY <1>1, <1>3, PutType, GotoType DEF StopReturns
<1>4. CASE o = "restart"
  BY <1>4, EnterStartType DEF StopReturns
<1>5. CASE o = "dispose"
  BY <1>1, <1>2, <1>5, PutType, GotoType DEF StopReturns
<1>6. QED
  BY <1>3, <1>4, <1>5

LEMMA EnterStopType ==
  ASSUME TypeOK, NEW c \in Call, NEW r \in Fields,
         NEW o \in {"stop", "restart", "dispose"}, EnterStop(c, r, o)
  PROVE  /\ RtType /\ PcType /\ ProcessType
         /\ pending' \in [Call -> Call \cup {None}]
<1>0. UNCHANGED <<child, joining, pending>>
        => ProcessType /\ pending' \in [Call -> Call \cup {None}]
  BY DEF TypeOK, ProcessType
<1>1. {"stopidle", "stopjoin", "stopwait", "stoprelease", "stopremove"} \subseteq PC
  BY DEF PC, StopPC
<1>2. CASE r.state \in {"disabled", "stopped"}
  BY <1>0, <1>1, <1>2, PutType, GotoType DEF EnterStop
<1>3. CASE r.state = "stopping"
  BY <1>0, <1>3, StopReturnsType DEF EnterStop
<1>4. CASE r.state \in {"starting", "ready", "degraded", "failed"}
  <2> DEFINE start == IF r.state = "starting" THEN r.startPromise ELSE None
             s == [r EXCEPT !.state = "stopping", !.stopRequested = IF start # None THEN TRUE ELSE @]
  <2>1. start \in Call \cup {None}
    BY DEF Fields
  <2>2. s \in Fields
    BY DEF Fields, State
  <2> HIDE DEF start
  <2>3. pending' = [pending EXCEPT ![c] = start] /\ Terminate(c, child, r.processHandle)
    BY <1>4 DEF EnterStop, start
  <2>4. \/ Put(c, s) /\ Goto(c, "stopjoin")
        \/ Put(c, s) /\ Goto(c, "stopwait")
        \/ DropOwner(c, s, "stoprelease", "stopremove")
    BY <1>4 DEF EnterStop, start
  <2> HIDE DEF s
  <2>5. RtType /\ PcType
    BY <1>1, <2>2, <2>4, PutType, GotoType, DropOwnerType
  <2>6. ProcessType
    BY <2>3, TerminateType DEF TypeOK
  <2>7. QED
    BY <2>1, <2>3, <2>5, <2>6 DEF TypeOK
<1>5. QED
  BY <1>2, <1>3, <1>4 DEF Fields, State

-----------------------------------------------------------------------------
(* Type correctness of every step *)

RestType  == /\ mode' \in [Inst -> {"managed", "external"}]
             /\ lock' \in Inst \cup {None}
             /\ config' \in Inst \cup {None}
             /\ op' \in [Call -> Ops \cup {None}]
             /\ pending' \in [Call -> Call \cup {None}]

LEMMA TypeParts == RtType /\ PcType /\ ProcessType /\ RestType => TypeOK'
BY DEF TypeOK, RtType, PcType, ProcessType, RestType

LEMMA AtType ==
  ASSUME TypeOK, NEW c \in Call, NEW here, At(c, here),
         lock' \in Inst \cup {None}, config' \in Inst \cup {None}
  PROVE  RestType
BY DEF TypeOK, At, RestType

LEMMA StayType ==
  ASSUME TypeOK
  PROVE  /\ UNCHANGED rt => RtType
         /\ UNCHANGED pc => PcType
         /\ UNCHANGED <<child, joining>> => ProcessType
BY DEF TypeOK, RtType, PcType, ProcessType

LEMMA CalledType ==
  ASSUME TypeOK, NEW c \in Call, NEW o, Called(c, o), pending' \in [Call -> Call \cup {None}]
  PROVE  RestType
BY DEF TypeOK, Called, RestType

LEMMA CallBeginsType ==
  ASSUME TypeOK, NEW c \in Call, CallBegins(c) PROVE TypeOK'
<1> USE MyType, StayType, CalledType, TypeParts
<1>0. UNCHANGED pending => pending' \in [Call -> Call \cup {None}]
  BY DEF TypeOK
<1>1. CASE Start(c)
  BY <1>0, <1>1, EnterStartType DEF Start
<1>2. CASE Stop(c)
  BY <1>2, EnterStopType DEF Stop
<1>3. Rejected(c) => RtType /\ PcType /\ ProcessType /\ UNCHANGED pending
  BY GotoType DEF Rejected, PC
<1>4. CASE Restart(c)
  BY <1>0, <1>3, <1>4, EnterStopType DEF Restart
<1>5. CASE Dispose(c)
  BY <1>0, <1>3, <1>5, EnterStopType DEF Dispose
<1>6. CASE Install(c)
  <2>1. {"prepare", "done"} \subseteq PC
    BY DEF PC, InstallPC
  <2>2. QED
    BY <1>0, <1>6, <2>1, GotoType DEF Install
<1>7. QED
  BY <1>1, <1>2, <1>4, <1>5, <1>6 DEF CallBegins

LEMMA StartStepType ==
  ASSUME TypeOK, NEW c \in Call, StartStep(c) PROVE TypeOK'
<1> USE MyType, StayType, AtType, TypeParts
<1>a. StartPC \subseteq PC
  BY DEF PC
<1>b. {"load", "acquire", "portprobe", "configure", "readiness",
       "failjoin", "failrelease", "failremove", "validate", "probe"} \subseteq PC
  BY DEF PC, StartPC
<1>c. /\ lock \in Inst \cup {None} /\ config \in Inst \cup {None}
      /\ InstOf[c] \in Inst
      /\ child \in [Call -> {"none", "running", "terminating", "exited", "reported"}]
  BY ConstAssumption DEF TypeOK
<1>d. {"ready", "degraded", "failed", "stopped"} \subseteq State
  BY DEF State
<1>1. CASE Loaded(c)
  BY <1>1, <1>b, <1>c, FailType, GotoType DEF Loaded
<1>2. CASE LoadFails(c)
  BY <1>2, <1>c, FailType DEF LoadFails
<1>3. CASE Acquired(c)
  <2> DEFINE r == [My(c) EXCEPT !.ownerHeld = TRUE]
  <2>1. r \in Fields
    BY DEF Fields
  <2> HIDE DEF r
  <2>2. Fail(c, r, child) \/ (Put(c, r) /\ Goto(c, "portprobe") /\ UNCHANGED <<child, joining>>)
    BY <1>3 DEF Acquired, r
  <2>3. RtType /\ PcType /\ ProcessType
    BY <1>b, <1>c, <2>1, <2>2, FailType, PutType, GotoType
  <2>4. QED
    BY <1>3, <1>c, <2>3 DEF Acquired
<1>4. CASE AcquireFails(c)
  BY <1>4, <1>c, FailType DEF AcquireFails
<1>5. CASE PortFree(c)
  BY <1>5, <1>b, <1>c, GotoType DEF PortFree
<1>6. CASE PortProbeFails(c)
  BY <1>6, <1>c, FailType DEF PortProbeFails
<1>7. CASE Spawned(c)
  <2> DEFINE r == [My(c) EXCEPT !.processHandle = c]
             processes == [child EXCEPT ![c] = "running"]
  <2>1. /\ r \in Fields
        /\ processes \in [Call -> {"none", "running", "terminating", "exited", "reported"}]
    BY <1>c DEF Fields
  <2>2. \/ Fail(c, r, processes)
        \/ Put(c, r) /\ Goto(c, "readiness") /\ child' = processes /\ UNCHANGED joining
    BY <1>7 DEF Spawned
  <2> HIDE DEF r, processes
  <2>3. child' = processes /\ UNCHANGED joining => ProcessType
    BY <2>1 DEF ProcessType, TypeOK
  <2>4. RtType /\ PcType /\ ProcessType
    BY <1>b, <2>1, <2>2, <2>3, FailType, PutType, GotoType
  <2>5. QED
    BY <1>7, <1>c, <2>4 DEF Spawned
<1>8. CASE SpawnFails(c)
  BY <1>8, <1>c, FailType DEF SpawnFails
<1>9. CASE Ready(c)
  BY <1>9, <1>c, <1>d, MoveType, StartEndsType, FailType DEF Ready
<1>10. CASE ReadinessFails(c)
  BY <1>10, <1>c, FailType DEF ReadinessFails
<1>11. CASE FailJoined(c)
  <2>1. ProcessType
    BY <1>11 DEF FailJoined, ProcessType, TypeOK
  <2>2. QED
    BY <1>11, <1>b, <1>c, <2>1, DropOwnerType DEF FailJoined
<1>12. CASE FailReleased(c)
  BY <1>12, <1>b, <1>c, GotoType DEF FailReleased, ReleaseLock
<1>13. CASE FailRemoved(c)
  BY <1>13, <1>c, <1>d, MoveType, StartEndsType DEF FailRemoved, RemoveConfig
<1>14. CASE Validated(c)
  BY <1>14, <1>b, <1>c, <1>d, MoveType, StartEndsType, GotoType DEF Validated
<1>15. CASE Probed(c)
  BY <1>15, <1>c, <1>d, MoveType, StartEndsType DEF Probed
<1>16. CASE FailRemoveFails(c)
  BY <1>16, <1>c, StartEndsType DEF FailRemoveFails
<1>17. QED
  BY <1>1, <1>2, <1>3, <1>4, <1>5, <1>6, <1>7, <1>8, <1>9, <1>10, <1>11, <1>12,
     <1>13, <1>14, <1>15, <1>16 DEF StartStep

LEMMA StopStepType ==
  ASSUME TypeOK, NEW c \in Call, StopStep(c), op[c] \in {"stop", "restart", "dispose"}
  PROVE  TypeOK'
<1> USE MyType, StayType, AtType, TypeParts
<1>b. {"stopwait", "stoprelease", "stopremove", "done", "stopaborted"} \subseteq PC
  BY DEF PC, AbortedPC, StopPC
<1>c. lock \in Inst \cup {None} /\ config \in Inst \cup {None} /\ InstOf[c] \in Inst
  BY ConstAssumption DEF TypeOK
<1>1. CASE StopIdleRemoved(c)
  BY <1>1, <1>c, StopReturnsType DEF StopIdleRemoved, RemoveConfig
<1>2. CASE StopJoined(c)
  <2>1. ProcessType
    BY <1>2 DEF StopJoined, ProcessType, TypeOK
  <2>2. QED
    BY <1>2, <1>b, <1>c, <2>1, DropOwnerType, GotoType DEF StopJoined
<1>3. CASE StopReleased(c)
  BY <1>3, <1>b, <1>c, GotoType DEF StopReleased, ReleaseLock
<1>4. CASE StopRemoved(c)
  <2>1. [My(c) EXCEPT !.state = "stopped", !.stopRequested = FALSE] \in Fields
    BY DEF Fields, State
  <2>2. QED
    BY <1>4, <1>b, <1>c, <2>1, StopReturnsType, GotoType DEF StopRemoved, RemoveConfig
<1>5. CASE StopRemoveFails(c)
  BY <1>5, <1>b, <1>c, GotoType DEF StopRemoveFails
<1>6. QED
  BY <1>1, <1>2, <1>3, <1>4, <1>5 DEF StopStep

LEMMA InstallStepType ==
  ASSUME TypeOK, NEW c \in Call, InstallStep(c) PROVE TypeOK'
<1> USE MyType, StayType, AtType, TypeParts
<1>b. {"insacquire", "inswork", "insrelease", "done"} \subseteq PC
  BY DEF PC, InstallPC
<1>c. lock \in Inst \cup {None} /\ config \in Inst \cup {None} /\ InstOf[c] \in Inst
  BY ConstAssumption DEF TypeOK
<1>d. /\ [My(c) EXCEPT !.ownerHeld = TRUE] \in Fields
      /\ [My(c) EXCEPT !.ownerHeld = FALSE] \in Fields
  BY DEF Fields
<1>1. CASE InstallPrepared(c)
  BY <1>1, <1>b, <1>c, GotoType DEF InstallPrepared
<1>2. CASE InstallAcquires(c)
  BY <1>2, <1>b, <1>c, <1>d, GotoType, PutType DEF InstallAcquires
<1>3. CASE InstallWorked(c)
  BY <1>3, <1>b, <1>c, <1>d, GotoType, PutType DEF InstallWorked
<1>4. CASE InstallReleased(c)
  BY <1>4, <1>b, <1>c, GotoType DEF InstallReleased, ReleaseLock
<1>5. CASE InstallRefused(c)
  BY <1>5, <1>b, <1>c, <1>d, GotoType, PutType DEF InstallRefused
<1>6. QED
  BY <1>1, <1>2, <1>3, <1>4, <1>5 DEF InstallStep

LEMMA ChildStepType ==
  ASSUME TypeOK, NEW k \in Call, ChildExits(k) \/ ChildReported(k) PROVE TypeOK'
<1> USE MyType, StayType, TypeParts
<1>a. UNCHANGED <<mode, lock, config, pc, op, joining, pending>> => RestType /\ PcType
  BY DEF TypeOK, RestType, PcType
<1>1. CASE ChildExits(k)
  <2>1. ProcessType
    BY <1>1 DEF ChildExits, TypeOK, ProcessType
  <2>2. QED
    BY <1>1, <1>a, <2>1 DEF ChildExits
<1>2. CASE ChildReported(k)
  <2>1. ProcessType
    BY <1>2 DEF ChildReported, TypeOK, ProcessType
  <2>2. [My(k) EXCEPT !.state = "failed"] \in Fields
    BY DEF Fields, State
  <2>3. QED
    BY <1>2, <1>a, <2>1, <2>2, PutType DEF ChildReported
<1>3. QED
  BY <1>1, <1>2

-----------------------------------------------------------------------------
(* The inductive invariant *)

(* A call inside stop() was made by stop(), restart() or dispose(). *)
StopOp == \A c \in Call : pc[c] \in StopPC => op[c] \in {"stop", "restart", "dispose"}

(* A call inside ownerLock.release() removes the record of its instance,      *)
(* which no longer shows it; no second call does.                            *)
Releasing(c) == pc[c] \in {"failrelease", "stoprelease", "insrelease"}

HeldIsLocked    == \A i \in Inst : rt[i].ownerHeld => lock = i
LockIsHeld      == \A i \in Inst : lock = i =>
                     rt[i].ownerHeld \/ \E c \in CallsOf(i) : Releasing(c)
ReleaseUnderway == \A c \in Call : Releasing(c) => lock = InstOf[c] /\ ~My(c).ownerHeld
OneRelease      == \A c, d \in Call : Releasing(c) /\ Releasing(d) => c = d

LockInv == HeldIsLocked /\ LockIsHeld /\ ReleaseUnderway /\ OneRelease

(* startPromise is a start that runs; a stop() with a pendingStart waits for  *)
(* one of its own instance that has not returned to "idle"; while that start  *)
(* is the current one the state has left "starting", so that no second stop() *)
(* comes to wait for it.                                                     *)
AwaitsStart(s) == pc[s] \in {"stopjoin", "stopwait"} /\ pending[s] # None

StartRuns    == \A i \in Inst : rt[i].startPromise # None =>
                  InstOf[rt[i].startPromise] = i /\ pc[rt[i].startPromise] \in StartPC
PendingRuns  == \A s \in Call : AwaitsStart(s) =>
                  InstOf[pending[s]] = InstOf[s] /\ pc[pending[s]] \in StartPC \cup {"done", "startaborted"}
PendingStops == \A s \in Call : AwaitsStart(s) /\ My(s).startPromise = pending[s] =>
                  My(s).state # "starting"
OneWaiter    == \A s, t \in Call :
                  AwaitsStart(s) /\ AwaitsStart(t) /\ pending[s] = pending[t] => s = t

StartInv == StartRuns /\ PendingRuns /\ PendingStops /\ OneWaiter

IInv == TypeOK /\ StopOp /\ LockInv /\ StartInv

-----------------------------------------------------------------------------
(* What a step may do to the lock *)

SameLock ==
  /\ lock' = lock
  /\ \A i \in Inst : rt'[i].ownerHeld = rt[i].ownerHeld
  /\ \A c \in Call : Releasing(c)' <=> Releasing(c)

(* releaseOwner() of call c begins. *)
DropsLock(c) ==
  /\ lock' = lock
  /\ My(c).ownerHeld /\ ~rt'[InstOf[c]].ownerHeld
  /\ \A i \in Inst \ {InstOf[c]} : rt'[i].ownerHeld = rt[i].ownerHeld
  /\ Releasing(c)'
  /\ \A d \in Call \ {c} : Releasing(d)' <=> Releasing(d)

(* ownerLock.release() of call c returns. *)
FreesLock(c) ==
  /\ Releasing(c) /\ ~Releasing(c)'
  /\ ReleaseLock(c)
  /\ \A i \in Inst : rt'[i].ownerHeld = rt[i].ownerHeld
  /\ \A d \in Call \ {c} : Releasing(d)' <=> Releasing(d)

(* ownerLock.acquire() of call c returns, and releaseOwner() may begin. *)
TakesLock(c) ==
  /\ lock = None /\ lock' = InstOf[c]
  /\ rt'[InstOf[c]].ownerHeld \/ Releasing(c)'
  /\ ~(rt'[InstOf[c]].ownerHeld /\ Releasing(c)')
  /\ \A i \in Inst \ {InstOf[c]} : rt'[i].ownerHeld = rt[i].ownerHeld
  /\ \A d \in Call \ {c} : Releasing(d)' <=> Releasing(d)

LEMMA LockEffects ==
  ASSUME TypeOK, LockInv, NEW c \in Call,
         SameLock \/ DropsLock(c) \/ FreesLock(c) \/ TakesLock(c)
  PROVE  LockInv'
<1> USE DEF LockInv, HeldIsLocked, LockIsHeld, ReleaseUnderway, OneRelease, CallsOf, My
<1>0. InstOf \in [Call -> Inst] /\ None \notin Inst
  BY ConstAssumption
<1>1. CASE SameLock
  BY <1>0, <1>1 DEF SameLock
<1>2. CASE DropsLock(c)
  BY <1>0, <1>2 DEF DropsLock
<1>3. CASE FreesLock(c)
  BY <1>0, <1>3 DEF FreesLock, ReleaseLock
<1>4. CASE TakesLock(c)
  BY <1>0, <1>4 DEF TakesLock
<1>5. QED
  BY <1>1, <1>2, <1>3, <1>4

(* What a step may do to the starts and the calls that await them *)

(* No start begins and no call comes to await one. *)
NoNewStart ==
  /\ \A i \in Inst :
       /\ rt'[i].startPromise \in {rt[i].startPromise, None}
       /\ rt'[i].startPromise # None => pc'[rt'[i].startPromise] \in StartPC
       /\ rt'[i].state = "starting" => rt[i].state = "starting"
  /\ \A c \in Call :
       /\ pc[c] \in StartPC \cup {"done", "startaborted"} => pc'[c] \in StartPC \cup {"done", "startaborted"}
       /\ AwaitsStart(c)' => AwaitsStart(c) /\ pending'[c] = pending[c]

(* The start of call c begins. *)
BeginsStart(c) ==
  /\ My(c).startPromise = None /\ rt'[InstOf[c]].startPromise = c
  /\ pc[c] \notin StartPC \cup {"done", "startaborted"} /\ pc'[c] \in StartPC
  /\ \A i \in Inst \ {InstOf[c]} : rt'[i] = rt[i]
  /\ \A d \in Call \ {c} : pc'[d] = pc[d]
  /\ pending' = pending

(* stop() of call c begins, in an instance that may be starting. *)
BeginsStop(c) ==
  /\ pc[c] = "idle" /\ pc'[c] \in StopPC
  /\ \A d \in Call \ {c} : pc'[d] = pc[d] /\ pending'[d] = pending[d]
  /\ My(c).state # "starting" => pending'[c] = None
  /\ My(c).state = "starting" => pending'[c] = My(c).startPromise
  /\ rt'[InstOf[c]].state # "starting"
  /\ \A i \in Inst :
       /\ rt'[i].startPromise = rt[i].startPromise
       /\ i # InstOf[c] => rt'[i] = rt[i]

LEMMA StartEffects ==
  ASSUME TypeOK, StartInv, NEW c \in Call,
         NoNewStart \/ BeginsStart(c) \/ BeginsStop(c)
  PROVE  StartInv'
<1> USE DEF StartInv, StartRuns, PendingRuns, PendingStops, OneWaiter, My
<1>0. /\ InstOf \in [Call -> Inst] /\ None \notin Call
      /\ pending \in [Call -> Call \cup {None}]
      /\ \A i \in Inst : rt[i].startPromise \in Call \cup {None}
  BY ConstAssumption DEF TypeOK, Fields
<1>1. CASE NoNewStart
  <2>1. StartRuns'
    BY <1>0, <1>1 DEF NoNewStart
  <2>2. PendingRuns'
    BY <1>0, <1>1 DEF NoNewStart, AwaitsStart
  <2>3. PendingStops'
    BY <1>0, <1>1 DEF NoNewStart, AwaitsStart
  <2>4. OneWaiter'
    BY <1>0, <1>1 DEF NoNewStart
  <2>5. QED
    BY <2>1, <2>2, <2>3, <2>4
<1>2. CASE BeginsStart(c)
  <2>0. /\ \A s \in Call : AwaitsStart(s)' => s # c /\ AwaitsStart(s) /\ pending'[s] = pending[s]
        /\ \A s \in Call : AwaitsStart(s) => pending[s] # c
    BY <1>0, <1>2 DEF BeginsStart, AwaitsStart, StartPC
  <2>1. StartRuns'
    BY <1>0, <1>2 DEF BeginsStart
  <2>2. PendingRuns'
    BY <1>0, <1>2, <2>0 DEF BeginsStart, AwaitsStart
  <2>3. PendingStops'
    BY <1>0, <1>2, <2>0 DEF BeginsStart, AwaitsStart
  <2>4. OneWaiter'
    BY <1>0, <1>2, <2>0
  <2>5. QED
    BY <2>1, <2>2, <2>3, <2>4
<1>3. CASE BeginsStop(c)
  <2>0. /\ \A s \in Call \ {c} : AwaitsStart(s)' => AwaitsStart(s) /\ pending'[s] = pending[s]
        /\ AwaitsStart(c)' => /\ My(c).state = "starting"
                              /\ pending'[c] = My(c).startPromise
                              /\ My(c).startPromise # None
    BY <1>0, <1>3 DEF BeginsStop, AwaitsStart
  <2>a. \A d \in Call : pc[d] \in StartPC \cup {"done", "startaborted"} => pc'[d] = pc[d]
    BY <1>3 DEF BeginsStop, StartPC
  <2>1. StartRuns'
    BY <1>0, <1>3, <2>a DEF BeginsStop
  <2>2. PendingRuns'
    BY <1>0, <1>3, <2>0, <2>a DEF BeginsStop, AwaitsStart
  <2>3. PendingStops'
    BY <1>0, <1>3, <2>0 DEF BeginsStop, AwaitsStart
  <2>4. OneWaiter'
    BY <1>0, <2>0
  <2>5. QED
    BY <2>1, <2>2, <2>3, <2>4
<1>4. QED
  BY <1>1, <1>2, <1>3

-----------------------------------------------------------------------------
(* The effects of the fragments that the operations share *)

(* r is what a call leaves of its instance's fields, but for the state, which *)
(* it may take out of "starting", and what no effect depends on.             *)
Agrees(c, r) ==
  /\ r \in Fields
  /\ r.ownerHeld = My(c).ownerHeld
  /\ r.startPromise = My(c).startPromise
  /\ r.state = "starting" => My(c).state = "starting"

LEMMA PutGoto ==
  ASSUME TypeOK, NEW c \in Call
  PROVE  /\ \A r : Put(c, r) => /\ rt'[InstOf[c]] = r
                                /\ \A i \in Inst \ {InstOf[c]} : rt'[i] = rt[i]
         /\ \A to : Goto(c, to) => /\ pc'[c] = to
                                   /\ \A d \in Call \ {c} : pc'[d] = pc[d]
BY ConstAssumption DEF TypeOK, Put, Goto

LEMMA AgreesMy ==
  ASSUME TypeOK, NEW c \in Call
  PROVE  /\ Agrees(c, My(c))
         /\ \A to \in State \ {"starting"} : Agrees(c, Move(My(c), to))
<1>1. My(c) \in Fields
  BY MyType
<1>2. \A to \in State : Move(My(c), to) \in Fields
  BY <1>1, MoveType
<1>3. QED
  BY <1>1, <1>2 DEF Agrees, Move, Fields

(* A call that stays what it is to the lock and to the starts. *)
LEMMA PlainMove ==
  ASSUME TypeOK, StartInv, NEW c \in Call, NEW r, Agrees(c, r), NEW to,
         Put(c, r), Goto(c, to), pc[c] \notin {"done", "startaborted"},
         to \notin {"failrelease", "stoprelease", "insrelease"}, ~Releasing(c),
         pc[c] \in StartPC => to \in StartPC,
         to \in {"stopjoin", "stopwait"} => AwaitsStart(c) /\ pending'[c] = pending[c],
         \A d \in Call \ {c} : pending'[d] = pending[d]
  PROVE  /\ lock' = lock => SameLock
         /\ NoNewStart
<1> USE PutGoto, ConstAssumption DEF Agrees, My
<1>1. lock' = lock => SameLock
  BY DEF SameLock, Releasing
<1>2. \A i \in Inst :
       /\ rt'[i].startPromise = rt[i].startPromise
       /\ rt'[i].state = "starting" => rt[i].state = "starting"
  OBVIOUS
<1>3. \A i \in Inst : rt[i].startPromise # None => pc'[rt[i].startPromise] \in StartPC
  BY DEF StartInv, StartRuns, TypeOK, Fields
<1>4. \A d \in Call : AwaitsStart(d)' => AwaitsStart(d) /\ pending'[d] = pending[d]
  BY DEF AwaitsStart
<1>5. \A d \in Call : pc[d] \in StartPC \cup {"done", "startaborted"} => pc'[d] \in StartPC \cup {"done", "startaborted"}
  OBVIOUS
<1>6. QED
  BY <1>1, <1>2, <1>3, <1>4, <1>5 DEF NoNewStart

LEMMA DropOwnerEffect ==
  ASSUME TypeOK, StartInv, NEW c \in Call, NEW r, Agrees(c, r),
         NEW releasing \in {"failrelease", "stoprelease"}, NEW released \in {"failremove", "stopremove"},
         DropOwner(c, r, releasing, released), ~Releasing(c), pc[c] \notin {"done", "startaborted"},
         pc[c] \in StartPC => {releasing, released} \subseteq StartPC,
         \A d \in Call \ {c} : pending'[d] = pending[d]
  PROVE  /\ lock' = lock => SameLock \/ DropsLock(c)
         /\ NoNewStart
<1> DEFINE s == [r EXCEPT !.processHandle = None, !.ownerHeld = FALSE]
<1>1. /\ rt'[InstOf[c]] = s
      /\ \A i \in Inst \ {InstOf[c]} : rt'[i] = rt[i]
      /\ pc'[c] = IF r.ownerHeld THEN releasing ELSE released
      /\ \A d \in Call \ {c} : pc'[d] = pc[d]
  BY PutGoto DEF DropOwner
<1>2. s.ownerHeld = FALSE /\ s.startPromise = r.startPromise /\ s.state = r.state
  BY DEF Agrees, Fields
<1>3. r.ownerHeld \in BOOLEAN
  BY DEF Agrees, Fields
<1> HIDE DEF s
<1> USE ConstAssumption DEF Agrees, My
<1>4. ASSUME lock' = lock, r.ownerHeld PROVE DropsLock(c)
  BY <1>1, <1>2, <1>4 DEF DropsLock, Releasing
<1>5. ASSUME lock' = lock, ~r.ownerHeld PROVE SameLock
  BY <1>1, <1>2, <1>3, <1>5 DEF SameLock, Releasing
<1>6. \A i \in Inst :
       /\ rt'[i].startPromise = rt[i].startPromise
       /\ rt'[i].state = "starting" => rt[i].state = "starting"
  BY <1>1, <1>2
<1>7. \A i \in Inst : rt[i].startPromise # None => pc'[rt[i].startPromise] \in StartPC
  BY <1>1 DEF StartInv, StartRuns, TypeOK, Fields
<1>8. \A d \in Call :
       /\ AwaitsStart(d)' => AwaitsStart(d) /\ pending'[d] = pending[d]
       /\ pc[d] \in StartPC \cup {"done", "startaborted"} => pc'[d] \in StartPC \cup {"done", "startaborted"}
  BY <1>1 DEF AwaitsStart
<1>9. QED
  BY <1>4, <1>5, <1>6, <1>7, <1>8 DEF NoNewStart

LEMMA FailEffect ==
  ASSUME TypeOK, StartInv, NEW c \in Call, NEW r, Agrees(c, r), NEW processes,
         Fail(c, r, processes), pc[c] \in StartPC, ~Releasing(c),
         \A d \in Call \ {c} : pending'[d] = pending[d]
  PROVE  /\ lock' = lock => SameLock \/ DropsLock(c)
         /\ NoNewStart
<1>1. {"failjoin", "failrelease", "failremove"} \subseteq StartPC /\ {"done", "startaborted"} \cap StartPC = {}
  BY DEF StartPC
<1>2. CASE r.processHandle # None
  BY <1>1, <1>2, PlainMove DEF Fail
<1>3. CASE r.processHandle = None
  BY <1>1, <1>3, DropOwnerEffect DEF Fail
<1>4. QED
  BY <1>2, <1>3

(* One stop() at most is woken; it begins to release what the start held. *)
LEMMA StartEndsEffect ==
  ASSUME TypeOK, StartInv, NEW c \in Call, NEW r, Agrees(c, r),
         NEW how \in {"done", "startaborted"}, StartEnds(c, r, how), pc[c] \in StartPC, ~Releasing(c), UNCHANGED pending
  PROVE  /\ lock' = lock => SameLock \/ \E s \in Call : DropsLock(s)
         /\ NoNewStart
<1> DEFINE ended   == [r EXCEPT !.startPromise = None]
           dropped == [ended EXCEPT !.processHandle = None, !.ownerHeld = FALSE]
           waiters == {s \in Call : pc[s] = "stopwait" /\ pending[s] = c}
           woken   == IF ended.ownerHeld THEN "stoprelease" ELSE "stopremove"
<1>1. /\ ended.startPromise = None /\ ended.ownerHeld = r.ownerHeld /\ ended.state = r.state
      /\ dropped.startPromise = None /\ dropped.ownerHeld = FALSE /\ dropped.state = r.state
      /\ r.ownerHeld \in BOOLEAN
  BY DEF Agrees, Fields
<1>2. /\ rt'[InstOf[c]] = IF waiters = {} THEN ended ELSE dropped
      /\ \A i \in Inst \ {InstOf[c]} : rt'[i] = rt[i]
      /\ \A x \in Call : pc'[x] = IF x = c THEN how ELSE IF x \in waiters THEN woken ELSE pc[x]
  BY PutGoto DEF StartEnds
<1>3. /\ c \notin waiters
      /\ \A s \in waiters : AwaitsStart(s) /\ InstOf[s] = InstOf[c]
      /\ \A s, t \in waiters : s = t
  BY ConstAssumption DEF AwaitsStart, StartInv, PendingRuns, OneWaiter, StartPC
<1>4. woken = IF r.ownerHeld THEN "stoprelease" ELSE "stopremove"
  BY <1>1
<1>5. waiters \subseteq Call /\ \A s \in waiters : pc[s] = "stopwait"
  OBVIOUS
<1> HIDE DEF ended, dropped, waiters, woken
<1> USE ConstAssumption DEF Agrees, My
<1>6. ASSUME lock' = lock, waiters = {} PROVE SameLock
  BY <1>1, <1>2, <1>6 DEF SameLock, Releasing
<1>7. ASSUME lock' = lock, NEW s \in waiters PROVE SameLock \/ DropsLock(s)
  <2>1. waiters = {s} /\ s \in Call /\ s # c /\ InstOf[s] = InstOf[c]
    BY <1>3, <1>5
  <2>2. CASE r.ownerHeld
    <3>1. /\ My(s).ownerHeld /\ ~rt'[InstOf[s]].ownerHeld
          /\ \A i \in Inst \ {InstOf[s]} : rt'[i].ownerHeld = rt[i].ownerHeld
      BY <1>1, <1>2, <2>1, <2>2
    <3>2. Releasing(s)' /\ \A d \in Call \ {s} : Releasing(d)' <=> Releasing(d)
      BY <1>2, <1>4, <2>1, <2>2 DEF Releasing
    <3>3. QED
      BY <1>7, <3>1, <3>2 DEF DropsLock
  <2>3. CASE ~r.ownerHeld
    <3>1. \A i \in Inst : rt'[i].ownerHeld = rt[i].ownerHeld
      BY <1>1, <1>2, <2>1, <2>3
    <3>2. \A d \in Call : Releasing(d)' <=> Releasing(d)
      BY <1>2, <1>4, <1>5, <2>1, <2>3 DEF Releasing
    <3>3. QED
      BY <1>7, <3>1, <3>2 DEF SameLock
  <2>4. QED
    BY <2>2, <2>3
<1>8. NoNewStart
  <2>1. \A i \in Inst :
       /\ rt'[i].startPromise \in {rt[i].startPromise, None}
       /\ rt'[i].state = "starting" => rt[i].state = "starting"
    BY <1>1, <1>2
  <2>2. \A i \in Inst : rt'[i].startPromise # None => pc'[rt'[i].startPromise] \in StartPC
    <3> SUFFICES ASSUME NEW i \in Inst, rt'[i].startPromise # None
                 PROVE  pc'[rt'[i].startPromise] \in StartPC
      OBVIOUS
    <3>1. i # InstOf[c] /\ rt'[i] = rt[i]
      BY <1>1, <1>2
    <3>2. rt[i].startPromise \in Call /\ rt[i].startPromise # c /\ pc[rt[i].startPromise] \in StartPC
      BY <3>1 DEF TypeOK, Fields, StartInv, StartRuns
    <3>3. "stopwait" \notin StartPC
      BY DEF StartPC
    <3>4. QED
      BY <1>2, <1>5, <3>1, <3>2, <3>3
  <2>3. woken \notin {"stopjoin", "stopwait"}
    BY <1>4
  <2>4. \A d \in Call :
       /\ pc[d] \in StartPC \cup {"done", "startaborted"} => pc'[d] \in StartPC \cup {"done", "startaborted"}
       /\ AwaitsStart(d)' => AwaitsStart(d) /\ pending'[d] = pending[d]
    BY <1>2, <1>5, <2>3 DEF AwaitsStart, StartPC
  <2>5. QED
    BY <2>1, <2>2, <2>4 DEF NoNewStart
<1>9. QED
  BY <1>5, <1>6, <1>7, <1>8

LEMMA EnterStartEffect ==
  ASSUME TypeOK, StartInv, NEW c \in Call, NEW r, Agrees(c, r),
         EnterStart(c, r), pc[c] \notin StartPC \cup {"done", "startaborted"}, ~Releasing(c), UNCHANGED pending
  PROVE  /\ lock' = lock => SameLock
         /\ NoNewStart \/ BeginsStart(c)
<1>1. CASE Put(c, r) /\ Goto(c, "done")
  BY <1>1, PlainMove
<1> DEFINE s == [r EXCEPT !.state = "starting", !.stopRequested = FALSE, !.startPromise = c]
<1>2. ASSUME r.startPromise = None, NEW to \in {"load", "validate"}, Put(c, s), Goto(c, to)
      PROVE  (lock' = lock => SameLock) /\ BeginsStart(c)
  <2>1. s.ownerHeld = r.ownerHeld /\ s.startPromise = c
    BY DEF Agrees, Fields
  <2> HIDE DEF s
  <2>2. lock' = lock => SameLock
    BY <1>2, <2>1, PutGoto, ConstAssumption DEF SameLock, Releasing, Agrees, My
  <2>3. QED
    BY <1>2, <2>1, <2>2, PutGoto DEF BeginsStart, StartPC, Agrees
<1>3. QED
  BY <1>1, <1>2 DEF EnterStart

LEMMA StopReturnsEffect ==
  ASSUME TypeOK, StartInv, NEW c \in Call, NEW r, Agrees(c, r),
         NEW o \in {"stop", "restart", "dispose"},
         StopReturns(c, r, o), pc[c] \notin StartPC \cup {"done", "startaborted"}, ~Releasing(c), UNCHANGED pending
  PROVE  /\ lock' = lock => SameLock
         /\ NoNewStart \/ BeginsStart(c)
<1>1. CASE o = "stop"
  BY <1>1, PlainMove DEF StopReturns
<1>2. CASE o = "restart"
  BY <1>2, EnterStartEffect DEF StopReturns
<1>3. CASE o = "dispose"
  <2>1. Agrees(c, [r EXCEPT !.state = IF @ = "stopped" THEN "disabled" ELSE @, !.disposed = TRUE])
    BY DEF Agrees, Fields, State
  <2>2. QED
    BY <1>3, <2>1, PlainMove DEF StopReturns
<1>4. QED
  BY <1>1, <1>2, <1>3

LEMMA EnterStopEffect ==
  ASSUME TypeOK, StartInv, NEW c \in Call, NEW o \in {"stop", "restart", "dispose"},
         EnterStop(c, My(c), o), pc[c] = "idle", lock' = lock
  PROVE  /\ SameLock \/ DropsLock(c)
         /\ NoNewStart \/ BeginsStart(c) \/ BeginsStop(c)
<1>0. Agrees(c, My(c)) /\ "idle" \notin StartPC \cup {"done", "startaborted"} /\ ~Releasing(c)
  BY AgreesMy DEF StartPC, Releasing
<1>1. CASE My(c).state \in {"disabled", "stopped"}
  BY <1>0, <1>1, PlainMove DEF EnterStop
<1>2. CASE My(c).state = "stopping"
  BY <1>0, <1>2, StopReturnsEffect DEF EnterStop
<1>3. CASE My(c).state \in {"starting", "ready", "degraded", "failed"}
  <2> DEFINE start == IF My(c).state = "starting" THEN My(c).startPromise ELSE None
             s == [My(c) EXCEPT !.state = "stopping",
                                !.stopRequested = IF start # None THEN TRUE ELSE @]
  <2>0. My(c) \in Fields
    BY MyType
  <2>1. pending' = [pending EXCEPT ![c] = start]
    BY <1>3 DEF EnterStop
  <2>2. \/ Put(c, s) /\ Goto(c, "stopjoin")
        \/ Put(c, s) /\ Goto(c, "stopwait")
        \/ DropOwner(c, s, "stoprelease", "stopremove")
    BY <1>3 DEF EnterStop
  <2>3. Agrees(c, s) /\ s.state = "stopping"
    BY <2>0 DEF Agrees, Fields, State
  <2>4. pending'[c] = start /\ \A d \in Call \ {c} : pending'[d] = pending[d]
    BY <2>1 DEF TypeOK
  <2> HIDE DEF s
  <2>5. CASE (Put(c, s) /\ Goto(c, "stopjoin")) \/ (Put(c, s) /\ Goto(c, "stopwait"))
    <3>1. /\ rt'[InstOf[c]] = s
          /\ \A i \in Inst \ {InstOf[c]} : rt'[i] = rt[i]
          /\ pc'[c] \in {"stopjoin", "stopwait"}
          /\ \A d \in Call \ {c} : pc'[d] = pc[d]
      BY <2>5, PutGoto
    <3>2. SameLock
      BY <2>3, <3>1, ConstAssumption DEF SameLock, Releasing, Agrees, My
    <3>3. BeginsStop(c)
      BY <2>3, <2>4, <3>1, ConstAssumption DEF BeginsStop, StopPC, Agrees, My
    <3>4. QED
      BY <3>2, <3>3
  <2>6. CASE DropOwner(c, s, "stoprelease", "stopremove")
    BY <1>0, <2>3, <2>4, <2>6, DropOwnerEffect
  <2>7. QED
    BY <2>2, <2>5, <2>6
<1>4. QED
  BY <1>1, <1>2, <1>3, MyType DEF Fields, State

-----------------------------------------------------------------------------
(* The inductive invariant is preserved *)

LEMMA InitIInv == Init => IInv
<1> SUFFICES ASSUME Init PROVE IInv
  OBVIOUS
<1> USE ConstAssumption
<1>1. /\ pc = [c \in Call |-> "idle"] /\ op = [c \in Call |-> None]
      /\ \A i \in Inst : rt[i] \in [state         : {"stopped", "disabled"},
                                    ownerHeld     : {FALSE},
                                    processHandle : {None},
                                    startPromise  : {None},
                                    stopRequested : {FALSE},
                                    disposed      : {FALSE}]
      /\ lock = None
  BY DEF Init
<1>2. rt \in [Inst -> Fields]
  BY DEF Init, Fields, State
<1>3. mode \in [Inst -> {"managed", "external"}]
  BY DEF Init
<1>4. TypeOK
  BY <1>2, <1>3 DEF Init, TypeOK, PC
<1>5. StopOp
  BY <1>1 DEF StopOp, StopPC
<1>6. LockInv
  BY <1>1 DEF LockInv, HeldIsLocked, LockIsHeld, ReleaseUnderway, OneRelease, Releasing
<1>7. StartInv
  BY <1>1 DEF StartInv, StartRuns, PendingRuns, PendingStops, OneWaiter, AwaitsStart
<1>8. QED
  BY <1>4, <1>5, <1>6, <1>7 DEF IInv

(* An action that leaves its instance's owner and start alone. *)
LEMMA StillEffect ==
  ASSUME TypeOK, StartInv, NEW c \in Call, NEW to, Goto(c, to), UNCHANGED <<rt, pending>>,
         pc[c] \notin {"done", "startaborted"}, pc[c] \in StartPC => to \in StartPC,
         to \in {"stopjoin", "stopwait"} => AwaitsStart(c)
  PROVE  /\ lock' = lock /\ ~Releasing(c) /\ to \notin {"failrelease", "stoprelease", "insrelease"}
              => SameLock
         /\ NoNewStart
<1> USE PutGoto, ConstAssumption
<1>1. \A i \in Inst : rt[i].startPromise # None => pc'[rt[i].startPromise] \in StartPC
  BY DEF StartInv, StartRuns, TypeOK, Fields
<1>2. \A d \in Call : AwaitsStart(d)' => AwaitsStart(d) /\ pending'[d] = pending[d]
  BY DEF AwaitsStart
<1>3. \A d \in Call : pc[d] \in StartPC \cup {"done", "startaborted"} => pc'[d] \in StartPC \cup {"done", "startaborted"}
  OBVIOUS
<1>4. NoNewStart
  BY <1>1, <1>2, <1>3 DEF NoNewStart
<1>5. QED
  BY <1>4 DEF SameLock, Releasing

LEMMA StartStepEffect ==
  ASSUME TypeOK, StartInv, NEW c \in Call, StartStep(c)
  PROVE  /\ \E s \in Call : SameLock \/ DropsLock(s) \/ FreesLock(s) \/ TakesLock(s)
         /\ NoNewStart
<1> USE AgreesMy
<1>a. {"load", "acquire", "portprobe", "configure", "readiness",
       "failjoin", "failrelease", "failremove", "validate", "probe"} \subseteq StartPC
  BY DEF StartPC
<1>b. \A here : At(c, here) => pc[c] = here /\ UNCHANGED pending
  BY DEF At
<1>c. pc[c] \notin {"failrelease", "stoprelease", "insrelease"} => ~Releasing(c)
  BY DEF Releasing
<1>1. CASE Loaded(c)
  BY <1>1, <1>a, <1>b, <1>c, FailEffect, StillEffect DEF Loaded
<1>2. CASE LoadFails(c)
  BY <1>2, <1>a, <1>b, <1>c, FailEffect DEF LoadFails
<1>3. CASE Acquired(c)
  <2> DEFINE r == [My(c) EXCEPT !.ownerHeld = TRUE]
  <2>1. /\ r.ownerHeld = TRUE /\ r.startPromise = My(c).startPromise
        /\ r.state = My(c).state /\ r \in Fields
    BY MyType DEF Fields
  <2>2. pc[c] = "acquire" /\ lock = None /\ lock' = InstOf[c] /\ UNCHANGED pending
    BY <1>3 DEF Acquired, At
  <2>3. \/ Put(c, r) /\ (Goto(c, "portprobe") \/ Goto(c, "failjoin"))
        \/ DropOwner(c, r, "failrelease", "failremove")
    BY <1>3 DEF Acquired, Fail
  <2> DEFINE s == [r EXCEPT !.processHandle = None, !.ownerHeld = FALSE]
  <2>4. s.ownerHeld = FALSE /\ s.startPromise = My(c).startPromise /\ s.state = My(c).state
    BY <2>1 DEF Fields
  <2>5. \/ Put(c, r) /\ (Goto(c, "portprobe") \/ Goto(c, "failjoin"))
        \/ Put(c, s) /\ Goto(c, "failrelease")
    BY <2>1, <2>3 DEF DropOwner
  <2> HIDE DEF r, s
  <2>6. /\ \A i \in Inst \ {InstOf[c]} : rt'[i] = rt[i]
        /\ \A d \in Call \ {c} : pc'[d] = pc[d]
        /\ \/ rt'[InstOf[c]] = r /\ pc'[c] \in {"portprobe", "failjoin"}
           \/ rt'[InstOf[c]] = s /\ pc'[c] = "failrelease"
    BY <2>5, PutGoto
  <2>7. TakesLock(c)
    BY <2>1, <2>2, <2>4, <2>6, ConstAssumption DEF TakesLock, Releasing
  <2>8. NoNewStart
    <3>1. \A i \in Inst :
            /\ rt'[i].startPromise = rt[i].startPromise
            /\ rt'[i].state = "starting" => rt[i].state = "starting"
      BY <2>1, <2>4, <2>6, ConstAssumption DEF My
    <3>2. pc'[c] \in StartPC
      BY <1>a, <2>6
    <3>3. \A i \in Inst : rt[i].startPromise # None => pc'[rt[i].startPromise] \in StartPC
      BY <2>6, <3>2 DEF StartInv, StartRuns, TypeOK, Fields
    <3>4. \A d \in Call :
            /\ pc[d] \in StartPC \cup {"done", "startaborted"} => pc'[d] \in StartPC \cup {"done", "startaborted"}
            /\ AwaitsStart(d)' => AwaitsStart(d) /\ pending'[d] = pending[d]
      BY <2>2, <2>6, <3>2 DEF AwaitsStart
    <3>5. QED
      BY <3>1, <3>3, <3>4 DEF NoNewStart
  <2>9. QED
    BY <2>7, <2>8
<1>4. CASE AcquireFails(c)
  BY <1>4, <1>a, <1>b, <1>c, FailEffect DEF AcquireFails
<1>5. CASE PortFree(c)
  BY <1>5, <1>a, <1>b, <1>c, StillEffect DEF PortFree
<1>6. CASE PortProbeFails(c)
  BY <1>6, <1>a, <1>b, <1>c, FailEffect DEF PortProbeFails
<1>7. CASE Spawned(c)
  <2> DEFINE r == [My(c) EXCEPT !.processHandle = c]
             processes == [child EXCEPT ![c] = "running"]
  <2>1. Agrees(c, r)
    BY MyType DEF Agrees, Fields
  <2>2. /\ pc[c] = "configure" /\ lock' = lock /\ UNCHANGED pending
        /\ Fail(c, r, processes) \/ (Put(c, r) /\ Goto(c, "readiness"))
    BY <1>7 DEF Spawned, At
  <2> HIDE DEF r, processes
  <2>3. QED
    BY <1>a, <1>c, <2>1, <2>2, FailEffect, PlainMove
<1>8. CASE SpawnFails(c)
  BY <1>8, <1>a, <1>b, <1>c, FailEffect DEF SpawnFails
<1>d. {"ready", "degraded", "failed", "stopped"} \subseteq State \ {"starting"}
  BY DEF State
<1>9. CASE Ready(c)
  BY <1>9, <1>a, <1>b, <1>c, <1>d, FailEffect, StartEndsEffect DEF Ready
<1>10. CASE ReadinessFails(c)
  BY <1>10, <1>a, <1>b, <1>c, FailEffect DEF ReadinessFails
<1>11. CASE FailJoined(c)
  BY <1>11, <1>a, <1>b, <1>c, DropOwnerEffect DEF FailJoined
<1>12. CASE FailReleased(c)
  <2>1. /\ pc[c] = "failrelease" /\ ReleaseLock(c) /\ Goto(c, "failremove") /\ UNCHANGED <<rt, pending>>
    BY <1>12 DEF FailReleased, At
  <2>2. FreesLock(c)
    BY <2>1, PutGoto DEF FreesLock, Releasing
  <2>3. QED
    BY <1>a, <2>1, <2>2, StillEffect
<1>13. CASE FailRemoved(c)
  BY <1>13, <1>a, <1>b, <1>c, <1>d, StartEndsEffect DEF FailRemoved
<1>14. CASE Validated(c)
  BY <1>14, <1>a, <1>b, <1>c, <1>d, StillEffect, StartEndsEffect DEF Validated
<1>15. CASE Probed(c)
  BY <1>15, <1>a, <1>b, <1>c, <1>d, StartEndsEffect DEF Probed
<1>16. CASE FailRemoveFails(c)
  BY <1>16, <1>a, <1>b, <1>c, StartEndsEffect DEF FailRemoveFails
<1>17. QED
  BY <1>1, <1>2, <1>3, <1>4, <1>5, <1>6, <1>7, <1>8, <1>9, <1>10, <1>11, <1>12,
     <1>13, <1>14, <1>15, <1>16 DEF StartStep

LEMMA StopStepEffect ==
  ASSUME TypeOK, StopOp, StartInv, NEW c \in Call, StopStep(c)
  PROVE  /\ SameLock \/ DropsLock(c) \/ FreesLock(c)
         /\ NoNewStart \/ BeginsStart(c)
<1> USE AgreesMy
<1>a. \A here : At(c, here) => pc[c] = here /\ UNCHANGED pending
  BY DEF At
<1>b. pc[c] \notin {"failrelease", "stoprelease", "insrelease"} => ~Releasing(c)
  BY DEF Releasing
<1>c. {"stopidle", "stopjoin", "stoprelease", "stopremove"} \cap (StartPC \cup {"done", "startaborted"}) = {}
  BY DEF StartPC
<1>d. pc[c] \in {"stopidle", "stopremove"} => op[c] \in {"stop", "restart", "dispose"}
  BY DEF StopOp, StopPC
<1>1. CASE StopIdleRemoved(c)
  BY <1>1, <1>a, <1>b, <1>c, <1>d, StopReturnsEffect DEF StopIdleRemoved
<1>2. CASE StopJoined(c)
  <2>1. pc[c] = "stopjoin" /\ lock' = lock /\ UNCHANGED pending
    BY <1>2, <1>a DEF StopJoined
  <2>2. CASE pending[c] # None /\ Goto(c, "stopwait") /\ UNCHANGED rt
    BY <1>b, <1>c, <2>1, <2>2, StillEffect DEF AwaitsStart
  <2>3. CASE DropOwner(c, My(c), "stoprelease", "stopremove")
    BY <1>b, <1>c, <2>1, <2>3, DropOwnerEffect
  <2>4. QED
    BY <1>2, <2>2, <2>3 DEF StopJoined
<1>3. CASE StopReleased(c)
  <2>1. /\ pc[c] = "stoprelease" /\ ReleaseLock(c) /\ Goto(c, "stopremove") /\ UNCHANGED <<rt, pending>>
    BY <1>3 DEF StopReleased, At
  <2>2. FreesLock(c)
    BY <2>1, PutGoto DEF FreesLock, Releasing
  <2>3. QED
    BY <1>c, <2>1, <2>2, StillEffect
<1>4. CASE StopRemoved(c)
  <2>1. pc[c] = "stopremove" /\ lock' = lock /\ UNCHANGED pending
    BY <1>4, <1>a DEF StopRemoved
  <2>2. Agrees(c, [My(c) EXCEPT !.state = "stopped", !.stopRequested = FALSE])
    BY MyType DEF Agrees, Fields, State
  <2>3. CASE Goto(c, "done") /\ UNCHANGED rt
    BY <1>b, <1>c, <2>1, <2>3, StillEffect
  <2>4. CASE StopReturns(c, [My(c) EXCEPT !.state = "stopped", !.stopRequested = FALSE], op[c])
    BY <1>b, <1>c, <1>d, <2>1, <2>2, <2>4, StopReturnsEffect
  <2>5. QED
    BY <1>4, <2>3, <2>4 DEF StopRemoved
<1>5. CASE StopRemoveFails(c)
  BY <1>5, <1>a, <1>b, <1>c, StillEffect DEF StopRemoveFails
<1>6. QED
  BY <1>1, <1>2, <1>3, <1>4, <1>5 DEF StopStep

LEMMA InstallStepEffect ==
  ASSUME TypeOK, StartInv, NEW c \in Call, InstallStep(c)
  PROVE  /\ SameLock \/ DropsLock(c) \/ FreesLock(c) \/ TakesLock(c)
         /\ NoNewStart
<1>a. \A here : At(c, here) => pc[c] = here /\ UNCHANGED pending
  BY DEF At
<1>b. pc[c] \notin {"failrelease", "stoprelease", "insrelease"} => ~Releasing(c)
  BY DEF Releasing
<1>c. {"prepare", "insacquire", "inswork", "insrelease"} \cap (StartPC \cup {"done", "startaborted"}) = {}
  BY DEF StartPC
(* The fields but ownerHeld stay, and c stays out of start() and stop(). *)
<1>d. ASSUME NEW b \in BOOLEAN, NEW to \in {"inswork", "insrelease", "done"},
             Put(c, [My(c) EXCEPT !.ownerHeld = b]), Goto(c, to), UNCHANGED pending,
             pc[c] \in InstallPC
      PROVE  /\ rt'[InstOf[c]].ownerHeld = b
             /\ \A i \in Inst \ {InstOf[c]} : rt'[i] = rt[i]
             /\ pc'[c] = to /\ \A d \in Call \ {c} : pc'[d] = pc[d]
             /\ NoNewStart
  <2>1. /\ [My(c) EXCEPT !.ownerHeld = b].ownerHeld = b
        /\ [My(c) EXCEPT !.ownerHeld = b].startPromise = My(c).startPromise
        /\ [My(c) EXCEPT !.ownerHeld = b].state = My(c).state
    BY MyType DEF Fields
  <2> DEFINE r == [My(c) EXCEPT !.ownerHeld = b]
  <2> HIDE DEF r
  <2>2. /\ rt'[InstOf[c]] = r
        /\ \A i \in Inst \ {InstOf[c]} : rt'[i] = rt[i]
        /\ pc'[c] = to /\ \A d \in Call \ {c} : pc'[d] = pc[d]
    BY <1>d, PutGoto DEF r
  <2>3. r.ownerHeld = b /\ r.startPromise = My(c).startPromise /\ r.state = My(c).state
    BY <2>1 DEF r
  <2>4. \A i \in Inst :
          rt'[i].startPromise = rt[i].startPromise /\ rt'[i].state = rt[i].state
    BY <2>2, <2>3 DEF My
  <2>5. pc[c] \notin StartPC \cup {"done", "startaborted"}
    BY <1>d DEF InstallPC, StartPC
  <2>6. \A i \in Inst : rt[i].startPromise # None => pc'[rt[i].startPromise] \in StartPC
    BY <2>2, <2>5 DEF StartInv, StartRuns, TypeOK, Fields
  <2>7. \A d \in Call :
          /\ pc[d] \in StartPC \cup {"done", "startaborted"} => pc'[d] \in StartPC \cup {"done", "startaborted"}
          /\ AwaitsStart(d)' => AwaitsStart(d) /\ pending'[d] = pending[d]
    BY <1>d, <2>2, <2>5 DEF AwaitsStart
  <2>8. QED
    BY <2>2, <2>3, <2>4, <2>6, <2>7 DEF NoNewStart
<1>1. CASE InstallPrepared(c)
  BY <1>1, <1>a, <1>b, <1>c, StillEffect DEF InstallPrepared
<1>2. CASE InstallAcquires(c)
  <2>1. CASE Goto(c, "done") /\ UNCHANGED <<rt, lock>>
    BY <1>2, <1>a, <1>b, <1>c, <2>1, StillEffect DEF InstallAcquires
  <2>2. CASE /\ lock = None /\ lock' = InstOf[c] /\ Goto(c, "inswork")
             /\ Put(c, [My(c) EXCEPT !.ownerHeld = TRUE])
    <3>1. pc[c] = "insacquire" /\ UNCHANGED pending
      BY <1>2, <1>a DEF InstallAcquires
    <3>2. /\ rt'[InstOf[c]].ownerHeld = TRUE
          /\ \A i \in Inst \ {InstOf[c]} : rt'[i] = rt[i]
          /\ pc'[c] = "inswork" /\ \A d \in Call \ {c} : pc'[d] = pc[d]
          /\ NoNewStart
      BY <1>d, <2>2, <3>1 DEF InstallPC
    <3>3. QED
      BY <2>2, <3>2, ConstAssumption DEF TakesLock, Releasing
  <2>3. QED
    BY <1>2, <2>1, <2>2 DEF InstallAcquires
<1>3. CASE InstallWorked(c)
  <2>1. /\ pc[c] = "inswork" /\ UNCHANGED <<pending, lock>>
        /\ Put(c, [My(c) EXCEPT !.ownerHeld = FALSE])
        /\ Goto(c, IF My(c).ownerHeld THEN "insrelease" ELSE "done")
    BY <1>3 DEF InstallWorked, At
  <2>2. /\ rt'[InstOf[c]].ownerHeld = FALSE
        /\ \A i \in Inst \ {InstOf[c]} : rt'[i] = rt[i]
        /\ pc'[c] = IF My(c).ownerHeld THEN "insrelease" ELSE "done"
        /\ \A d \in Call \ {c} : pc'[d] = pc[d]
        /\ NoNewStart
    BY <1>d, <2>1 DEF InstallPC
  <2>3. My(c).ownerHeld \in BOOLEAN
    BY MyType DEF Fields
  <2>4. CASE My(c).ownerHeld
    BY <2>1, <2>2, <2>4, ConstAssumption DEF DropsLock, Releasing
  <2>5. CASE ~My(c).ownerHeld
    BY <2>1, <2>2, <2>3, <2>5, ConstAssumption DEF SameLock, Releasing, My
  <2>6. QED
    BY <2>2, <2>4, <2>5
<1>4. CASE InstallReleased(c)
  <2>1. /\ pc[c] = "insrelease" /\ ReleaseLock(c) /\ Goto(c, "done") /\ UNCHANGED <<rt, pending>>
    BY <1>4 DEF InstallReleased, At
  <2>2. FreesLock(c)
    BY <2>1, PutGoto DEF FreesLock, Releasing
  <2>3. QED
    BY <1>c, <2>1, <2>2, StillEffect
<1>5. CASE InstallRefused(c)
  <2>1. pc[c] = "insacquire" /\ UNCHANGED pending
    BY <1>5, <1>a DEF InstallRefused
  <2>2. /\ rt'[InstOf[c]].ownerHeld = TRUE
        /\ \A i \in Inst \ {InstOf[c]} : rt'[i] = rt[i]
        /\ pc'[c] = "done" /\ \A d \in Call \ {c} : pc'[d] = pc[d]
        /\ NoNewStart
    BY <1>d, <1>5, <2>1 DEF InstallRefused, InstallPC
  <2>3. QED
    BY <1>5, <2>2, ConstAssumption DEF InstallRefused, TakesLock, Releasing
<1>6. QED
  BY <1>1, <1>2, <1>3, <1>4, <1>5 DEF InstallStep

LEMMA CallBeginsEffect ==
  ASSUME TypeOK, StartInv, NEW c \in Call, CallBegins(c)
  PROVE  /\ SameLock \/ DropsLock(c)
         /\ NoNewStart \/ BeginsStart(c) \/ BeginsStop(c)
<1> USE AgreesMy
<1>a. "idle" \notin StartPC \cup {"done", "startaborted"} /\ "idle" \notin {"failrelease", "stoprelease", "insrelease"}
  BY DEF StartPC
<1>b. \A o : Called(c, o) => pc[c] = "idle" /\ UNCHANGED lock
  BY DEF Called
<1>c. pc[c] = "idle" => ~Releasing(c)
  BY DEF Releasing
<1>1. CASE Start(c)
  BY <1>1, <1>a, <1>b, <1>c, EnterStartEffect DEF Start
<1>2. CASE Stop(c)
  BY <1>2, <1>b, EnterStopEffect DEF Stop
<1>3. ASSUME Rejected(c), pc[c] = "idle", UNCHANGED lock PROVE SameLock /\ NoNewStart
  BY <1>3, <1>a, <1>c, StillEffect DEF Rejected
<1>4. CASE Restart(c)
  BY <1>3, <1>4, <1>b, EnterStopEffect DEF Restart
<1>5. CASE Dispose(c)
  BY <1>3, <1>5, <1>b, EnterStopEffect DEF Dispose
<1>6. CASE Install(c)
  BY <1>6, <1>a, <1>b, <1>c, StillEffect DEF Install
<1>7. QED
  BY <1>1, <1>2, <1>4, <1>5, <1>6 DEF CallBegins

LEMMA ChildStepEffect ==
  ASSUME TypeOK, StartInv, NEW k \in Call, ChildExits(k) \/ ChildReported(k)
  PROVE  SameLock /\ NoNewStart
<1>0. UNCHANGED <<lock, pc, pending>>
  BY DEF ChildExits, ChildReported
<1>1. \A i \in Inst :
        /\ rt'[i].ownerHeld = rt[i].ownerHeld /\ rt'[i].startPromise = rt[i].startPromise
        /\ rt'[i].state = "starting" => rt[i].state = "starting"
  <2> DEFINE r == [My(k) EXCEPT !.state = "failed"]
  <2>1. /\ r.ownerHeld = My(k).ownerHeld /\ r.startPromise = My(k).startPromise
        /\ r.state = "failed"
    BY MyType DEF Fields
  <2>2. UNCHANGED rt \/ Put(k, r)
    BY DEF ChildExits, ChildReported
  <2> HIDE DEF r
  <2>3. QED
    BY <2>1, <2>2, PutGoto DEF My
<1>2. \A i \in Inst : rt[i].startPromise # None => pc'[rt[i].startPromise] \in StartPC
  BY <1>0 DEF StartInv, StartRuns
<1>3. QED
  BY <1>0, <1>1, <1>2 DEF SameLock, NoNewStart, Releasing, AwaitsStart

(* A call inside stop() entered it as such. *)
LEMMA StepStopOp ==
  ASSUME TypeOK, StopOp, NEW c \in Call,
         CallBegins(c) \/ Step(c) \/ ChildExits(c) \/ ChildReported(c)
  PROVE  StopOp'
<1> USE ConstAssumption
<1>1. CASE CallBegins(c)
  <2>1. PICK o : Called(c, o) /\ (o \in {"start", "install"} => pc'[c] \notin StopPC)
                 /\ o \in {"install", "start", "stop", "restart", "dispose"}
                 /\ \A d \in Call \ {c} : pc'[d] = pc[d]
    <3>1. CASE Start(c)
      BY <3>1, PutGoto DEF Start, EnterStart, StopPC
    <3>2. CASE Install(c)
      BY <3>2, PutGoto DEF Install, StopPC
    <3>3. ASSUME NEW o, EnterStop(c, My(c), o), o \in {"stop", "restart", "dispose"}
          PROVE  \A d \in Call \ {c} : pc'[d] = pc[d]
      <4>1. \E to : Goto(c, to)
        BY <3>3, MyType DEF EnterStop, StopReturns, EnterStart, DropOwner, Fields, State
      <4>2. QED
        BY <4>1, PutGoto
    <3>4. Rejected(c) => \A d \in Call \ {c} : pc'[d] = pc[d]
      BY PutGoto DEF Rejected
    <3>5. CASE Stop(c)
      BY <3>3, <3>5 DEF Stop
    <3>6. CASE Restart(c)
      BY <3>3, <3>4, <3>6 DEF Restart
    <3>7. CASE Dispose(c)
      BY <3>3, <3>4, <3>7 DEF Dispose
    <3>8. QED
      BY <1>1, <3>1, <3>2, <3>5, <3>6, <3>7 DEF CallBegins
  <2>2. op'[c] = o /\ \A d \in Call \ {c} : op'[d] = op[d]
    BY <2>1 DEF Called, TypeOK
  <2>3. QED
    BY <2>1, <2>2 DEF StopOp
<1>2. CASE Step(c)
  <2>1. op' = op
    BY <1>2 DEF Step, StartStep, StopStep, InstallStep, At, Loaded, LoadFails, Acquired,
       AcquireFails, PortFree,
         PortProbeFails, Spawned, SpawnFails, Ready, ReadinessFails, FailJoined,
         FailReleased, FailRemoved, FailRemoveFails, Validated, Probed, StopIdleRemoved, StopJoined,
         StopReleased, StopRemoved, StopRemoveFails, InstallPrepared, InstallAcquires, InstallRefused, InstallWorked, InstallReleased
  <2>2. \A d \in Call : pc'[d] \in StopPC => pc[d] \in StopPC
    <3>1. CASE StopStep(c)
      <4>1. pc[c] \in StopPC
        BY <3>1 DEF StopStep, StopIdleRemoved, StopJoined, StopReleased, StopRemoved, StopRemoveFails, At, StopPC
      <4>2. \E to : Goto(c, to)
        BY <3>1, <4>1 DEF StopStep, StopIdleRemoved, StopJoined, StopReleased, StopRemoved, StopRemoveFails,
             StopReturns, EnterStart, DropOwner, StopOp
      <4>3. QED
        BY <4>1, <4>2, PutGoto
    <3>2. CASE InstallStep(c)
      <4>1. \E to \in {"insacquire", "inswork", "insrelease", "done"} : Goto(c, to)
        BY <3>2 DEF InstallStep, InstallPrepared, InstallAcquires, InstallRefused, InstallWorked, InstallReleased
      <4>2. QED
        BY <4>1, PutGoto DEF StopPC
    <3>3. CASE StartStep(c)
      <4>1. \/ \E to \in StartPC : Goto(c, to)
            \/ \E r : \E how \in {"done", "startaborted"} : StartEnds(c, r, how)
        BY <3>3 DEF StartStep, Loaded, LoadFails, Acquired, AcquireFails, PortFree,
             PortProbeFails, Spawned, SpawnFails, Ready, ReadinessFails, FailJoined,
             FailReleased, FailRemoved, FailRemoveFails, Validated, Probed, Fail, DropOwner, StartPC
      <4>2. CASE \E r : \E how \in {"done", "startaborted"} : StartEnds(c, r, how)
        BY <4>2 DEF StartEnds, StopPC
      <4>3. CASE \E to \in StartPC : Goto(c, to)
        BY <4>3, PutGoto DEF StopPC, StartPC
      <4>4. QED
        BY <4>1, <4>2, <4>3
    <3>4. QED
      BY <1>2, <3>1, <3>2, <3>3 DEF Step
  <2>3. QED
    BY <2>1, <2>2 DEF StopOp
<1>3. CASE ChildExits(c) \/ ChildReported(c)
  BY <1>3 DEF ChildExits, ChildReported, StopOp
<1>4. QED
  BY <1>1, <1>2, <1>3

LEMMA StepIInv == IInv /\ [Next]_vars => IInv'
<1> SUFFICES ASSUME IInv, [Next]_vars PROVE IInv'
  OBVIOUS
<1> USE DEF IInv
<1>1. ASSUME NEW c \in Call, CallBegins(c) PROVE IInv'
  BY <1>1, CallBeginsType, StepStopOp, CallBeginsEffect, LockEffects, StartEffects
<1>2. ASSUME NEW c \in Call, StartStep(c) PROVE IInv'
  BY <1>2, StartStepType, StepStopOp, StartStepEffect, LockEffects, StartEffects DEF Step
<1>3. ASSUME NEW c \in Call, StopStep(c) PROVE IInv'
  <2>1. op[c] \in {"stop", "restart", "dispose"}
    BY <1>3 DEF StopOp, StopStep, StopIdleRemoved, StopJoined, StopReleased, StopRemoved, StopRemoveFails, At, StopPC
  <2>2. QED
    BY <1>3, <2>1, StopStepType, StepStopOp, StopStepEffect, LockEffects, StartEffects DEF Step
<1>4. ASSUME NEW c \in Call, InstallStep(c) PROVE IInv'
  BY <1>4, InstallStepType, StepStopOp, InstallStepEffect, LockEffects, StartEffects DEF Step
<1>5. ASSUME NEW c \in Call, ChildExits(c) \/ ChildReported(c) PROVE IInv'
  BY <1>5, ChildStepType, StepStopOp, ChildStepEffect, LockEffects, StartEffects
<1>6. CASE UNCHANGED vars
  BY <1>6 DEF vars, TypeOK, StopOp, LockInv, HeldIsLocked, LockIsHeld, ReleaseUnderway, OneRelease,
     StartInv, StartRuns, PendingRuns, PendingStops, OneWaiter, AwaitsStart, Releasing, My
<1>7. QED
  BY <1>1, <1>2, <1>3, <1>4, <1>5, <1>6 DEF Next, Step

LEMMA Invariance == Spec => []IInv
BY InitIInv, StepIInv, PTL DEF Spec

(* Every reachable state is well typed, whatever calls overlap. *)
THEOREM TypeCorrect == Spec => []TypeOK
<1>1. IInv => TypeOK
  BY DEF IInv
<1>2. QED
  BY Invariance, <1>1, PTL

(* ownerHeld and the lock file agree in every reachable state, install()      *)
(* included: releaseOwner() never skips a release that is due, and releases   *)
(* the lock once.                                                            *)
THEOREM FlagIsExact == Spec => []OwnerFlagExact
<1>1. IInv => OwnerFlagExact
  BY DEF IInv, LockInv, HeldIsLocked, LockIsHeld, Releasing, OwnerFlagExact
<1>2. QED
  BY Invariance, <1>1, PTL

-----------------------------------------------------------------------------
(* The start of an instance and its state *)

ExternalPC == {"validate", "probe"}
ManagedPC  == StartPC \ ExternalPC
StopWork   == StopPC \ {"stopidle"}
SpawnedPC  == {"readiness", "failjoin", "failrelease", "failremove", "done", "startaborted"}

(* One start at a time runs in an instance: startPromise names it from its    *)
(* first await to its last.                                                  *)
OneStart       == \A c \in Call : pc[c] \in StartPC => My(c).startPromise = c

(* "starting" is shown only while a start runs that nobody asked to stop, or  *)
(* after one was rejected; neither "ready" nor "degraded" before it ends.     *)
StartingRuns   == \A i \in Inst : rt[i].state = "starting" =>
                    /\ rt[i].startPromise # None \/ Ended(i, "startaborted")
                    /\ rt[i].startPromise # None => ~rt[i].stopRequested
NotYetReady    == \A i \in Inst : rt[i].startPromise # None =>
                    rt[i].state \notin {"ready", "degraded"}

(* "stopping" is shown only while a stop() is at work, or was rejected.       *)
StoppingRuns   == \A i \in Inst : rt[i].state = "stopping" =>
                    \/ \E s \in CallsOf(i) : pc[s] \in StopWork
                    \/ Ended(i, "stopaborted")

(* Only starts of managed instances spawn, and only their own process.       *)
ModeFits       == \A c \in Call :
                    /\ pc[c] \in ManagedPC => mode[InstOf[c]] = "managed"
                    /\ pc[c] \in ExternalPC => mode[InstOf[c]] = "external"
                    /\ child[c] # "none" => mode[InstOf[c]] = "managed" /\ pc[c] \in SpawnedPC

(* The process kept and the one joined are of the instance.                  *)
OwnProcess     == /\ \A i \in Inst : rt[i].processHandle # None => InstOf[rt[i].processHandle] = i
                  /\ \A s \in Call : joining[s] # None => InstOf[joining[s]] = InstOf[s]

(* A call inside install() was made by install(), one not made by nobody.    *)
OpShown        == \A c \in Call : /\ pc[c] \in InstallPC => op[c] = "install"
                                  /\ pc[c] = "idle" => op[c] = None

ControlInv == /\ OneStart /\ StartingRuns /\ NotYetReady /\ StoppingRuns
              /\ ModeFits /\ OwnProcess /\ OpShown

-----------------------------------------------------------------------------
(* The processes of an instance that is not asked to install *)

(* A process that runs is the one stop() would terminate, and the lock is     *)
(* kept for it once its start has returned.                                  *)
LiveHandle(i)  == \A k \in CallsOf(i) : Live(k) =>
                    /\ rt[i].processHandle = k
                    /\ pc[k] \notin StartPC => rt[i].ownerHeld

(* Nobody joins a process but the current one, and no start goes on to spawn  *)
(* while one runs.                                                           *)
JoinsCurrent(i) == \A s \in CallsOf(i) : pc[s] \in {"stopjoin", "failjoin"} =>
                    joining[s] # None /\ rt[i].processHandle \in {joining[s], None}
NoneBeside(i)  == \A c \in CallsOf(i) :
                    pc[c] \in {"acquire", "portprobe", "configure", "failrelease", "failremove"} =>
                      \A k \in CallsOf(i) : ~Live(k)

(* While a start past its load shows "starting", no stop() is about to drop   *)
(* what it has acquired and spawned.                                         *)
StartKeeps(i)  == \A c \in CallsOf(i) : rt[i].state = "starting" =>
                    /\ pc[c] \in {"acquire", "portprobe", "configure", "readiness"} =>
                         \A s \in CallsOf(i) : pc[s] # "stopjoin"
                    /\ pc[c] \in {"portprobe", "configure", "readiness"} => rt[i].ownerHeld
                    /\ pc[c] = "readiness" =>
                         rt[i].processHandle = c /\ child[c] \notin {"none", "reported"}
ReadyKeeps(i)  == rt[i].state = "ready" /\ mode[i] = "managed" =>
                    /\ rt[i].processHandle # None
                    /\ child[rt[i].processHandle] \notin {"none", "reported"}
                    /\ \A s \in CallsOf(i) : pc[s] # "stopjoin"

(* A process that runs is shown as ready, or a call will end it.             *)
LiveWatched(i) == \A k \in CallsOf(i) : Live(k) =>
                    \/ rt[i].state = "ready"
                    \/ pc[k] = "readiness"
                    \/ \E s \in CallsOf(i) : pc[s] \in {"stopjoin", "failjoin"} /\ joining[s] = k

ProcessOf(i) == /\ LiveHandle(i) /\ JoinsCurrent(i) /\ NoneBeside(i)
                /\ StartKeeps(i) /\ ReadyKeeps(i) /\ LiveWatched(i)

ProcessInv == \A i \in Inst : NeverInstalls(i) => ProcessOf(i)

-----------------------------------------------------------------------------
(* What a step may do to the start of its instance *)

OthersStay(c) ==
  /\ mode' = mode
  /\ \A i \in Inst \ {InstOf[c]} : rt'[i] = rt[i]

(* Any step that neither begins nor ends a start. *)
KeepsStart(c) ==
  /\ OthersStay(c)
  /\ \A d \in Call \ {c} : pc'[d] = pc[d]
  /\ rt'[InstOf[c]].startPromise = My(c).startPromise
  /\ pc'[c] \in ManagedPC <=> pc[c] \in ManagedPC
  /\ pc'[c] \in ExternalPC <=> pc[c] \in ExternalPC
  /\ rt'[InstOf[c]].state \in {"starting", "ready", "degraded"} =>
       /\ rt'[InstOf[c]].state = My(c).state
       /\ rt'[InstOf[c]].stopRequested => My(c).stopRequested
  /\ pc[c] \in {"startaborted", "stopaborted"} => pc'[c] = pc[c]
  /\ rt'[InstOf[c]].state = "stopping" =>
       \/ pc'[c] \in StopWork \cup {"stopaborted"}
       \/ My(c).state = "stopping" /\ pc[c] \notin StopWork

NewStart(c) ==
  /\ OthersStay(c)
  /\ \A d \in Call \ {c} : pc'[d] = pc[d]
  /\ My(c).startPromise = None /\ rt'[InstOf[c]].startPromise = c
  /\ rt'[InstOf[c]].state = "starting" /\ ~rt'[InstOf[c]].stopRequested
  /\ pc[c] \notin StartPC \cup {"startaborted", "stopaborted"}
  /\ pc'[c] = IF mode[InstOf[c]] = "managed" THEN "load" ELSE "validate"

(* The start returns, and a stop() that waits for it goes on. *)
EndsStart(c) ==
  /\ OthersStay(c)
  /\ \A d \in Call \ {c} : \/ pc'[d] = pc[d]
                           \/ pc[d] = "stopwait" /\ pc'[d] \in {"stoprelease", "stopremove"}
  /\ rt'[InstOf[c]].startPromise = None
  /\ pc[c] \in StartPC /\ pc'[c] \in {"done", "startaborted"}
  /\ rt'[InstOf[c]].state = "starting" => pc'[c] = "startaborted"
  /\ rt'[InstOf[c]].state = "stopping" => My(c).state = "stopping"

StartControl == OneStart /\ StartingRuns /\ NotYetReady /\ StoppingRuns

LEMMA StartControlEffects ==
  ASSUME TypeOK, StartControl, NEW c \in Call,
         KeepsStart(c) \/ NewStart(c) \/ EndsStart(c)
  PROVE  StartControl'
<1> USE DEF StartControl, My
<1>0. /\ InstOf \in [Call -> Inst] /\ None \notin Call
      /\ \A i \in Inst : rt[i].startPromise \in Call \cup {None}
      /\ StartPC \cap StopWork = {} /\ "done" \notin StartPC
      /\ {"startaborted", "stopaborted"} \cap (StartPC \cup StopWork) = {}
      /\ {"stoprelease", "stopremove"} \subseteq StopWork /\ "stopwait" \notin StartPC
      /\ {"load", "validate"} \subseteq StartPC
      /\ StartPC = ManagedPC \cup ExternalPC
  BY ConstAssumption DEF TypeOK, Fields, StartPC, StopPC, StopWork, ManagedPC, ExternalPC
<1>1. CASE KeepsStart(c)
  <2>1. OneStart'
    BY <1>0, <1>1 DEF KeepsStart, OthersStay, OneStart
  <2>2. StartingRuns' /\ NotYetReady'
    BY <1>0, <1>1 DEF KeepsStart, OthersStay, StartingRuns, NotYetReady, Ended, CallsOf
  <2>3. StoppingRuns'
    BY <1>0, <1>1 DEF KeepsStart, OthersStay, StoppingRuns, Ended, CallsOf
  <2>4. QED
    BY <2>1, <2>2, <2>3
<1>2. CASE NewStart(c)
  <2>1. OneStart'
    BY <1>0, <1>2 DEF NewStart, OthersStay, OneStart
  <2>2. StartingRuns' /\ NotYetReady'
    BY <1>0, <1>2 DEF NewStart, OthersStay, StartingRuns, NotYetReady, Ended, CallsOf
  <2>3. StoppingRuns'
    BY <1>0, <1>2 DEF NewStart, OthersStay, StoppingRuns, Ended, CallsOf
  <2>4. QED
    BY <2>1, <2>2, <2>3
<1>3. CASE EndsStart(c)
  <2>1. OneStart'
    BY <1>0, <1>3 DEF EndsStart, OthersStay, OneStart
  <2>2. StartingRuns' /\ NotYetReady'
    BY <1>0, <1>3 DEF EndsStart, OthersStay, StartingRuns, NotYetReady, Ended, CallsOf
  <2>3. StoppingRuns'
    BY <1>0, <1>3 DEF EndsStart, OthersStay, StoppingRuns, Ended, CallsOf
  <2>4. QED
    BY <2>1, <2>2, <2>3
<1>4. QED
  BY <1>1, <1>2, <1>3

-----------------------------------------------------------------------------
(* What a step may do to the processes of its instance *)

LEMMA OtherProcesses ==
  ASSUME TypeOK, OwnProcess, NEW i \in Inst, ProcessOf(i),
         rt'[i] = rt[i], mode' = mode,
         \A d \in CallsOf(i) : pc'[d] = pc[d] /\ joining'[d] = joining[d] /\ child'[d] = child[d]
  PROVE  ProcessOf(i)'
<1> USE DEF CallsOf, Live
<1>0. rt[i].processHandle \in CallsOf(i) \cup {None}
  BY DEF TypeOK, Fields, OwnProcess
<1>1. LiveHandle(i)' /\ JoinsCurrent(i)' /\ NoneBeside(i)'
  BY DEF ProcessOf, LiveHandle, JoinsCurrent, NoneBeside
<1>2. StartKeeps(i)' /\ LiveWatched(i)'
  BY DEF ProcessOf, StartKeeps, LiveWatched
<1>3. ReadyKeeps(i)'
  BY <1>0 DEF ProcessOf, ReadyKeeps
<1>4. QED
  BY <1>1, <1>2, <1>3 DEF ProcessOf

(* Nothing happens to the process, the lock or a join.                       *)
Busy == {"acquire", "portprobe", "configure", "readiness", "failjoin", "stopjoin"}

SameProcess(c) ==
  /\ child' = child
  /\ rt'[InstOf[c]].processHandle = My(c).processHandle
  /\ rt'[InstOf[c]].ownerHeld = My(c).ownerHeld

SameOthers(c) == \A d \in Call \ {c} : pc'[d] = pc[d] /\ joining'[d] = joining[d]

Passes(c) ==
  /\ mode' = mode /\ SameProcess(c) /\ SameOthers(c)
  /\ pc[c] \notin Busy /\ pc'[c] \notin Busy
  /\ pc'[c] \in {"failrelease", "failremove"} => pc[c] = "failrelease"
  /\ pc'[c] \in {"stoprelease", "stopremove"} => pc[c] = "stoprelease"
  /\ pc[c] \in StartPC => pc'[c] \in {"failremove", "probe"}
  /\ rt'[InstOf[c]].state = "ready" <=> My(c).state = "ready"
  /\ rt'[InstOf[c]].state = "failed" => My(c).state = "failed"
  /\ rt'[InstOf[c]].state = "starting" =>
       My(c).state = "starting" \/ pc'[c] \in {"load", "validate"}
  /\ My(c).state = "starting" =>
       rt'[InstOf[c]].state = "starting" \/ (pc[c] = "idle" /\ pc'[c] = "stopwait")

LEMMA PassesEffect ==
  ASSUME TypeOK, OneStart, OneStart', NEW c \in Call, Passes(c), ProcessOf(InstOf[c])
  PROVE  ProcessOf(InstOf[c])'
<1> DEFINE i == InstOf[c]
<1> USE DEF CallsOf, Live, Passes, SameProcess, SameOthers, Busy, My
<1>0. i \in Inst /\ {"acquire", "portprobe", "configure", "readiness"} \subseteq StartPC
      /\ {"load", "validate", "failremove", "probe"} \subseteq StartPC
  BY ConstAssumption DEF StartPC
<1>1. LiveHandle(i)' /\ JoinsCurrent(i)'
  BY <1>0 DEF ProcessOf, LiveHandle, JoinsCurrent
<1>2. NoneBeside(i)'
  BY <1>0 DEF ProcessOf, NoneBeside
<1>3. StartKeeps(i)'
  BY <1>0 DEF ProcessOf, StartKeeps, OneStart
<1>4. ReadyKeeps(i)'
  BY <1>0 DEF ProcessOf, ReadyKeeps
<1>5. LiveWatched(i)'
  BY <1>0 DEF ProcessOf, LiveWatched
<1>6. QED
  BY <1>1, <1>2, <1>3, <1>4, <1>5 DEF ProcessOf

(* The process is dropped, and the lock with it.                             *)
Drops(c) ==
  /\ mode' = mode /\ child' = child /\ SameOthers(c)
  /\ rt'[InstOf[c]].processHandle = None
  /\ \A k \in CallsOf(InstOf[c]) : ~Live(k)
  /\ pc'[c] \in {"failrelease", "failremove", "stoprelease", "stopremove"}
  /\ pc[c] \in StartPC => pc'[c] \in StartPC
  /\ \/ /\ pc[c] \in StartPC \cup {"stopjoin"}
        /\ rt'[InstOf[c]].state = My(c).state
        /\ pc[c] \in StartPC => My(c).state # "ready"
     \/ /\ pc[c] = "idle" /\ My(c).state \in {"starting", "ready", "degraded", "failed"}
        /\ My(c).state = "starting" => My(c).startPromise = None
        /\ rt'[InstOf[c]].state = "stopping"

LEMMA DropsEffect ==
  ASSUME TypeOK, OneStart, OneStart', NEW c \in Call, Drops(c), ProcessOf(InstOf[c])
  PROVE  ProcessOf(InstOf[c])'
<1> DEFINE i == InstOf[c]
<1> USE DEF CallsOf, Live, Drops, SameOthers, My
<1>0. i \in Inst /\ {"acquire", "portprobe", "configure", "readiness"} \subseteq StartPC
  BY ConstAssumption DEF StartPC
<1>1. LiveHandle(i)' /\ JoinsCurrent(i)'
  BY <1>0 DEF ProcessOf, LiveHandle, JoinsCurrent
<1>2. NoneBeside(i)'
  BY <1>0 DEF ProcessOf, NoneBeside
<1>3. StartKeeps(i)'
  BY <1>0 DEF ProcessOf, StartKeeps, OneStart
<1>4. ReadyKeeps(i)'
  BY <1>0 DEF ProcessOf, ReadyKeeps
<1>5. LiveWatched(i)'
  BY <1>0 DEF ProcessOf, LiveWatched
<1>6. QED
  BY <1>1, <1>2, <1>3, <1>4, <1>5 DEF ProcessOf

(* The process is told to end, and joined.                                   *)
Joins(c) ==
  /\ mode' = mode /\ SameOthers(c)
  /\ My(c).processHandle # None
  /\ rt'[InstOf[c]].processHandle = My(c).processHandle
  /\ rt'[InstOf[c]].ownerHeld = My(c).ownerHeld \/ rt'[InstOf[c]].ownerHeld
  /\ joining'[c] = My(c).processHandle
  /\ \A k \in Call : child'[k] = IF k = My(c).processHandle /\ child[k] = "running"
                                THEN "terminating" ELSE child[k]
  /\ \/ pc[c] \in StartPC \ {"failjoin"} /\ pc'[c] = "failjoin" /\ rt'[InstOf[c]].state = My(c).state
     \/ pc[c] = "idle" /\ pc'[c] = "stopjoin" /\ rt'[InstOf[c]].state = "stopping"

LEMMA JoinsEffect ==
  ASSUME TypeOK, ControlInv, OneStart', NEW c \in Call, Joins(c), ProcessOf(InstOf[c])
  PROVE  ProcessOf(InstOf[c])'
<1> DEFINE i == InstOf[c]
           h == My(c).processHandle
<1> USE DEF CallsOf, Live, SameOthers, My
<1>0. /\ i \in Inst /\ {"acquire", "portprobe", "configure", "readiness", "failjoin"} \subseteq StartPC
      /\ {"idle", "stopjoin"} \cap StartPC = {}
      /\ h \in CallsOf(i)
  BY ConstAssumption DEF StartPC, TypeOK, Fields, Joins, ControlInv, OwnProcess
<1>a. \A k \in CallsOf(i) : Live(k)' <=> Live(k)
  BY DEF Joins
<1>1. LiveHandle(i)'
  BY <1>0, <1>a DEF Joins, ProcessOf, LiveHandle
<1>2. JoinsCurrent(i)'
  BY <1>0 DEF Joins, ProcessOf, JoinsCurrent
<1>3. NoneBeside(i)'
  BY <1>0, <1>a DEF Joins, ProcessOf, NoneBeside
<1>4. StartKeeps(i)'
  BY <1>0 DEF Joins, ProcessOf, StartKeeps, OneStart
<1>5. ReadyKeeps(i)'
  BY <1>0 DEF Joins, ProcessOf, ReadyKeeps
<1>6. LiveWatched(i)'
  BY <1>0, <1>a DEF Joins, ProcessOf, LiveWatched, LiveHandle
<1>7. QED
  BY <1>1, <1>2, <1>3, <1>4, <1>5, <1>6 DEF ProcessOf

(* A join that has ended leaves a stop() to wait for the start.              *)
Waits(c) ==
  /\ mode' = mode /\ UNCHANGED <<rt, child>>
  /\ SameOthers(c)
  /\ Joined(c) /\ pc[c] = "stopjoin" /\ pc'[c] = "stopwait"

LEMMA WaitsEffect ==
  ASSUME TypeOK, NEW c \in Call, Waits(c), ProcessOf(InstOf[c])
  PROVE  ProcessOf(InstOf[c])'
<1> DEFINE i == InstOf[c]
<1> USE DEF CallsOf, Live, Waits, SameOthers, My, Joined
<1>0. i \in Inst /\ {"stopjoin", "stopwait"} \cap StartPC = {}
  BY ConstAssumption DEF StartPC
<1>1. LiveHandle(i)' /\ JoinsCurrent(i)'
  BY <1>0 DEF ProcessOf, LiveHandle, JoinsCurrent
<1>2. NoneBeside(i)' /\ StartKeeps(i)' /\ ReadyKeeps(i)'
  BY <1>0 DEF ProcessOf, NoneBeside, StartKeeps, ReadyKeeps
<1>3. LiveWatched(i)'
  BY <1>0 DEF ProcessOf, LiveWatched
<1>4. QED
  BY <1>1, <1>2, <1>3 DEF ProcessOf

(* A start goes on, where no process runs.                                   *)
GoesOn(c) ==
  /\ mode' = mode /\ child' = child /\ SameOthers(c)
  /\ rt'[InstOf[c]].processHandle = My(c).processHandle
  /\ rt'[InstOf[c]].state = My(c).state
  /\ \/ /\ pc[c] = "load" /\ pc'[c] = "acquire"
        /\ ~My(c).ownerHeld /\ ~rt'[InstOf[c]].ownerHeld
        /\ JoinsResumed(c)
     \/ pc[c] = "acquire" /\ pc'[c] = "portprobe" /\ rt'[InstOf[c]].ownerHeld
     \/ /\ pc[c] = "portprobe" /\ pc'[c] = "configure"
        /\ rt'[InstOf[c]].ownerHeld = My(c).ownerHeld

LEMMA GoesOnEffect ==
  ASSUME TypeOK, ControlInv, OneStart', NEW c \in Call, GoesOn(c), ProcessOf(InstOf[c])
  PROVE  ProcessOf(InstOf[c])'
<1> DEFINE i == InstOf[c]
<1> USE DEF CallsOf, Live, SameOthers, My
<1>0. /\ i \in Inst
      /\ {"load", "acquire", "portprobe", "configure", "readiness"} \subseteq StartPC
  BY ConstAssumption DEF StartPC
<1>a. \A k \in CallsOf(i) : ~Live(k)
  <2>1. CASE pc[c] = "load"
    <3>1. child[c] = "none"
      BY <2>1 DEF ControlInv, ModeFits, SpawnedPC, TypeOK
    <3>2. ~My(c).ownerHeld
      BY <2>1 DEF GoesOn
    <3>3. \A k \in CallsOf(i) : pc[k] \in StartPC => k = c
      BY <1>0, <2>1 DEF ControlInv, OneStart
    <3>4. QED
      BY <3>1, <3>2, <3>3 DEF ProcessOf, LiveHandle
  <2>2. QED
    BY <2>1 DEF GoesOn, ProcessOf, NoneBeside
<1>b. \A s \in CallsOf(i) : pc[s] = "stopjoin" => rt[i].state # "starting"
  <2>1. CASE pc[c] = "load"
    <3>1. \A s \in CallsOf(i) : pc[s] = "stopjoin" => Live(joining[s])
      BY <2>1 DEF GoesOn, JoinsResumed, Joined
    <3>2. \A s \in CallsOf(i) : pc[s] = "stopjoin" => joining[s] \in CallsOf(i)
      BY DEF ProcessOf, JoinsCurrent, TypeOK, ControlInv, OwnProcess
    <3>3. QED
      BY <1>a, <3>1, <3>2
  <2>2. QED
    BY <2>1 DEF GoesOn, ProcessOf, StartKeeps
<1>1. LiveHandle(i)' /\ LiveWatched(i)' /\ NoneBeside(i)'
  BY <1>a DEF GoesOn, LiveHandle, LiveWatched, NoneBeside
<1>2. JoinsCurrent(i)'
  BY DEF GoesOn, ProcessOf, JoinsCurrent
<1>3. StartKeeps(i)'
  BY <1>0, <1>b DEF GoesOn, ProcessOf, StartKeeps, OneStart
<1>4. ReadyKeeps(i)'
  BY DEF GoesOn, ProcessOf, ReadyKeeps
<1>5. QED
  BY <1>1, <1>2, <1>3, <1>4 DEF ProcessOf

(* A start spawns its process, and has to end it if it was stopped.          *)
Spawns(c) ==
  /\ mode' = mode /\ SameOthers(c) /\ pc[c] = "configure"
  /\ JoinsResumed(c)
  /\ rt'[InstOf[c]].processHandle = c
  /\ rt'[InstOf[c]].ownerHeld = My(c).ownerHeld
  /\ rt'[InstOf[c]].state = My(c).state
  /\ \A k \in Call \ {c} : child'[k] = child[k]
  /\ \/ pc'[c] = "readiness" /\ child'[c] = "running"
     \/ pc'[c] = "failjoin" /\ child'[c] = "terminating" /\ joining'[c] = c

LEMMA SpawnsEffect ==
  ASSUME TypeOK, ControlInv, OneStart', NEW c \in Call, Spawns(c), ProcessOf(InstOf[c])
  PROVE  ProcessOf(InstOf[c])'
<1> DEFINE i == InstOf[c]
<1> USE DEF CallsOf, Live, SameOthers, My
<1>0. /\ i \in Inst /\ None \notin Call
      /\ {"acquire", "portprobe", "configure", "readiness", "failjoin", "failrelease", "failremove"}
           \subseteq StartPC
  BY ConstAssumption DEF StartPC
<1>a. \A k \in CallsOf(i) : ~Live(k)
  BY DEF Spawns, ProcessOf, NoneBeside
<1>b. \A s \in CallsOf(i) : pc[s] \notin {"stopjoin", "failjoin"}
  <2>1. \A s \in CallsOf(i) : pc[s] \in {"stopjoin", "failjoin"} => Live(joining[s])
    BY DEF Spawns, JoinsResumed, Joined
  <2>2. \A s \in CallsOf(i) : pc[s] \in {"stopjoin", "failjoin"} => joining[s] \in CallsOf(i)
    BY DEF ProcessOf, JoinsCurrent, TypeOK, ControlInv, OwnProcess
  <2>3. QED
    BY <1>a, <2>1, <2>2
<1>c. \A d \in CallsOf(i) \ {c} : pc'[d] \notin StartPC
  BY <1>0, ConstAssumption DEF OneStart, Spawns
<1>1. LiveHandle(i)' /\ JoinsCurrent(i)' /\ NoneBeside(i)'
  BY <1>0, <1>a, <1>b, <1>c DEF Spawns, LiveHandle, JoinsCurrent, NoneBeside
<1>2. StartKeeps(i)'
  BY <1>0, <1>b, <1>c DEF Spawns, ProcessOf, StartKeeps
<1>3. ReadyKeeps(i)'
  BY <1>0 DEF Spawns, ControlInv, NotYetReady, OneStart, ReadyKeeps
<1>4. LiveWatched(i)'
  BY <1>0, <1>a DEF Spawns, LiveWatched
<1>5. QED
  BY <1>1, <1>2, <1>3, <1>4 DEF ProcessOf

(* A start returns: ready, with the process it keeps, or not, with none.     *)
Returns(c) ==
  /\ mode' = mode /\ child' = child /\ joining' = joining
  /\ \A d \in Call \ {c} : \/ pc'[d] = pc[d]
                           \/ pc[d] = "stopwait" /\ pc'[d] \in {"stoprelease", "stopremove"}
  /\ pc[c] \in StartPC /\ pc'[c] \in {"done", "startaborted"}
  /\ (\E d \in Call \ {c} : pc'[d] # pc[d]) => rt'[InstOf[c]].processHandle = None
  /\ \/ /\ pc[c] = "readiness" /\ My(c).state = "starting"
        /\ rt'[InstOf[c]].state = "ready"
        /\ rt'[InstOf[c]].processHandle = My(c).processHandle
        /\ rt'[InstOf[c]].ownerHeld = My(c).ownerHeld
     \/ /\ pc[c] \in {"failremove"} \cup ExternalPC
        /\ \A k \in CallsOf(InstOf[c]) : ~Live(k)
        /\ rt'[InstOf[c]].processHandle \in {My(c).processHandle, None}
        /\ rt'[InstOf[c]].state = "ready" => mode[InstOf[c]] # "managed"

LEMMA ReturnsEffect ==
  ASSUME TypeOK, ControlInv, NEW c \in Call, Returns(c), ProcessOf(InstOf[c])
  PROVE  ProcessOf(InstOf[c])'
<1> DEFINE i == InstOf[c]
<1> USE DEF CallsOf, Live, My
<1>0. /\ i \in Inst /\ None \notin Call
      /\ {"acquire", "portprobe", "configure", "readiness", "failjoin", "failrelease", "failremove"}
           \subseteq StartPC
      /\ {"stopwait", "stoprelease", "stopremove", "stopjoin", "done", "startaborted"} \cap StartPC = {}
  BY ConstAssumption DEF StartPC
<1>a. \A d \in CallsOf(i) : pc'[d] \notin StartPC
  BY <1>0 DEF ControlInv, OneStart, Returns
<1>b. StartKeeps(i)' /\ NoneBeside(i)'
  BY <1>0, <1>a DEF Returns, StartKeeps, NoneBeside
<1>c. \A s \in CallsOf(i) : pc'[s] \in {"stopjoin", "failjoin"} => pc'[s] = pc[s]
  BY <1>0, <1>a DEF Returns
<1>1. CASE rt'[i].state = "ready" /\ pc[c] = "readiness"
           /\ My(c).state = "starting"
           /\ rt'[i].processHandle = My(c).processHandle
           /\ rt'[i].ownerHeld = My(c).ownerHeld
  <2>1. /\ rt[i].ownerHeld /\ rt[i].processHandle = c
        /\ child[c] \notin {"none", "reported"}
        /\ \A s \in CallsOf(i) : pc[s] # "stopjoin"
    BY <1>1 DEF ProcessOf, StartKeeps
  <2>2. LiveHandle(i)'
    BY <1>1, <2>1 DEF Returns, ProcessOf, LiveHandle
  <2>3. JoinsCurrent(i)' /\ ReadyKeeps(i)'
    BY <1>0, <1>1, <1>a, <1>c, <2>1 DEF Returns, JoinsCurrent, ReadyKeeps
  <2>4. LiveWatched(i)'
    BY <1>1 DEF LiveWatched
  <2>5. QED
    BY <1>b, <2>2, <2>3, <2>4 DEF ProcessOf
<1>2. CASE /\ \A k \in CallsOf(i) : ~Live(k)
           /\ rt'[i].processHandle \in {My(c).processHandle, None}
           /\ rt'[i].state = "ready" => mode[i] # "managed"
  <2>1. LiveHandle(i)' /\ LiveWatched(i)' /\ ReadyKeeps(i)'
    BY <1>2 DEF Returns, LiveHandle, LiveWatched, ReadyKeeps
  <2>2. JoinsCurrent(i)'
    BY <1>0, <1>2, <1>c DEF Returns, ProcessOf, JoinsCurrent
  <2>3. QED
    BY <1>b, <2>1, <2>2 DEF ProcessOf
<1>3. QED
  BY <1>1, <1>2 DEF Returns

(* A process ends, and its end is reported.                                  *)
LEMMA ChildStepProcess ==
  ASSUME TypeOK, ControlInv, NEW k \in Call, ProcessOf(InstOf[k]),
         ChildExits(k) \/ ChildReported(k)
  PROVE  ProcessOf(InstOf[k])'
<1> DEFINE i == InstOf[k]
<1> USE DEF CallsOf, Live, My
<1>0. i \in Inst /\ UNCHANGED <<mode, pc, joining>>
  BY ConstAssumption DEF ChildExits, ChildReported
<1>a. \A j \in Call \ {k} : child'[j] = child[j]
  BY DEF ChildExits, ChildReported, TypeOK
<1>b. \A j \in Call : Live(j)' => Live(j)
  BY <1>a DEF ChildExits, ChildReported, TypeOK
<1>1. /\ rt'[i].processHandle = rt[i].processHandle
      /\ rt'[i].ownerHeld = rt[i].ownerHeld
      /\ \/ rt'[i].state = rt[i].state
         \/ rt'[i].state = "failed" /\ rt[i].processHandle = k /\ ~Live(k)
      /\ child'[k] = "reported" /\ rt[i].processHandle = k =>
           rt'[i].state \notin {"starting", "ready", "degraded"}
      /\ child'[k] \in {"exited", "reported"}
  <2> DEFINE r == [My(k) EXCEPT !.state = "failed"]
  <2>1. /\ r.ownerHeld = My(k).ownerHeld /\ r.processHandle = My(k).processHandle
        /\ r.state = "failed"
    BY MyType DEF Fields
  <2>2. \/ ChildExits(k) /\ UNCHANGED rt /\ child'[k] = "exited"
        \/ /\ child'[k] = "reported" /\ ~Live(k)
           /\ IF My(k).processHandle = k /\ My(k).state \in {"starting", "ready", "degraded"}
                THEN Put(k, r) ELSE UNCHANGED rt
    BY DEF ChildExits, ChildReported, TypeOK
  <2> HIDE DEF r
  <2>3. QED
    BY <2>1, <2>2, PutGoto
<1>2. LiveHandle(i)' /\ NoneBeside(i)'
  BY <1>0, <1>1, <1>b DEF ProcessOf, LiveHandle, NoneBeside
<1>3. JoinsCurrent(i)'
  BY <1>0, <1>1 DEF ProcessOf, JoinsCurrent
<1>4. StartKeeps(i)'
  BY <1>0, <1>1, <1>a DEF ProcessOf, StartKeeps
<1>5. ReadyKeeps(i)'
  BY <1>0, <1>1, <1>a DEF ProcessOf, ReadyKeeps, TypeOK, Fields
<1>6. LiveWatched(i)'
  BY <1>0, <1>1, <1>b DEF ProcessOf, LiveWatched, LiveHandle
<1>7. QED
  BY <1>2, <1>3, <1>4, <1>5, <1>6 DEF ProcessOf

-----------------------------------------------------------------------------
(* The processes kept, joined and spawned are the instance's own             *)

OwnStep(c) ==
  /\ mode' = mode
  /\ \A i \in Inst \ {InstOf[c]} : rt'[i] = rt[i]
  /\ rt'[InstOf[c]].processHandle \in {My(c).processHandle, None, c}
  /\ \A d \in Call \ {c} : joining'[d] = joining[d]
  /\ joining'[c] \in {joining[c], My(c).processHandle, None, c}
  /\ \A d \in Call : child[d] = "none" /\ child'[d] # "none" => d = c /\ pc[c] = "configure"
  /\ \A d \in Call : InstOf[d] # InstOf[c] => child'[d] = child[d]
  /\ pc[c] \in SpawnedPC \cup {"configure"} => pc'[c] \in SpawnedPC

LEMMA OwnEffects ==
  ASSUME TypeOK, ModeFits, OwnProcess, NEW c \in Call, OwnStep(c),
         KeepsStart(c) \/ NewStart(c) \/ EndsStart(c)
  PROVE  ModeFits' /\ OwnProcess'
<1> USE DEF OwnStep, My
<1>0. /\ InstOf \in [Call -> Inst] /\ None \notin Call
      /\ StartPC = ManagedPC \cup ExternalPC /\ ManagedPC \cap ExternalPC = {}
      /\ "configure" \in ManagedPC /\ "load" \in ManagedPC /\ "validate" \in ExternalPC
      /\ {"stopwait", "stoprelease", "stopremove", "done", "startaborted"} \cap StartPC = {}
      /\ "stopwait" \notin SpawnedPC
  BY ConstAssumption DEF StartPC, ManagedPC, ExternalPC, SpawnedPC
<1>1. OwnProcess'
  BY <1>0 DEF OwnProcess
<1>2. \A d \in Call : child'[d] # "none" => mode[InstOf[d]] = "managed"
  BY <1>0 DEF ModeFits
<1>3. \A d \in Call \ {c} : pc'[d] = pc[d]
        \/ (pc[d] = "stopwait" /\ pc'[d] \in {"stoprelease", "stopremove"})
  BY DEF KeepsStart, NewStart, EndsStart
<1>4. \A d \in Call : child'[d] # "none" => pc'[d] \in SpawnedPC
  BY <1>0, <1>3 DEF ModeFits
<1>5. \A d \in Call \ {c} : /\ pc'[d] \in ManagedPC => mode[InstOf[d]] = "managed"
                            /\ pc'[d] \in ExternalPC => mode[InstOf[d]] = "external"
  BY <1>0, <1>3 DEF ModeFits
<1>6. mode[InstOf[c]] \in {"managed", "external"}
  BY <1>0 DEF TypeOK
<1>7. /\ pc'[c] \in ManagedPC => mode[InstOf[c]] = "managed"
      /\ pc'[c] \in ExternalPC => mode[InstOf[c]] = "external"
  BY <1>0, <1>6 DEF ModeFits, KeepsStart, NewStart, EndsStart
<1>8. ModeFits'
  BY <1>2, <1>4, <1>5, <1>7 DEF ModeFits
<1>9. QED
  BY <1>1, <1>8

-----------------------------------------------------------------------------
(* The fragments, as such steps                                              *)

LEMMA TerminateFacts ==
  ASSUME TypeOK, NEW c \in Call, NEW h \in Call \cup {None},
         NEW processes \in [Call -> {"none", "running", "terminating", "exited", "reported"}],
         Terminate(c, processes, h)
  PROVE  /\ joining'[c] = h /\ \A d \in Call \ {c} : joining'[d] = joining[d]
         /\ \A k \in Call : child'[k] = IF k = h /\ processes[k] = "running"
                                       THEN "terminating" ELSE processes[k]
         /\ h = None => child' = processes
BY ConstAssumption DEF Terminate, TypeOK

LEMMA DropOwnerFacts ==
  ASSUME TypeOK, NEW c \in Call, NEW r \in Fields, NEW releasing, NEW released,
         DropOwner(c, r, releasing, released)
  PROVE  /\ rt'[InstOf[c]].processHandle = None /\ rt'[InstOf[c]].ownerHeld = FALSE
         /\ rt'[InstOf[c]].state = r.state
         /\ rt'[InstOf[c]].startPromise = r.startPromise
         /\ rt'[InstOf[c]].stopRequested = r.stopRequested
         /\ \A i \in Inst \ {InstOf[c]} : rt'[i] = rt[i]
         /\ pc'[c] \in {releasing, released}
         /\ \A d \in Call \ {c} : pc'[d] = pc[d]
<1> DEFINE s == [r EXCEPT !.processHandle = None, !.ownerHeld = FALSE]
<1>1. /\ s.processHandle = None /\ s.ownerHeld = FALSE /\ s.state = r.state
      /\ s.startPromise = r.startPromise /\ s.stopRequested = r.stopRequested
  BY DEF Fields
<1>2. Put(c, s) /\ Goto(c, IF r.ownerHeld THEN releasing ELSE released)
  BY DEF DropOwner
<1> HIDE DEF s
<1>3. QED
  BY <1>1, <1>2, PutGoto

(* r is what a start leaves of its instance's fields before it fails.        *)
LEMMA FailStep ==
  ASSUME TypeOK, ControlInv, NEW c \in Call, NEW r \in Fields, Fail(c, r, child),
         pc[c] \in {"load", "acquire", "portprobe", "configure", "readiness"}, mode' = mode,
         r.startPromise = My(c).startPromise, r.processHandle = My(c).processHandle,
         r.state = My(c).state, r.stopRequested = My(c).stopRequested,
         r.ownerHeld = My(c).ownerHeld \/ r.ownerHeld
  PROVE  /\ KeepsStart(c) /\ OwnStep(c)
         /\ ProcessOf(InstOf[c]) => Joins(c) \/ Drops(c)
<1>0. /\ InstOf[c] \in Inst /\ None \notin Call /\ r.processHandle \in Call \cup {None}
      /\ child \in [Call -> {"none", "running", "terminating", "exited", "reported"}]
      /\ {"load", "acquire", "portprobe", "configure", "readiness", "failjoin", "failrelease", "failremove"}
           \subseteq ManagedPC
      /\ ManagedPC \subseteq StartPC /\ ManagedPC \cap ExternalPC = {} /\ ManagedPC \cap StopWork = {}
      /\ {"failjoin", "failrelease", "failremove"} \subseteq SpawnedPC
  BY ConstAssumption DEF TypeOK, Fields, StartPC, ManagedPC, ExternalPC, StopWork, StopPC, SpawnedPC
<1>1. /\ joining'[c] = r.processHandle /\ \A d \in Call \ {c} : joining'[d] = joining[d]
      /\ \A k \in Call : child'[k] = IF k = r.processHandle /\ child[k] = "running"
                                    THEN "terminating" ELSE child[k]
      /\ r.processHandle = None => child' = child
  BY <1>0, TerminateFacts DEF Fail
<1>2. My(c).startPromise = c /\ My(c).state # "ready"
  BY <1>0 DEF ControlInv, OneStart, NotYetReady, My
<1>a. r.processHandle # None => InstOf[r.processHandle] = InstOf[c]
  BY <1>0 DEF ControlInv, OwnProcess, My
<1>3. CASE r.processHandle # None
  <2>1. /\ rt'[InstOf[c]] = r /\ \A i \in Inst \ {InstOf[c]} : rt'[i] = rt[i]
        /\ pc'[c] = "failjoin" /\ \A d \in Call \ {c} : pc'[d] = pc[d]
    BY <1>3, PutGoto DEF Fail
  <2>2. KeepsStart(c)
    BY <1>0, <1>2, <2>1 DEF KeepsStart, OthersStay, My
  <2>3. OwnStep(c)
    BY <1>0, <1>1, <1>a, <2>1 DEF OwnStep, My
  <2>4. Joins(c)
    BY <1>0, <1>1, <1>3, <2>1 DEF Joins, SameOthers, My
  <2>5. QED
    BY <2>2, <2>3, <2>4
<1>4. CASE r.processHandle = None
  <2>0. DropOwner(c, r, "failrelease", "failremove")
    BY <1>4 DEF Fail
  <2>1. /\ rt'[InstOf[c]].processHandle = None /\ rt'[InstOf[c]].ownerHeld = FALSE
        /\ rt'[InstOf[c]].state = r.state
        /\ rt'[InstOf[c]].startPromise = r.startPromise
        /\ rt'[InstOf[c]].stopRequested = r.stopRequested
        /\ \A i \in Inst \ {InstOf[c]} : rt'[i] = rt[i]
        /\ pc'[c] \in {"failrelease", "failremove"}
        /\ \A d \in Call \ {c} : pc'[d] = pc[d]
    BY <2>0, DropOwnerFacts
  <2>2. KeepsStart(c)
    BY <1>0, <1>2, <2>1 DEF KeepsStart, OthersStay, My
  <2>3. OwnStep(c)
    BY <1>0, <1>1, <1>4, <2>1 DEF OwnStep, My
  <2>4. ASSUME ProcessOf(InstOf[c]) PROVE Drops(c)
    <3>1. \A k \in CallsOf(InstOf[c]) : ~Live(k)
      BY <1>0, <1>4, <2>4 DEF ProcessOf, LiveHandle, My, CallsOf
    <3>2. QED
      BY <1>0, <1>1, <1>2, <1>4, <2>1, <3>1 DEF Drops, SameOthers, My
  <2>5. QED
    BY <2>2, <2>3, <2>4
<1>5. QED
  BY <1>3, <1>4

LEMMA StartEndsFacts ==
  ASSUME TypeOK, NEW c \in Call, NEW r \in Fields, NEW how, StartEnds(c, r, how), pc[c] # "stopwait"
  PROVE  /\ rt'[InstOf[c]].state = r.state
         /\ rt'[InstOf[c]].startPromise = None
         /\ rt'[InstOf[c]].processHandle \in {r.processHandle, None}
         /\ (\A s \in Call : pc[s] = "stopwait" => pending[s] # c) =>
              /\ rt'[InstOf[c]].processHandle = r.processHandle
              /\ rt'[InstOf[c]].ownerHeld = r.ownerHeld
         /\ (\E d \in Call \ {c} : pc'[d] # pc[d]) => rt'[InstOf[c]].processHandle = None
         /\ \A i \in Inst \ {InstOf[c]} : rt'[i] = rt[i]
         /\ pc'[c] = how
         /\ \A d \in Call \ {c} : \/ pc'[d] = pc[d]
                                  \/ pc[d] = "stopwait" /\ pc'[d] \in {"stoprelease", "stopremove"}
<1> DEFINE ended   == [r EXCEPT !.startPromise = None]
           dropped == [ended EXCEPT !.processHandle = None, !.ownerHeld = FALSE]
           waiters == {s \in Call : pc[s] = "stopwait" /\ pending[s] = c}
           woken   == IF ended.ownerHeld THEN "stoprelease" ELSE "stopremove"
<1>1. /\ ended.startPromise = None /\ ended.ownerHeld = r.ownerHeld /\ ended.state = r.state
      /\ ended.processHandle = r.processHandle
      /\ dropped.startPromise = None /\ dropped.processHandle = None /\ dropped.state = r.state
  BY DEF Fields
<1>2. /\ rt'[InstOf[c]] = IF waiters = {} THEN ended ELSE dropped
      /\ \A i \in Inst \ {InstOf[c]} : rt'[i] = rt[i]
      /\ \A x \in Call : pc'[x] = IF x = c THEN how ELSE IF x \in waiters THEN woken ELSE pc[x]
  BY PutGoto DEF StartEnds
<1>3. woken \in {"stoprelease", "stopremove"}
  OBVIOUS
<1>4. /\ \A s \in waiters : pc[s] = "stopwait"
      /\ (\A s \in Call : pc[s] = "stopwait" => pending[s] # c) => waiters = {}
  OBVIOUS
<1> HIDE DEF ended, dropped, waiters, woken
<1>5. \A d \in Call \ {c} : \/ pc'[d] = pc[d]
                            \/ pc[d] = "stopwait" /\ pc'[d] \in {"stoprelease", "stopremove"}
  <2> SUFFICES ASSUME NEW d \in Call, d # c
               PROVE  \/ pc'[d] = pc[d]
                      \/ pc[d] = "stopwait" /\ pc'[d] \in {"stoprelease", "stopremove"}
    OBVIOUS
  <2>1. pc'[d] = IF d \in waiters THEN woken ELSE pc[d]
    BY <1>2
  <2>2. CASE d \in waiters
    <3>1. pc[d] = "stopwait" /\ pc'[d] = woken
      BY <1>4, <2>1, <2>2
    <3>2. QED
      BY <1>3, <3>1
  <2>3. CASE d \notin waiters
    BY <2>1, <2>3
  <2>4. QED
    BY <2>2, <2>3
<1>6. CASE waiters = {}
  <2>1. \A d \in Call \ {c} : pc'[d] = pc[d]
    BY <1>2, <1>6
  <2>2. QED
    BY <1>1, <1>2, <1>6, <2>1
<1>7. CASE waiters # {}
  BY <1>1, <1>2, <1>4, <1>5, <1>7
<1>8. QED
  BY <1>6, <1>7

(* r is what the start leaves of its instance's fields as it returns.        *)
LEMMA ReturnStep ==
  ASSUME TypeOK, ControlInv, StartInv, NEW c \in Call, NEW r \in Fields,
         NEW how \in {"done", "startaborted"}, StartEnds(c, r, how),
         pc[c] \in StartPC, pc[c] \in SpawnedPC \cup ExternalPC,
         mode' = mode, UNCHANGED <<child, joining, pending>>,
         r.processHandle = My(c).processHandle, r.ownerHeld = My(c).ownerHeld,
         r.state = "starting" => how = "startaborted",
         r.state = "stopping" => My(c).state = "stopping",
         \/ pc[c] = "readiness" /\ My(c).state = "starting" /\ r.state = "ready"
         \/ /\ pc[c] \in {"failremove"} \cup ExternalPC
            /\ r.state = "ready" => mode[InstOf[c]] # "managed"
  PROVE  /\ EndsStart(c) /\ OwnStep(c)
         /\ ProcessOf(InstOf[c]) => Returns(c)
<1>0. /\ InstOf[c] \in Inst /\ "stopwait" \notin StartPC /\ "readiness" \in StartPC
      /\ {"done", "startaborted"} \subseteq SpawnedPC /\ "configure" \notin SpawnedPC \cup ExternalPC
  BY ConstAssumption DEF StartPC, SpawnedPC, ExternalPC
<1>1. /\ rt'[InstOf[c]].state = r.state
      /\ rt'[InstOf[c]].startPromise = None
      /\ rt'[InstOf[c]].processHandle \in {r.processHandle, None}
      /\ (\A s \in Call : pc[s] = "stopwait" => pending[s] # c) =>
           /\ rt'[InstOf[c]].processHandle = r.processHandle
           /\ rt'[InstOf[c]].ownerHeld = r.ownerHeld
      /\ (\E d \in Call \ {c} : pc'[d] # pc[d]) => rt'[InstOf[c]].processHandle = None
      /\ \A i \in Inst \ {InstOf[c]} : rt'[i] = rt[i]
      /\ pc'[c] = how
      /\ \A d \in Call \ {c} : \/ pc'[d] = pc[d]
                               \/ pc[d] = "stopwait" /\ pc'[d] \in {"stoprelease", "stopremove"}
  BY <1>0, StartEndsFacts
<1>2. EndsStart(c)
  BY <1>1 DEF EndsStart, OthersStay
<1>3. OwnStep(c)
  BY <1>0, <1>1 DEF OwnStep
<1>4. ASSUME ProcessOf(InstOf[c]) PROVE Returns(c)
  <2>1. CASE pc[c] = "readiness" /\ My(c).state = "starting" /\ r.state = "ready"
    <3>1. \A s \in Call : pc[s] = "stopwait" => pending[s] # c
      BY <1>0, <2>1, ConstAssumption DEF StartInv, PendingRuns, PendingStops, AwaitsStart,
         ControlInv, OneStart, My
    <3>2. QED
      BY <1>1, <2>1, <3>1 DEF Returns
  <2>2. CASE pc[c] \in {"failremove"} \cup ExternalPC /\ (r.state = "ready" => mode[InstOf[c]] # "managed")
    <3>1. \A k \in CallsOf(InstOf[c]) : ~Live(k)
      <4>1. CASE pc[c] = "failremove"
        BY <4>1, <1>4 DEF ProcessOf, NoneBeside, CallsOf
      <4>2. CASE pc[c] \in ExternalPC
        BY <4>2 DEF ControlInv, ModeFits, CallsOf, Live
      <4>3. QED
        BY <2>2, <4>1, <4>2
    <3>2. QED
      BY <1>1, <2>2, <3>1 DEF Returns
  <2>3. QED
    BY <2>1, <2>2
<1>5. QED
  BY <1>2, <1>3, <1>4

(* r is what a call leaves of its instance's fields before it starts.        *)
Begun(c, r) ==
  /\ r \in Fields
  /\ r.startPromise = My(c).startPromise
  /\ r.processHandle = My(c).processHandle /\ r.ownerHeld = My(c).ownerHeld
  /\ \/ r.state = My(c).state /\ r.stopRequested = My(c).stopRequested
     \/ r.state = "stopped" /\ My(c).state \notin {"ready", "starting"}
  /\ r.state = "stopping" => pc[c] \notin StopWork

(* A step that passes the processes by.                                      *)
PassingStep(c) ==
  /\ KeepsStart(c) \/ NewStart(c)
  /\ OwnStep(c)
  /\ Passes(c)

LEMMA GoStep ==
  ASSUME TypeOK, ControlInv, NEW c \in Call, NEW r, Begun(c, r), Put(c, r),
         NEW to \in {"done", "stopidle", "prepare"}, Goto(c, to), mode' = mode,
         UNCHANGED <<child, joining>>, pc[c] \in {"idle", "stopidle", "stopremove"}
  PROVE  PassingStep(c)
<1>0. /\ InstOf[c] \in Inst
      /\ {"done", "stopidle", "idle", "stopremove", "prepare"}
           \cap (StartPC \cup Busy \cup {"failrelease", "failremove"}) = {}
      /\ StartPC = ManagedPC \cup ExternalPC
      /\ {"idle", "stopidle", "stopremove"} \cap (SpawnedPC \cup {"configure"}) = {}
  BY ConstAssumption DEF StartPC, ManagedPC, ExternalPC, Busy, SpawnedPC
<1>1. /\ rt'[InstOf[c]] = r /\ \A i \in Inst \ {InstOf[c]} : rt'[i] = rt[i]
      /\ pc'[c] = to /\ \A d \in Call \ {c} : pc'[d] = pc[d]
  BY PutGoto
<1>2. KeepsStart(c)
  BY <1>0, <1>1 DEF KeepsStart, OthersStay, Begun
<1>3. OwnStep(c)
  BY <1>0, <1>1 DEF OwnStep, Begun
<1>4. Passes(c)
  BY <1>0, <1>1 DEF Passes, SameProcess, SameOthers, Begun
<1>5. QED
  BY <1>2, <1>3, <1>4 DEF PassingStep

LEMMA EnterStartStep ==
  ASSUME TypeOK, ControlInv, NEW c \in Call, NEW r, Begun(c, r), EnterStart(c, r), mode' = mode,
         UNCHANGED <<child, joining>>, pc[c] \in {"idle", "stopidle", "stopremove"}
  PROVE  PassingStep(c)
<1>1. CASE Put(c, r) /\ Goto(c, "done")
  BY <1>1, GoStep
<1>2. CASE /\ r.startPromise = None /\ r.state \notin {"disabled", "ready", "stopping"}
           /\ Put(c, [r EXCEPT !.state = "starting", !.stopRequested = FALSE, !.startPromise = c])
           /\ Goto(c, IF mode[InstOf[c]] = "managed" THEN "load" ELSE "validate")
  <2> DEFINE s == [r EXCEPT !.state = "starting", !.stopRequested = FALSE, !.startPromise = c]
             to == IF mode[InstOf[c]] = "managed" THEN "load" ELSE "validate"
  <2>0. /\ InstOf[c] \in Inst /\ to \in {"load", "validate"}
        /\ {"load", "validate"} \subseteq StartPC
        /\ {"load", "validate", "idle", "stopidle", "stopremove"}
             \cap (Busy \cup {"failrelease", "failremove"}) = {}
        /\ {"idle", "stopidle", "stopremove"} \cap (SpawnedPC \cup StartPC \cup {"configure"}) = {}
    BY ConstAssumption DEF StartPC, Busy, SpawnedPC
  <2>1. /\ s.state = "starting" /\ s.stopRequested = FALSE /\ s.startPromise = c
        /\ s.processHandle = r.processHandle /\ s.ownerHeld = r.ownerHeld
    BY DEF Fields, Begun
  <2>2. Put(c, s) /\ Goto(c, to)
    BY <1>2
  <2> HIDE DEF s
  <2>3. /\ rt'[InstOf[c]] = s /\ \A i \in Inst \ {InstOf[c]} : rt'[i] = rt[i]
        /\ pc'[c] = to /\ \A d \in Call \ {c} : pc'[d] = pc[d]
    BY <2>2, PutGoto
  <2>4. NewStart(c)
    BY <1>2, <2>0, <2>1, <2>3 DEF NewStart, OthersStay, Begun
  <2>5. OwnStep(c)
    BY <2>0, <2>1, <2>3 DEF OwnStep, Begun
  <2>6. Passes(c)
    BY <1>2, <2>0, <2>1, <2>3 DEF Passes, SameProcess, SameOthers, Begun
  <2>7. QED
    BY <2>4, <2>5, <2>6 DEF PassingStep
<1>3. QED
  BY <1>1, <1>2 DEF EnterStart

LEMMA StopReturnsStep ==
  ASSUME TypeOK, ControlInv, NEW c \in Call, NEW r, Begun(c, r),
         NEW o \in {"stop", "restart", "dispose"}, StopReturns(c, r, o), mode' = mode,
         UNCHANGED <<child, joining>>, pc[c] \in {"idle", "stopidle", "stopremove"}
  PROVE  PassingStep(c)
<1>1. CASE o = "stop"
  BY <1>1, GoStep DEF StopReturns
<1>2. CASE o = "restart"
  BY <1>2, EnterStartStep DEF StopReturns
<1>3. CASE o = "dispose"
  <2> DEFINE s == [r EXCEPT !.state = IF @ = "stopped" THEN "disabled" ELSE @, !.disposed = TRUE]
  <2>0. /\ InstOf[c] \in Inst
        /\ {"done", "idle", "stopidle", "stopremove"}
             \cap (StartPC \cup Busy \cup {"failrelease", "failremove"}) = {}
        /\ StartPC = ManagedPC \cup ExternalPC
        /\ {"idle", "stopidle", "stopremove"} \cap (SpawnedPC \cup {"configure"}) = {}
    BY ConstAssumption DEF StartPC, ManagedPC, ExternalPC, Busy, SpawnedPC
  <2>1. /\ s.state = IF r.state = "stopped" THEN "disabled" ELSE r.state
        /\ s.stopRequested = r.stopRequested /\ s.startPromise = r.startPromise
        /\ s.processHandle = r.processHandle /\ s.ownerHeld = r.ownerHeld
    BY DEF Fields, Begun
  <2>2. Put(c, s) /\ Goto(c, "done")
    BY <1>3 DEF StopReturns
  <2> HIDE DEF s
  <2>3. /\ rt'[InstOf[c]] = s /\ \A i \in Inst \ {InstOf[c]} : rt'[i] = rt[i]
        /\ pc'[c] = "done" /\ \A d \in Call \ {c} : pc'[d] = pc[d]
    BY <2>2, PutGoto
  <2>4. KeepsStart(c)
    BY <2>0, <2>1, <2>3 DEF KeepsStart, OthersStay, Begun
  <2>5. OwnStep(c)
    BY <2>0, <2>1, <2>3 DEF OwnStep, Begun
  <2>6. Passes(c)
    BY <2>0, <2>1, <2>3 DEF Passes, SameProcess, SameOthers, Begun
  <2>7. QED
    BY <2>4, <2>5, <2>6 DEF PassingStep
<1>4. QED
  BY <1>1, <1>2, <1>3

LEMMA EnterStopStep ==
  ASSUME TypeOK, ControlInv, NEW c \in Call, NEW o \in {"stop", "restart", "dispose"},
         EnterStop(c, My(c), o), pc[c] = "idle", mode' = mode
  PROVE  \/ PassingStep(c)
         \/ /\ KeepsStart(c) /\ OwnStep(c)
            /\ ProcessOf(InstOf[c]) => Joins(c) \/ Drops(c) \/ Passes(c)
<1>0. /\ InstOf[c] \in Inst /\ My(c) \in Fields /\ None \notin Call
      /\ child \in [Call -> {"none", "running", "terminating", "exited", "reported"}]
      /\ {"idle", "stopjoin", "stopwait", "stoprelease", "stopremove"}
           \cap (StartPC \cup SpawnedPC \cup {"configure"}) = {}
      /\ {"idle", "stopwait"} \cap (Busy \cup {"failrelease", "failremove"}) = {}
      /\ "idle" \notin StopWork /\ {"stopjoin", "stopwait", "stoprelease", "stopremove"} \subseteq StopWork
      /\ StartPC = ManagedPC \cup ExternalPC
  BY MyType, ConstAssumption DEF TypeOK, StartPC, ManagedPC, ExternalPC, StopWork, StopPC,
     SpawnedPC, Busy
<1>a. Begun(c, My(c))
  BY <1>0 DEF Begun
<1>1. CASE My(c).state \in {"disabled", "stopped"}
  BY <1>a, <1>1, GoStep DEF EnterStop
<1>2. CASE My(c).state = "stopping"
  BY <1>a, <1>2, StopReturnsStep DEF EnterStop
<1>3. CASE My(c).state \in {"starting", "ready", "degraded", "failed"}
  <2> DEFINE start == IF My(c).state = "starting" THEN My(c).startPromise ELSE None
             s == [My(c) EXCEPT !.state = "stopping", !.stopRequested = IF start # None THEN TRUE ELSE @]
             h == My(c).processHandle
  <2>1. /\ s \in Fields /\ s.state = "stopping" /\ s.startPromise = My(c).startPromise
        /\ s.processHandle = h /\ s.ownerHeld = My(c).ownerHeld
    BY <1>0 DEF Fields, State
  <2>2. /\ Terminate(c, child, h)
        /\ h # None => Put(c, s) /\ Goto(c, "stopjoin")
        /\ h = None /\ start # None => Put(c, s) /\ Goto(c, "stopwait")
        /\ h = None /\ start = None => DropOwner(c, s, "stoprelease", "stopremove")
    BY <1>3 DEF EnterStop
  <2>3. h \in Call \cup {None} /\ (h # None => InstOf[h] = InstOf[c])
    BY <1>0 DEF Fields, ControlInv, OwnProcess, My
  <2>4. /\ start # None => My(c).state = "starting"
        /\ start = None /\ My(c).state = "starting" => My(c).startPromise = None
    OBVIOUS
  <2> HIDE DEF start, s, h
  <2>5. /\ joining'[c] = h /\ \A d \in Call \ {c} : joining'[d] = joining[d]
        /\ \A k \in Call : child'[k] = IF k = h /\ child[k] = "running"
                                      THEN "terminating" ELSE child[k]
        /\ h = None => child' = child
    BY <1>0, <2>2, <2>3, TerminateFacts
  <2>6. h = My(c).processHandle
    BY DEF h
  <2>7. CASE h # None
    <3>1. /\ rt'[InstOf[c]] = s /\ \A i \in Inst \ {InstOf[c]} : rt'[i] = rt[i]
          /\ pc'[c] = "stopjoin" /\ \A d \in Call \ {c} : pc'[d] = pc[d]
      BY <2>2, <2>7, PutGoto
    <3>2. KeepsStart(c)
      BY <1>0, <2>1, <3>1 DEF KeepsStart, OthersStay
    <3>3. OwnStep(c)
      BY <1>0, <2>1, <2>3, <2>5, <2>6, <3>1 DEF OwnStep
    <3>4. Joins(c)
      BY <1>0, <2>1, <2>5, <2>6, <2>7, <3>1 DEF Joins, SameOthers
    <3>5. QED
      BY <3>2, <3>3, <3>4
  <2>8. CASE h = None /\ start # None
    <3>1. /\ rt'[InstOf[c]] = s /\ \A i \in Inst \ {InstOf[c]} : rt'[i] = rt[i]
          /\ pc'[c] = "stopwait" /\ \A d \in Call \ {c} : pc'[d] = pc[d]
      BY <2>2, <2>8, PutGoto
    <3>2. KeepsStart(c)
      BY <1>0, <2>1, <3>1 DEF KeepsStart, OthersStay
    <3>3. OwnStep(c)
      BY <1>0, <2>1, <2>3, <2>5, <2>6, <2>8, <3>1 DEF OwnStep
    <3>4. Passes(c)
      BY <1>0, <2>1, <2>4, <2>5, <2>6, <2>8, <3>1 DEF Passes, SameProcess, SameOthers
    <3>5. QED
      BY <3>2, <3>3, <3>4
  <2>9. CASE h = None /\ start = None
    <3>1. /\ rt'[InstOf[c]].processHandle = None /\ rt'[InstOf[c]].ownerHeld = FALSE
          /\ rt'[InstOf[c]].state = s.state
          /\ rt'[InstOf[c]].startPromise = s.startPromise
          /\ \A i \in Inst \ {InstOf[c]} : rt'[i] = rt[i]
          /\ pc'[c] \in {"stoprelease", "stopremove"}
          /\ \A d \in Call \ {c} : pc'[d] = pc[d]
      BY <2>1, <2>2, <2>9, DropOwnerFacts
    <3>2. KeepsStart(c)
      BY <1>0, <2>1, <3>1 DEF KeepsStart, OthersStay
    <3>3. OwnStep(c)
      BY <1>0, <2>1, <2>3, <2>5, <2>6, <2>9, <3>1 DEF OwnStep
    <3>4. ASSUME ProcessOf(InstOf[c]) PROVE Drops(c)
      <4>1. \A k \in CallsOf(InstOf[c]) : ~Live(k)
        BY <1>0, <2>6, <2>9, <3>4 DEF ProcessOf, LiveHandle, My, CallsOf
      <4>2. QED
        BY <1>0, <1>3, <2>1, <2>4, <2>5, <2>9, <3>1, <4>1 DEF Drops, SameOthers
    <3>5. QED
      BY <3>2, <3>3, <3>4
  <2>10. QED
    BY <2>7, <2>8, <2>9
<1>4. QED
  BY <1>1, <1>2, <1>3, MyType DEF Fields, State

-----------------------------------------------------------------------------
(* Every operation, as such a step                                           *)

ControlStep(c) == (KeepsStart(c) \/ NewStart(c) \/ EndsStart(c)) /\ OwnStep(c)

ProcessStep(c) ==
  ProcessOf(InstOf[c]) =>
    \/ Passes(c) \/ Drops(c) \/ Joins(c) \/ Waits(c)
    \/ GoesOn(c) \/ Spawns(c) \/ Returns(c)

LEMMA PutSame ==
  ASSUME TypeOK, NEW c \in Call, UNCHANGED rt PROVE Put(c, My(c))
BY ConstAssumption DEF TypeOK, Put, My

LEMMA StartStepProcess ==
  ASSUME TypeOK, ControlInv, StartInv, NEW c \in Call, StartStep(c)
  PROVE  ControlStep(c) /\ ProcessStep(c)
<1> USE DEF ControlStep, ProcessStep
<1>0. /\ InstOf[c] \in Inst /\ My(c) \in Fields /\ None \notin Call
      /\ {"load", "acquire", "portprobe", "configure", "readiness", "failjoin", "failrelease", "failremove"}
           \subseteq ManagedPC
      /\ {"readiness", "failjoin", "failrelease", "failremove"} \subseteq SpawnedPC
      /\ ExternalPC = {"validate", "probe"}
      /\ ManagedPC \cap StopWork = {} /\ ExternalPC \cap StopWork = {}
      /\ {"startaborted", "stopaborted"} \cap StartPC = {}
      /\ ManagedPC \cap ExternalPC = {} /\ StartPC = ManagedPC \cup ExternalPC
      /\ {"load", "acquire", "portprobe", "validate", "probe"} \cap (SpawnedPC \cup {"configure"}) = {}
      /\ {"failrelease", "failremove", "validate", "probe"} \cap Busy = {}
  BY MyType, ConstAssumption DEF StartPC, ManagedPC, ExternalPC, StopWork, StopPC, SpawnedPC, Busy
<1>a. \A here : At(c, here) => pc[c] = here /\ mode' = mode /\ UNCHANGED pending
  BY DEF At
<1>b. pc[c] \in StartPC => My(c).startPromise = c /\ My(c).state \notin {"ready", "degraded"}
  BY <1>0 DEF ControlInv, OneStart, NotYetReady, My
(* A start that fails where its fields are.                                  *)
<1>c. ASSUME Fail(c, My(c), child), mode' = mode,
             pc[c] \in {"load", "acquire", "portprobe", "configure", "readiness"}
      PROVE  ControlStep(c) /\ ProcessStep(c)
  BY <1>0, <1>c, FailStep
(* A start that goes on with the fields as they are.                         *)
<1>d. ASSUME NEW to \in StartPC, Goto(c, to), UNCHANGED <<rt, child, joining, mode>>,
             to \in ManagedPC <=> pc[c] \in ManagedPC, pc[c] \in StartPC,
             pc[c] \in SpawnedPC \cup {"configure"} => to \in SpawnedPC
      PROVE  KeepsStart(c) /\ OwnStep(c)
  <2>1. pc'[c] = to /\ \A d \in Call \ {c} : pc'[d] = pc[d]
    BY <1>d, PutGoto
  <2>2. KeepsStart(c)
    BY <1>0, <1>d, <2>1 DEF KeepsStart, OthersStay, My
  <2>3. OwnStep(c)
    BY <1>0, <1>d, <2>1 DEF OwnStep, My
  <2>4. QED
    BY <2>2, <2>3
<1>1. CASE Loaded(c)
  <2>1. CASE My(c).ownerHeld
    BY <1>1, <1>a, <1>c, <2>1 DEF Loaded
  <2>2. CASE ~My(c).ownerHeld
    <3>1. /\ pc[c] = "load" /\ Goto(c, "acquire") /\ UNCHANGED <<rt, child, joining, mode>>
          /\ JoinsResumed(c)
      BY <1>1, <2>2 DEF Loaded, At, Joined
    <3>2. pc'[c] = "acquire" /\ \A d \in Call \ {c} : pc'[d] = pc[d]
      BY <3>1, PutGoto
    <3>3. KeepsStart(c) /\ OwnStep(c)
      BY <1>0, <1>d, <3>1
    <3>4. GoesOn(c)
      BY <2>2, <3>1, <3>2 DEF GoesOn, SameOthers, My
    <3>5. QED
      BY <3>3, <3>4
  <2>3. QED
    BY <2>1, <2>2
<1>2. CASE LoadFails(c)
  BY <1>2, <1>a, <1>c DEF LoadFails
<1>3. CASE Acquired(c)
  <2> DEFINE r == [My(c) EXCEPT !.ownerHeld = TRUE]
  <2>1. /\ r \in Fields /\ r.ownerHeld = TRUE /\ r.state = My(c).state
        /\ r.startPromise = My(c).startPromise /\ r.processHandle = My(c).processHandle
        /\ r.stopRequested = My(c).stopRequested
    BY <1>0 DEF Fields
  <2>2. /\ pc[c] = "acquire" /\ mode' = mode
        /\ \/ Fail(c, r, child)
           \/ Put(c, r) /\ Goto(c, "portprobe") /\ UNCHANGED <<child, joining>>
    BY <1>3 DEF Acquired, At
  <2> HIDE DEF r
  <2>3. CASE Fail(c, r, child)
    BY <2>1, <2>2, <2>3, FailStep
  <2>4. CASE Put(c, r) /\ Goto(c, "portprobe") /\ UNCHANGED <<child, joining>>
    <3>1. /\ rt'[InstOf[c]] = r /\ \A i \in Inst \ {InstOf[c]} : rt'[i] = rt[i]
          /\ pc'[c] = "portprobe" /\ \A d \in Call \ {c} : pc'[d] = pc[d]
      BY <2>4, PutGoto
    <3>2. KeepsStart(c)
      BY <1>0, <2>1, <2>2, <3>1 DEF KeepsStart, OthersStay
    <3>3. OwnStep(c)
      BY <1>0, <2>1, <2>2, <2>4, <3>1 DEF OwnStep
    <3>4. GoesOn(c)
      BY <2>1, <2>2, <2>4, <3>1 DEF GoesOn, SameOthers
    <3>5. QED
      BY <3>2, <3>3, <3>4
  <2>5. QED
    BY <2>2, <2>3, <2>4
<1>4. CASE AcquireFails(c)
  BY <1>4, <1>a, <1>c DEF AcquireFails
<1>5. CASE PortFree(c)
  <2>1. pc[c] = "portprobe" /\ Goto(c, "configure") /\ UNCHANGED <<rt, child, joining, mode>>
    BY <1>5 DEF PortFree, At
  <2>2. pc'[c] = "configure" /\ \A d \in Call \ {c} : pc'[d] = pc[d]
    BY <2>1, PutGoto
  <2>3. KeepsStart(c) /\ OwnStep(c)
    BY <1>0, <1>d, <2>1
  <2>4. GoesOn(c)
    BY <2>1, <2>2 DEF GoesOn, SameOthers, My
  <2>5. QED
    BY <2>3, <2>4
<1>6. CASE PortProbeFails(c)
  BY <1>6, <1>a, <1>c DEF PortProbeFails
<1>7. CASE Spawned(c)
  <2> DEFINE r == [My(c) EXCEPT !.processHandle = c]
             processes == [child EXCEPT ![c] = "running"]
  <2>1. /\ r \in Fields /\ r.ownerHeld = My(c).ownerHeld /\ r.state = My(c).state
        /\ r.startPromise = My(c).startPromise /\ r.processHandle = c
        /\ r.stopRequested = My(c).stopRequested
        /\ processes \in [Call -> {"none", "running", "terminating", "exited", "reported"}]
        /\ processes[c] = "running" /\ \A d \in Call \ {c} : processes[d] = child[d]
    BY <1>0 DEF Fields, TypeOK
  <2>2. /\ pc[c] = "configure" /\ mode' = mode /\ JoinsResumed(c)
        /\ \/ Fail(c, r, processes)
           \/ Put(c, r) /\ Goto(c, "readiness") /\ child' = processes /\ UNCHANGED joining
    BY <1>7 DEF Spawned, At, Joined
  <2> HIDE DEF r, processes
  <2>3. /\ rt'[InstOf[c]] = r /\ \A i \in Inst \ {InstOf[c]} : rt'[i] = rt[i]
        /\ \A d \in Call \ {c} : pc'[d] = pc[d] /\ joining'[d] = joining[d] /\ child'[d] = child[d]
        /\ \/ pc'[c] = "readiness" /\ child'[c] = "running" /\ joining'[c] = joining[c]
           \/ pc'[c] = "failjoin" /\ child'[c] = "terminating" /\ joining'[c] = c
    <3>1. CASE Fail(c, r, processes)
      <4>1. Terminate(c, processes, c) /\ Put(c, r) /\ Goto(c, "failjoin")
        BY <1>0, <2>1, <3>1 DEF Fail
      <4>2. /\ joining'[c] = c /\ \A d \in Call \ {c} : joining'[d] = joining[d]
            /\ \A k \in Call : child'[k] = IF k = c /\ processes[k] = "running"
                                          THEN "terminating" ELSE processes[k]
        BY <2>1, <4>1, TerminateFacts
      <4>3. QED
        BY <2>1, <4>1, <4>2, PutGoto
    <3>2. CASE Put(c, r) /\ Goto(c, "readiness") /\ child' = processes /\ UNCHANGED joining
      BY <2>1, <3>2, PutGoto
    <3>3. QED
      BY <2>2, <3>1, <3>2
  <2>4. KeepsStart(c)
    BY <1>0, <2>1, <2>2, <2>3 DEF KeepsStart, OthersStay
  <2>5. OwnStep(c)
    BY <1>0, <2>1, <2>2, <2>3 DEF OwnStep
  <2>6. Spawns(c)
    BY <2>1, <2>2, <2>3 DEF Spawns, SameOthers
  <2>7. QED
    BY <2>4, <2>5, <2>6
<1>8. CASE SpawnFails(c)
  BY <1>8, <1>a, <1>c DEF SpawnFails
<1>9. CASE Ready(c)
  <2>1. pc[c] = "readiness" /\ mode' = mode /\ UNCHANGED pending
    BY <1>9, <1>a DEF Ready
  <2>2. CASE CanMove(My(c).state, "ready")
    <3>1. My(c).state = "starting"
      BY <1>0, <1>b, <2>1, <2>2 DEF CanMove, ALLOWED_TRANSITIONS
    <3> DEFINE r == Move(My(c), "ready")
    <3>2. /\ r \in Fields /\ r.state = "ready" /\ r.ownerHeld = My(c).ownerHeld
          /\ r.processHandle = My(c).processHandle
      BY <1>0, <2>2 DEF Move, Fields, State
    <3>3. StartEnds(c, r, "done") /\ UNCHANGED <<child, joining, pending>>
      BY <1>9, <2>1, <2>2 DEF Ready
    <3> HIDE DEF r
    <3>4. QED
      BY <1>0, <2>1, <3>1, <3>2, <3>3, ReturnStep
  <2>3. CASE ~CanMove(My(c).state, "ready")
    BY <1>9, <1>c, <2>1, <2>3 DEF Ready
  <2>4. QED
    BY <2>2, <2>3
<1>10. CASE ReadinessFails(c)
  BY <1>10, <1>a, <1>c DEF ReadinessFails
<1>11. CASE FailJoined(c)
  <2>1. /\ pc[c] = "failjoin" /\ mode' = mode /\ Joined(c)
        /\ DropOwner(c, My(c), "failrelease", "failremove")
        /\ joining'[c] = None /\ \A d \in Call \ {c} : joining'[d] = joining[d]
        /\ child' = child
    BY <1>11 DEF FailJoined, At, TypeOK
  <2>2. /\ rt'[InstOf[c]].processHandle = None /\ rt'[InstOf[c]].ownerHeld = FALSE
        /\ rt'[InstOf[c]].state = My(c).state
        /\ rt'[InstOf[c]].startPromise = My(c).startPromise
        /\ rt'[InstOf[c]].stopRequested = My(c).stopRequested
        /\ \A i \in Inst \ {InstOf[c]} : rt'[i] = rt[i]
        /\ pc'[c] \in {"failrelease", "failremove"}
        /\ \A d \in Call \ {c} : pc'[d] = pc[d]
    BY <1>0, <2>1, DropOwnerFacts
  <2>3. KeepsStart(c)
    BY <1>0, <1>b, <2>1, <2>2 DEF KeepsStart, OthersStay
  <2>4. OwnStep(c)
    BY <1>0, <2>1, <2>2 DEF OwnStep
  <2>5. ASSUME ProcessOf(InstOf[c]) PROVE Drops(c)
    <3>1. \A k \in CallsOf(InstOf[c]) : ~Live(k)
      BY <1>0, <2>1, <2>5 DEF ProcessOf, LiveHandle, JoinsCurrent, Joined, CallsOf
    <3>2. QED
      BY <1>0, <1>b, <2>1, <2>2, <3>1 DEF Drops, SameOthers
  <2>6. QED
    BY <2>3, <2>4, <2>5
<1>12. CASE FailReleased(c)
  <2>1. pc[c] = "failrelease" /\ Goto(c, "failremove") /\ UNCHANGED <<rt, child, joining, mode>>
    BY <1>12 DEF FailReleased, At
  <2>2. pc'[c] = "failremove" /\ \A d \in Call \ {c} : pc'[d] = pc[d]
    BY <2>1, PutGoto
  <2>3. KeepsStart(c) /\ OwnStep(c)
    BY <1>0, <1>d, <2>1
  <2>4. Passes(c)
    BY <1>0, <2>1, <2>2 DEF Passes, SameProcess, SameOthers, My
  <2>5. QED
    BY <2>3, <2>4
<1>e. \A to \in State : /\ Move(My(c), to) \in Fields
                       /\ Move(My(c), to).processHandle = My(c).processHandle
                       /\ Move(My(c), to).ownerHeld = My(c).ownerHeld
                       /\ Move(My(c), to).state = IF CanMove(My(c).state, to) THEN to ELSE My(c).state
  BY <1>0 DEF Move, Fields
<1>f. /\ {"ready", "degraded", "failed", "stopped", "starting"} \subseteq State
      /\ \A to \in {"ready", "degraded", "failed"} : CanMove("starting", to)
  BY DEF State, CanMove, ALLOWED_TRANSITIONS
<1>g. pc[c] \in StartPC /\ My(c).state = "starting" => ~My(c).stopRequested
  BY <1>0 DEF ControlInv, OneStart, StartingRuns, My
<1>13. CASE FailRemoved(c)
  <2>1. pc[c] = "failremove" /\ mode' = mode /\ UNCHANGED <<child, joining, pending>>
    BY <1>13, <1>a DEF FailRemoved
  <2>2. PICK r : /\ StartEnds(c, r, "done")
                 /\ \/ ~My(c).stopRequested /\ r = Move(My(c), "failed")
                    \/ My(c).stopRequested /\ r = Move(My(c), "stopped") /\ My(c).state = "stopping"
                    \/ My(c).stopRequested /\ r = My(c)
    BY <1>13 DEF FailRemoved
  <2>3. /\ r \in Fields /\ r.processHandle = My(c).processHandle /\ r.ownerHeld = My(c).ownerHeld
        /\ r.state # "starting" /\ (r.state = "stopping" => My(c).state = "stopping")
        /\ r.state # "ready"
    BY <1>0, <1>b, <1>e, <1>f, <1>g, <2>1, <2>2
  <2>4. QED
    BY <1>0, <2>1, <2>2, <2>3, ReturnStep
<1>h. pc[c] \in ExternalPC => mode[InstOf[c]] = "external"
  BY DEF ControlInv, ModeFits
(* startExternal() returns.                                                  *)
<1>i. ASSUME pc[c] \in ExternalPC, mode' = mode, UNCHANGED <<child, joining, pending>>,
             NEW r, StartEnds(c, r, "done"),
             \/ ~My(c).stopRequested /\ r \in {Move(My(c), "ready"), Move(My(c), "degraded")}
             \/ My(c).stopRequested /\ r = My(c)
      PROVE  ControlStep(c) /\ ProcessStep(c)
  <2>1. /\ r \in Fields /\ r.processHandle = My(c).processHandle /\ r.ownerHeld = My(c).ownerHeld
        /\ r.state # "starting" /\ (r.state = "stopping" => My(c).state = "stopping")
    BY <1>0, <1>b, <1>e, <1>f, <1>g, <1>i
  <2>2. r.state = "ready" => mode[InstOf[c]] # "managed"
    BY <1>h, <1>i
  <2>3. QED
    BY <1>0, <1>i, <2>1, <2>2, ReturnStep
(* A start is rejected with its state as it is.                              *)
<1>j. ASSUME pc[c] \in {"failremove", "validate"}, mode' = mode, UNCHANGED <<child, joining, pending>>,
             StartEnds(c, My(c), "startaborted")
      PROVE  ControlStep(c) /\ ProcessStep(c)
  <2>1. My(c).state # "ready"
    BY <1>0, <1>b, <1>j
  <2>2. QED
    BY <1>0, <1>j, <2>1, ReturnStep
<1>14. CASE Validated(c)
  <2>1. pc[c] = "validate" /\ mode' = mode /\ UNCHANGED <<child, joining, pending>>
    BY <1>14, <1>a DEF Validated
  <2>2. CASE Goto(c, "probe") /\ UNCHANGED rt
    <3>1. pc'[c] = "probe" /\ \A d \in Call \ {c} : pc'[d] = pc[d]
      BY <2>2, PutGoto
    <3>2. KeepsStart(c) /\ OwnStep(c)
      BY <1>0, <1>d, <2>1, <2>2
    <3>3. Passes(c)
      BY <1>0, <2>1, <2>2, <3>1 DEF Passes, SameProcess, SameOthers, My
    <3>4. QED
      BY <3>2, <3>3
  <2>3. QED
    BY <1>0, <1>14, <1>i, <1>j, <2>1, <2>2 DEF Validated
<1>15. CASE Probed(c)
  <2>1. pc[c] = "probe" /\ mode' = mode /\ UNCHANGED <<child, joining, pending>>
    BY <1>15, <1>a DEF Probed
  <2>2. CASE My(c).stopRequested
    BY <1>0, <1>15, <1>i, <2>1, <2>2 DEF Probed
  <2>3. CASE ~My(c).stopRequested
    <3>1. PICK to \in {"ready", "degraded"} : StartEnds(c, Move(My(c), to), "done")
      BY <1>15, <2>3 DEF Probed
    <3>2. QED
      BY <1>0, <1>i, <2>1, <2>3, <3>1
  <2>4. QED
    BY <2>2, <2>3
<1>16. CASE FailRemoveFails(c)
  BY <1>16, <1>a, <1>j DEF FailRemoveFails
<1>17. QED
  BY <1>1, <1>2, <1>3, <1>4, <1>5, <1>6, <1>7, <1>8, <1>9, <1>10, <1>11, <1>12,
     <1>13, <1>14, <1>15, <1>16 DEF StartStep

LEMMA StopStepProcess ==
  ASSUME TypeOK, StopOp, ControlInv, NEW c \in Call, StopStep(c)
  PROVE  ControlStep(c) /\ ProcessStep(c)
<1> USE DEF ControlStep, ProcessStep
<1>0. /\ InstOf[c] \in Inst /\ My(c) \in Fields /\ None \notin Call
      /\ {"stopidle", "stopjoin", "stopwait", "stoprelease", "stopremove"}
           \cap (StartPC \cup SpawnedPC \cup {"configure"}) = {}
      /\ {"stopwait", "stoprelease", "stopremove"} \cap (Busy \cup {"failrelease", "failremove"}) = {}
      /\ {"stopjoin", "stopwait", "stoprelease", "stopremove"} \subseteq StopWork
      /\ StartPC = ManagedPC \cup ExternalPC
  BY MyType, ConstAssumption DEF StartPC, ManagedPC, ExternalPC, StopWork, StopPC, SpawnedPC, Busy
<1>a. pc[c] \in {"stopidle", "stopremove"} => op[c] \in {"stop", "restart", "dispose"}
  BY DEF StopOp, StopPC
<1>b. "stopidle" \notin StopWork
  BY DEF StopWork
(* stop() goes on with the fields as they are.                               *)
<1>c. ASSUME pc[c] \in {"stopjoin", "stoprelease"}, NEW to \in {"stopwait", "stopremove"}, Goto(c, to),
             UNCHANGED <<rt, child, mode>>, joining'[c] \in {joining[c], None},
             \A d \in Call \ {c} : joining'[d] = joining[d]
      PROVE  /\ KeepsStart(c) /\ OwnStep(c)
             /\ pc'[c] = to /\ \A d \in Call \ {c} : pc'[d] = pc[d]
  <2>1. pc'[c] = to /\ \A d \in Call \ {c} : pc'[d] = pc[d]
    BY <1>c, PutGoto
  <2>2. KeepsStart(c)
    BY <1>0, <1>c, <2>1 DEF KeepsStart, OthersStay, My
  <2>3. OwnStep(c)
    BY <1>0, <1>c, <2>1 DEF OwnStep, My
  <2>4. QED
    BY <2>1, <2>2, <2>3
<1>1. CASE StopIdleRemoved(c)
  <2>1. /\ pc[c] = "stopidle" /\ mode' = mode /\ UNCHANGED <<child, joining>>
        /\ StopReturns(c, My(c), op[c])
    BY <1>1 DEF StopIdleRemoved, At
  <2>2. Begun(c, My(c))
    BY <1>0, <1>b, <2>1 DEF Begun
  <2>3. QED
    BY <1>a, <2>1, <2>2, StopReturnsStep DEF PassingStep
<1>2. CASE StopJoined(c)
  <2>1. /\ pc[c] = "stopjoin" /\ mode' = mode /\ Joined(c) /\ child' = child
        /\ joining'[c] = None /\ \A d \in Call \ {c} : joining'[d] = joining[d]
        /\ \/ Goto(c, "stopwait") /\ UNCHANGED rt
           \/ DropOwner(c, My(c), "stoprelease", "stopremove")
    BY <1>2 DEF StopJoined, At, TypeOK
  <2>2. CASE Goto(c, "stopwait") /\ UNCHANGED rt
    <3>1. /\ KeepsStart(c) /\ OwnStep(c)
          /\ pc'[c] = "stopwait" /\ \A d \in Call \ {c} : pc'[d] = pc[d]
      BY <1>c, <2>1, <2>2
    <3>2. Waits(c)
      BY <2>1, <2>2, <3>1 DEF Waits, SameOthers
    <3>3. QED
      BY <3>1, <3>2
  <2>3. CASE DropOwner(c, My(c), "stoprelease", "stopremove")
    <3>1. /\ rt'[InstOf[c]].processHandle = None /\ rt'[InstOf[c]].ownerHeld = FALSE
          /\ rt'[InstOf[c]].state = My(c).state
          /\ rt'[InstOf[c]].startPromise = My(c).startPromise
          /\ rt'[InstOf[c]].stopRequested = My(c).stopRequested
          /\ \A i \in Inst \ {InstOf[c]} : rt'[i] = rt[i]
          /\ pc'[c] \in {"stoprelease", "stopremove"}
          /\ \A d \in Call \ {c} : pc'[d] = pc[d]
      BY <1>0, <2>3, DropOwnerFacts
    <3>2. KeepsStart(c)
      BY <1>0, <2>1, <3>1 DEF KeepsStart, OthersStay
    <3>3. OwnStep(c)
      BY <1>0, <2>1, <3>1 DEF OwnStep
    <3>4. ASSUME ProcessOf(InstOf[c]) PROVE Drops(c)
      <4>1. \A k \in CallsOf(InstOf[c]) : ~Live(k)
        BY <1>0, <2>1, <3>4 DEF ProcessOf, LiveHandle, JoinsCurrent, Joined, CallsOf
      <4>2. QED
        BY <1>0, <2>1, <3>1, <4>1 DEF Drops, SameOthers
    <3>5. QED
      BY <3>2, <3>3, <3>4
  <2>4. QED
    BY <2>1, <2>2, <2>3
<1>3. CASE StopReleased(c)
  <2>1. pc[c] = "stoprelease" /\ Goto(c, "stopremove") /\ UNCHANGED <<rt, child, joining, mode>>
    BY <1>3 DEF StopReleased, At
  <2>2. /\ KeepsStart(c) /\ OwnStep(c)
        /\ pc'[c] = "stopremove" /\ \A d \in Call \ {c} : pc'[d] = pc[d]
    BY <1>c, <2>1
  <2>3. Passes(c)
    BY <1>0, <2>1, <2>2 DEF Passes, SameProcess, SameOthers, My
  <2>4. QED
    BY <2>2, <2>3
<1>4. CASE StopRemoved(c)
  <2>1. pc[c] = "stopremove" /\ mode' = mode /\ UNCHANGED <<child, joining>>
    BY <1>4 DEF StopRemoved, At
  <2>2. CASE CanMove(My(c).state, "stopped")
    <3> DEFINE r == [My(c) EXCEPT !.state = "stopped", !.stopRequested = FALSE]
    <3>1. /\ r \in Fields /\ r.state = "stopped" /\ r.startPromise = My(c).startPromise
          /\ r.processHandle = My(c).processHandle /\ r.ownerHeld = My(c).ownerHeld
      BY <1>0 DEF Fields, State
    <3>2. StopReturns(c, r, op[c])
      BY <1>4, <2>2 DEF StopRemoved
    <3>3. My(c).state \notin {"ready", "starting"}
      BY <2>2 DEF CanMove, ALLOWED_TRANSITIONS
    <3> HIDE DEF r
    <3>4. Begun(c, r)
      BY <3>1, <3>3 DEF Begun
    <3>5. QED
      BY <1>a, <2>1, <3>2, <3>4, StopReturnsStep DEF PassingStep
  <2>3. CASE ~CanMove(My(c).state, "stopped")
    <3>1. Goto(c, "done") /\ Put(c, My(c))
      BY <1>4, <2>3, PutSame DEF StopRemoved
    <3>2. My(c).state # "stopping"
      BY <2>3 DEF CanMove, ALLOWED_TRANSITIONS
    <3>3. Begun(c, My(c))
      BY <1>0, <3>2 DEF Begun
    <3>4. QED
      BY <2>1, <3>1, <3>3, GoStep DEF PassingStep
  <2>4. QED
    BY <2>2, <2>3
<1>5. CASE StopRemoveFails(c)
  <2>1. /\ pc[c] \in {"stopidle", "stopremove"} /\ UNCHANGED <<mode, rt, child, joining>>
        /\ Goto(c, IF pc[c] = "stopidle" THEN "done" ELSE "stopaborted")
    BY <1>5 DEF StopRemoveFails, At
  <2>2. CASE pc[c] = "stopidle"
    <3>1. Begun(c, My(c))
      BY <1>0, <1>b, <2>2 DEF Begun
    <3>2. QED
      BY <2>1, <2>2, <3>1, PutSame, GoStep DEF PassingStep
  <2>3. CASE pc[c] = "stopremove"
    <3>1. pc'[c] = "stopaborted" /\ \A d \in Call \ {c} : pc'[d] = pc[d]
      BY <2>1, <2>3, PutGoto
    <3>2. "stopaborted" \notin StartPC \cup SpawnedPC \cup Busy
      BY DEF StartPC, SpawnedPC, Busy
    <3>3. KeepsStart(c)
      BY <1>0, <2>1, <2>3, <3>1, <3>2 DEF KeepsStart, OthersStay, My
    <3>4. OwnStep(c)
      BY <1>0, <2>1, <2>3, <3>1, <3>2 DEF OwnStep, My
    <3>5. Passes(c)
      BY <1>0, <2>1, <2>3, <3>1, <3>2 DEF Passes, SameProcess, SameOthers, My
    <3>6. QED
      BY <3>3, <3>4, <3>5
  <2>4. QED
    BY <2>1, <2>2, <2>3
<1>6. QED
  BY <1>1, <1>2, <1>3, <1>4, <1>5 DEF StopStep

LEMMA CallBeginsProcess ==
  ASSUME TypeOK, ControlInv, NEW c \in Call, CallBegins(c)
  PROVE  ControlStep(c) /\ ProcessStep(c)
<1> USE DEF ControlStep, ProcessStep
<1>0. \A o : Called(c, o) => pc[c] = "idle" /\ mode' = mode
  BY DEF Called
<1>1. pc[c] = "idle" => Begun(c, My(c))
  BY MyType DEF Begun, StopWork, StopPC
<1>2. ASSUME pc[c] = "idle", mode' = mode, UNCHANGED <<rt, child, joining>>,
             NEW to \in {"done", "prepare"}, Goto(c, to)
      PROVE  ControlStep(c) /\ ProcessStep(c)
  BY <1>1, <1>2, PutSame, GoStep DEF PassingStep
<1>3. CASE Start(c)
  BY <1>0, <1>1, <1>3, EnterStartStep DEF Start, PassingStep
<1>4. ASSUME NEW o \in {"stop", "restart", "dispose"}, EnterStop(c, My(c), o), pc[c] = "idle", mode' = mode
      PROVE  ControlStep(c) /\ ProcessStep(c)
  BY <1>4, EnterStopStep DEF PassingStep
<1>5. CASE Stop(c)
  BY <1>0, <1>4, <1>5 DEF Stop
<1>6. CASE Restart(c)
  BY <1>0, <1>2, <1>4, <1>6 DEF Restart, Rejected
<1>7. CASE Dispose(c)
  BY <1>0, <1>2, <1>4, <1>7 DEF Dispose, Rejected
<1>8. CASE Install(c)
  BY <1>0, <1>2, <1>8 DEF Install
<1>9. QED
  BY <1>3, <1>5, <1>6, <1>7, <1>8 DEF CallBegins

LEMMA InstallStepProcess ==
  ASSUME TypeOK, ControlInv, NEW c \in Call, InstallStep(c)
  PROVE  /\ ControlStep(c) /\ ~NeverInstalls(InstOf[c])
         /\ SameOthers(c) /\ child' = child
<1>0. /\ InstOf[c] \in Inst /\ My(c) \in Fields
      /\ InstallPC \cap (StartPC \cup StopWork \cup SpawnedPC \cup {"configure"}) = {}
      /\ StartPC = ManagedPC \cup ExternalPC /\ {"prepare", "insacquire", "inswork", "insrelease"} = InstallPC
      /\ "done" \notin StartPC
  BY MyType, ConstAssumption DEF InstallPC, StartPC, ManagedPC, ExternalPC, StopWork, StopPC, SpawnedPC
<1>1. /\ pc[c] \in InstallPC /\ UNCHANGED <<mode, child, joining>>
      /\ \E to \in InstallPC \cup {"done"} : Goto(c, to)
      /\ \E b \in BOOLEAN : UNCHANGED rt \/ Put(c, [My(c) EXCEPT !.ownerHeld = b])
  BY <1>0 DEF InstallStep, InstallPrepared, InstallAcquires, InstallRefused, InstallWorked, InstallReleased, At
<1>2. PICK to \in InstallPC \cup {"done"} : pc'[c] = to /\ \A d \in Call \ {c} : pc'[d] = pc[d]
  BY <1>1, PutGoto
<1>3. /\ rt'[InstOf[c]].state = My(c).state /\ rt'[InstOf[c]].startPromise = My(c).startPromise
      /\ rt'[InstOf[c]].stopRequested = My(c).stopRequested
      /\ rt'[InstOf[c]].processHandle = My(c).processHandle
      /\ \A i \in Inst \ {InstOf[c]} : rt'[i] = rt[i]
  <2>1. CASE UNCHANGED rt
    BY <2>1 DEF My
  <2>2. ASSUME NEW b \in BOOLEAN, Put(c, [My(c) EXCEPT !.ownerHeld = b])
        PROVE  /\ rt'[InstOf[c]].state = My(c).state /\ rt'[InstOf[c]].startPromise = My(c).startPromise
               /\ rt'[InstOf[c]].stopRequested = My(c).stopRequested
               /\ rt'[InstOf[c]].processHandle = My(c).processHandle
               /\ \A i \in Inst \ {InstOf[c]} : rt'[i] = rt[i]
    <3> DEFINE r == [My(c) EXCEPT !.ownerHeld = b]
    <3>1. /\ r.state = My(c).state /\ r.startPromise = My(c).startPromise
          /\ r.stopRequested = My(c).stopRequested /\ r.processHandle = My(c).processHandle
      BY <1>0 DEF Fields
    <3>2. Put(c, r)
      BY <2>2
    <3> HIDE DEF r
    <3>3. QED
      BY <3>1, <3>2, PutGoto
  <2>3. QED
    BY <1>1, <2>1, <2>2
<1>4. KeepsStart(c)
  BY <1>0, <1>1, <1>2, <1>3 DEF KeepsStart, OthersStay
<1>5. OwnStep(c)
  BY <1>0, <1>1, <1>2, <1>3 DEF OwnStep
<1>6. op[c] = "install"
  BY <1>1 DEF ControlInv, OpShown
<1>7. QED
  BY <1>1, <1>2, <1>4, <1>5, <1>6 DEF ControlStep, SameOthers, NeverInstalls, CallsOf

(* op shows the operation of a call from its first step on.                  *)
LEMMA StepOp ==
  ASSUME TypeOK, StopOp, ControlInv, NEW c \in Call,
         CallBegins(c) \/ Step(c) \/ ChildExits(c) \/ ChildReported(c),
         \A d \in Call \ {c} : pc'[d] = pc[d]
           \/ (pc[d] = "stopwait" /\ pc'[d] \in {"stoprelease", "stopremove"})
  PROVE  /\ OpShown'
         /\ \A i \in Inst : NeverInstalls(i)' => NeverInstalls(i)
<1>0. /\ {"stoprelease", "stopremove", "stopwait"} \cap (InstallPC \cup {"idle"}) = {}
      /\ StopPC \cap (InstallPC \cup {"idle"}) = {} /\ StartPC \cap (InstallPC \cup {"idle"}) = {}
      /\ {"done", "startaborted", "stopaborted", "load", "validate"} \cap (InstallPC \cup {"idle"}) = {}
      /\ "idle" \notin InstallPC /\ None # "install"
  BY ConstAssumption DEF InstallPC, StopPC, StartPC
<1>1. CASE CallBegins(c)
  <2>1. PICK o : /\ Called(c, o) /\ pc'[c] # "idle"
                 /\ pc'[c] \in InstallPC => o = "install"
    <3>1. CASE Start(c)
      <4>1. \E to \in {"done", "load", "validate"} : Goto(c, to)
        BY <3>1 DEF Start, EnterStart
      <4>2. QED
        BY <1>0, <3>1, <4>1, PutGoto DEF Start
    <3>2. CASE Install(c)
      BY <1>0, <3>2, PutGoto DEF Install
    <3>3. ASSUME NEW o \in {"stop", "restart", "dispose"}, EnterStop(c, My(c), o)
          PROVE  pc'[c] \notin InstallPC \cup {"idle"}
      <4>1. \E to \in {"stopidle", "stopjoin", "stopwait", "stoprelease", "stopremove", "done", "load", "validate"} :
              Goto(c, to)
        BY <3>3, MyType DEF EnterStop, StopReturns, EnterStart, DropOwner, Fields, State
      <4>2. QED
        BY <1>0, <4>1, PutGoto DEF StopPC
    <3>4. Rejected(c) => pc'[c] \notin InstallPC \cup {"idle"}
      BY <1>0, PutGoto DEF Rejected
    <3>5. CASE Stop(c)
      BY <3>3, <3>5 DEF Stop
    <3>6. CASE Restart(c)
      BY <3>3, <3>4, <3>6 DEF Restart
    <3>7. CASE Dispose(c)
      BY <3>3, <3>4, <3>7 DEF Dispose
    <3>8. QED
      BY <1>1, <3>1, <3>2, <3>5, <3>6, <3>7 DEF CallBegins
  <2>2. pc[c] = "idle" /\ op'[c] = o /\ \A d \in Call \ {c} : op'[d] = op[d]
    BY <2>1 DEF Called, TypeOK
  <2>3. OpShown'
    BY <1>0, <2>1, <2>2 DEF ControlInv, OpShown
  <2>4. \A i \in Inst : NeverInstalls(i)' => NeverInstalls(i)
    BY <1>0, <2>2 DEF ControlInv, OpShown, NeverInstalls, CallsOf
  <2>5. QED
    BY <2>3, <2>4
<1>2. CASE Step(c)
  <2>1. op' = op
    BY <1>2 DEF Step, StartStep, StopStep, InstallStep, At, Loaded, LoadFails, Acquired,
       AcquireFails, PortFree,
         PortProbeFails, Spawned, SpawnFails, Ready, ReadinessFails, FailJoined,
         FailReleased, FailRemoved, FailRemoveFails, Validated, Probed, StopIdleRemoved, StopJoined,
         StopReleased, StopRemoved, StopRemoveFails, InstallPrepared, InstallAcquires, InstallRefused, InstallWorked, InstallReleased
  <2>2. pc'[c] # "idle" /\ (pc'[c] \in InstallPC => pc[c] \in InstallPC)
    <3>1. CASE StartStep(c)
      <4>1. \/ \E to \in StartPC : Goto(c, to)
            \/ \E r : \E how \in {"done", "startaborted"} : StartEnds(c, r, how)
        BY <3>1 DEF StartStep, Loaded, LoadFails, Acquired, AcquireFails, PortFree,
             PortProbeFails, Spawned, SpawnFails, Ready, ReadinessFails, FailJoined,
             FailReleased, FailRemoved, FailRemoveFails, Validated, Probed, Fail, DropOwner, StartPC
      <4>2. CASE \E r : \E how \in {"done", "startaborted"} : StartEnds(c, r, how)
        BY <1>0, <4>2 DEF StartEnds
      <4>3. CASE \E to \in StartPC : Goto(c, to)
        BY <1>0, <4>3, PutGoto
      <4>4. QED
        BY <4>1, <4>2, <4>3
    <3>2. CASE StopStep(c)
      <4>1. \E to \in {"stopwait", "stoprelease", "stopremove", "done", "stopaborted", "load", "validate"} : Goto(c, to)
        BY <3>2 DEF StopStep, StopIdleRemoved, StopJoined, StopReleased, StopRemoved, StopRemoveFails,
             StopReturns, EnterStart, DropOwner, StopOp, StopPC, At
      <4>2. QED
        BY <1>0, <4>1, PutGoto
    <3>3. CASE InstallStep(c)
      <4>1. /\ pc[c] \in InstallPC
            /\ \E to \in {"insacquire", "inswork", "insrelease", "done"} : Goto(c, to)
        BY <3>3 DEF InstallStep, InstallPrepared, InstallAcquires, InstallRefused, InstallWorked, InstallReleased,
           At, InstallPC
      <4>2. QED
        BY <1>0, <4>1, PutGoto
    <3>4. QED
      BY <1>2, <3>1, <3>2, <3>3 DEF Step
  <2>3. QED
    BY <1>0, <2>1, <2>2 DEF ControlInv, OpShown, NeverInstalls
<1>3. CASE ChildExits(c) \/ ChildReported(c)
  BY <1>3 DEF ChildExits, ChildReported, ControlInv, OpShown, NeverInstalls
<1>4. QED
  BY <1>1, <1>2, <1>3

LEMMA ChildStepControl ==
  ASSUME TypeOK, ControlInv, NEW k \in Call, ChildExits(k) \/ ChildReported(k)
  PROVE  ControlStep(k) /\ pc' = pc
<1>0. InstOf[k] \in Inst /\ UNCHANGED <<mode, pc, joining>>
  BY ConstAssumption DEF ChildExits, ChildReported
<1>1. /\ \A d \in Call \ {k} : child'[d] = child[d]
      /\ child[k] # "none"
  BY DEF ChildExits, ChildReported, TypeOK, Live
<1>2. pc[k] \in SpawnedPC
  BY <1>1 DEF ControlInv, ModeFits
<1>3. /\ rt'[InstOf[k]].startPromise = My(k).startPromise
      /\ rt'[InstOf[k]].processHandle = My(k).processHandle
      /\ rt'[InstOf[k]].stopRequested = My(k).stopRequested
      /\ rt'[InstOf[k]].state \in {My(k).state, "failed"}
      /\ \A i \in Inst \ {InstOf[k]} : rt'[i] = rt[i]
  <2> DEFINE r == [My(k) EXCEPT !.state = "failed"]
  <2>1. /\ r.startPromise = My(k).startPromise /\ r.processHandle = My(k).processHandle
        /\ r.stopRequested = My(k).stopRequested /\ r.state = "failed"
    BY MyType DEF Fields
  <2>2. UNCHANGED rt \/ Put(k, r)
    BY DEF ChildExits, ChildReported
  <2> HIDE DEF r
  <2>3. CASE UNCHANGED rt
    BY <2>3 DEF My
  <2>4. CASE Put(k, r)
    BY <2>1, <2>4, PutGoto
  <2>5. QED
    BY <2>2, <2>3, <2>4
<1>4. KeepsStart(k)
  BY <1>0, <1>3 DEF KeepsStart, OthersStay
<1>5. OwnStep(k)
  BY <1>0, <1>1, <1>2, <1>3 DEF OwnStep
<1>6. QED
  BY <1>0, <1>4, <1>5 DEF ControlStep

-----------------------------------------------------------------------------
(* The invariant is preserved                                                *)

RuntimeInv == IInv /\ ControlInv /\ ProcessInv

LEMMA ClassEffects ==
  ASSUME TypeOK, ControlInv, OneStart', NEW c \in Call, ProcessStep(c), ProcessOf(InstOf[c])
  PROVE  ProcessOf(InstOf[c])'
BY PassesEffect, DropsEffect, JoinsEffect, WaitsEffect, GoesOnEffect, SpawnsEffect, ReturnsEffect
   DEF ProcessStep, ControlInv

(* A step of one instance leaves the processes of the others alone.          *)
LEMMA ElsewhereEffects ==
  ASSUME TypeOK, StartInv, OwnProcess, NEW c \in Call, ControlStep(c),
         NEW i \in Inst, i # InstOf[c], ProcessOf(i),
         \A d \in Call : pc[d] = "stopwait" /\ pc'[d] # pc[d] => InstOf[d] = InstOf[c]
  PROVE  ProcessOf(i)'
<1>1. rt'[i] = rt[i] /\ mode' = mode
  BY DEF ControlStep, OwnStep
<1>2. \A d \in CallsOf(i) : d \in Call /\ d # c /\ InstOf[d] # InstOf[c]
  BY DEF CallsOf
<1>3. \A d \in CallsOf(i) : pc'[d] = pc[d] /\ joining'[d] = joining[d] /\ child'[d] = child[d]
  BY <1>2 DEF ControlStep, OwnStep, KeepsStart, NewStart, EndsStart
<1>4. QED
  BY <1>1, <1>3, OtherProcesses

(* A stop() goes on as the start it waits for ends, in its own instance.     *)
LEMMA WokenHere ==
  ASSUME TypeOK, StopOp, StartInv, NEW c \in Call, Step(c)
  PROVE  \A d \in Call \ {c} : pc'[d] # pc[d] => InstOf[d] = InstOf[c]
<1>1. CASE \E r : \E how \in {"done", "startaborted"} : StartEnds(c, r, how)
  <2>1. \A d \in Call \ {c} : pc'[d] # pc[d] => pc[d] = "stopwait" /\ pending[d] = c
    BY <1>1 DEF StartEnds
  <2>2. QED
    BY <2>1, ConstAssumption DEF StartInv, PendingRuns, AwaitsStart
<1>2. CASE \E to : Goto(c, to)
  BY <1>2, PutGoto
<1>3. pc[c] \in {"stopidle", "stopremove"} => op[c] \in {"stop", "restart", "dispose"}
  BY DEF StopOp, StopPC
<1>4. CASE StopStep(c)
  BY <1>2, <1>3, <1>4 DEF StopStep, At, StopIdleRemoved, StopJoined, StopReleased, StopRemoved, StopRemoveFails,
     DropOwner, StopReturns, EnterStart
<1>5. QED
  BY <1>1, <1>2, <1>4 DEF Step, StartStep, InstallStep, Loaded, LoadFails, Acquired, AcquireFails,
     PortFree,
       PortProbeFails, Spawned, SpawnFails, Ready, ReadinessFails, FailJoined,
       FailReleased, FailRemoved, FailRemoveFails, Validated, Probed,
       InstallPrepared, InstallAcquires, InstallRefused, InstallWorked, InstallReleased, Fail, DropOwner

LEMMA InitRuntimeInv == Init => RuntimeInv
<1> SUFFICES ASSUME Init PROVE RuntimeInv
  OBVIOUS
<1> USE ConstAssumption
<1>0. /\ pc = [c \in Call |-> "idle"] /\ op = [c \in Call |-> None]
      /\ child = [c \in Call |-> "none"] /\ joining = [c \in Call |-> None]
      /\ "idle" \notin StartPC \cup ManagedPC \cup ExternalPC \cup InstallPC
      /\ \A i \in Inst : /\ rt[i].state \in {"stopped", "disabled"} /\ rt[i].processHandle = None
                         /\ rt[i].startPromise = None
  BY DEF Init, StartPC, ManagedPC, ExternalPC, InstallPC
<1>1. ControlInv
  BY <1>0 DEF ControlInv, OneStart, StartingRuns, NotYetReady, StoppingRuns, ModeFits, OwnProcess,
     OpShown
<1>2. ASSUME NEW i \in Inst PROVE ProcessOf(i)
  BY <1>0 DEF ProcessOf, LiveHandle, JoinsCurrent, NoneBeside, StartKeeps, ReadyKeeps, LiveWatched,
     Live, CallsOf
<1>3. QED
  BY <1>1, <1>2, InitIInv DEF RuntimeInv, ProcessInv

LEMMA StepRuntimeInv == RuntimeInv /\ [Next]_vars => RuntimeInv'
<1> SUFFICES ASSUME RuntimeInv, [Next]_vars PROVE RuntimeInv'
  OBVIOUS
<1>0. /\ IInv /\ IInv' /\ TypeOK /\ StopOp /\ StartInv /\ ControlInv /\ ProcessInv
      /\ OneStart /\ StartControl /\ ModeFits /\ OwnProcess
      /\ InstOf \in [Call -> Inst]
  BY StepIInv, ConstAssumption DEF RuntimeInv, IInv, ControlInv, StartControl
(* What a step of c does, all in all.                                        *)
<1>1. ASSUME NEW c \in Call, CallBegins(c) \/ Step(c), ControlStep(c),
             ProcessStep(c) \/ ~NeverInstalls(InstOf[c]),
             \A d \in Call \ {c} : pc'[d] # pc[d] => InstOf[d] = InstOf[c]
      PROVE  RuntimeInv'
  <2>1. StartControl'
    BY <1>0, <1>1, StartControlEffects DEF ControlStep
  <2>2. ModeFits' /\ OwnProcess'
    BY <1>0, <1>1, OwnEffects DEF ControlStep
  <2>3. \A d \in Call \ {c} : pc'[d] = pc[d]
          \/ (pc[d] = "stopwait" /\ pc'[d] \in {"stoprelease", "stopremove"})
    BY <1>1 DEF ControlStep, KeepsStart, NewStart, EndsStart
  <2>4. OpShown' /\ \A i \in Inst : NeverInstalls(i)' => NeverInstalls(i)
    BY <1>0, <1>1, <2>3, StepOp
  <2>5. ASSUME NEW i \in Inst, NeverInstalls(i)' PROVE ProcessOf(i)'
    <3>1. ProcessOf(i)
      BY <1>0, <2>4, <2>5 DEF ProcessInv
    <3>2. CASE i = InstOf[c]
      BY <1>0, <1>1, <2>1, <2>4, <2>5, <3>1, <3>2, ClassEffects DEF StartControl
    <3>3. CASE i # InstOf[c]
      BY <1>0, <1>1, <2>3, <3>1, <3>3, ElsewhereEffects, ConstAssumption
    <3>4. QED
      BY <3>2, <3>3
  <2>6. QED
    BY <1>0, <2>1, <2>2, <2>4, <2>5 DEF RuntimeInv, ControlInv, StartControl, ProcessInv
<1>2. ASSUME NEW c \in Call, CallBegins(c) PROVE RuntimeInv'
  <2>1. ControlStep(c) /\ ProcessStep(c)
    BY <1>0, <1>2, CallBeginsProcess
  <2>2. KeepsStart(c) \/ NewStart(c)
    <3>1. pc[c] = "idle"
      BY <1>2 DEF CallBegins, Start, Stop, Restart, Dispose, Install, Called
    <3>2. QED
      BY <2>1, <3>1 DEF ControlStep, EndsStart, StartPC
  <2>3. \A d \in Call \ {c} : pc'[d] = pc[d]
    BY <2>2 DEF KeepsStart, NewStart
  <2>4. QED
    BY <1>1, <1>2, <2>1, <2>3
<1>3. ASSUME NEW c \in Call, Step(c) PROVE RuntimeInv'
  <2>1. ControlStep(c) /\ (ProcessStep(c) \/ ~NeverInstalls(InstOf[c]))
    BY <1>0, <1>3, StartStepProcess, StopStepProcess, InstallStepProcess DEF Step
  <2>2. QED
    BY <1>0, <1>1, <1>3, <2>1, WokenHere
<1>4. ASSUME NEW k \in Call, ChildExits(k) \/ ChildReported(k) PROVE RuntimeInv'
  <2>1. ControlStep(k) /\ pc' = pc
    BY <1>0, <1>4, ChildStepControl
  <2>2. StartControl'
    BY <1>0, <2>1, StartControlEffects DEF ControlStep
  <2>3. ModeFits' /\ OwnProcess'
    BY <1>0, <2>1, OwnEffects DEF ControlStep
  <2>4. OpShown' /\ \A i \in Inst : NeverInstalls(i)' => NeverInstalls(i)
    BY <1>0, <1>4, <2>1, StepOp
  <2>5. ASSUME NEW i \in Inst, NeverInstalls(i)' PROVE ProcessOf(i)'
    <3>1. ProcessOf(i)
      BY <1>0, <2>4, <2>5 DEF ProcessInv
    <3>2. CASE i = InstOf[k]
      BY <1>0, <1>4, <3>1, <3>2, ChildStepProcess
    <3>3. CASE i # InstOf[k]
      BY <1>0, <2>1, <3>1, <3>3, ElsewhereEffects
    <3>4. QED
      BY <3>2, <3>3
  <2>6. QED
    BY <1>0, <2>2, <2>3, <2>4, <2>5 DEF RuntimeInv, ControlInv, StartControl, ProcessInv
<1>5. CASE UNCHANGED vars
  BY <1>0, <1>5 DEF vars, RuntimeInv, ControlInv, ProcessInv, OneStart, StartingRuns, NotYetReady,
     StoppingRuns, ModeFits, OwnProcess, OpShown, ProcessOf, LiveHandle, JoinsCurrent, NoneBeside,
     StartKeeps, ReadyKeeps, LiveWatched, NeverInstalls, Live, Ended, CallsOf, My
<1>6. QED
  BY <1>2, <1>3, <1>4, <1>5 DEF Next

LEMMA RuntimeInvariance == Spec => []RuntimeInv
BY InitRuntimeInv, StepRuntimeInv, PTL DEF Spec

(* A start that answers late never shows "ready" over a process that is gone  *)
(* or was dropped, whatever calls of start(), stop(), restart() and dispose() *)
(* overlap, awaited or not.                                                  *)
THEOREM ReadyRuns == Spec => []ReadyIsRunning
<1>1. RuntimeInv => ReadyIsRunning
  BY DEF RuntimeInv, ProcessInv, ProcessOf, ReadyKeeps, ReadyIsRunning
<1>2. QED
  BY RuntimeInvariance, <1>1, PTL

(* Once its calls have all returned, a process that runs is shown as ready:   *)
(* none is left behind by calls that overlap; and the instance is in a        *)
(* transient state only if the call that owed it another was rejected.        *)
THEOREM QuietIsSettled == Spec => []SettledWhenQuiet
<1>0. \A i \in Inst : Quiet(i)
        => \A c \in CallsOf(i) : pc[c] \notin StartPC \cup StopWork \cup {"readiness", "stopjoin", "failjoin"}
  BY DEF Quiet, Suspended, AbortedPC, StartPC, StopWork, StopPC
<1>1. RuntimeInv => SettledWhenQuiet
  <2> SUFFICES ASSUME RuntimeInv, NEW i \in Inst, Quiet(i)
               PROVE  /\ rt[i].state = "starting" => Ended(i, "startaborted")
                      /\ rt[i].state = "stopping" => Ended(i, "stopaborted")
                      /\ NeverInstalls(i) => \A k \in CallsOf(i) : Live(k) => rt[i].state = "ready"
    BY DEF SettledWhenQuiet
  <2>1. rt[i].startPromise = None
    BY <1>0 DEF RuntimeInv, IInv, StartInv, StartRuns, TypeOK, Fields, CallsOf
  <2>2. /\ rt[i].state = "starting" => Ended(i, "startaborted")
        /\ rt[i].state = "stopping" => Ended(i, "stopaborted")
    BY <1>0, <2>1 DEF RuntimeInv, ControlInv, StartingRuns, StoppingRuns
  <2>3. NeverInstalls(i) => \A k \in CallsOf(i) : Live(k) => rt[i].state = "ready"
    BY <1>0 DEF RuntimeInv, ProcessInv, ProcessOf, LiveWatched
  <2>4. QED
    BY <2>2, <2>3
<1>2. QED
  BY RuntimeInvariance, <1>1, PTL

-----------------------------------------------------------------------------
(* Callers that await a stop() before they start again                       *)

EarlyPC == {"load", "acquire", "portprobe", "configure"}

(* No process is kept, or one whose end was reported.                        *)
Reported(i) == rt[i].processHandle # None => child[rt[i].processHandle] = "reported"

(* The process kept was spawned.                                              *)
KeptSpawned(i) == rt[i].processHandle # None => child[rt[i].processHandle] # "none"

(* A process that is kept and was not reported is shown as ready, or a call   *)
(* will end it and drop it.                                                  *)
KeptWatched(i) == ~Reported(i) =>
  \/ rt[i].state = "ready"
  \/ pc[rt[i].processHandle] = "readiness"
  \/ \E s \in CallsOf(i) : pc[s] \in {"stopjoin", "failjoin"} /\ joining[s] = rt[i].processHandle

(* A start that has not spawned yet starts from a clean instance; a stop()    *)
(* that joins beside it will wait for it, and nobody takes its lock away.    *)
EarlyKeeps(i) == \A c \in CallsOf(i) :
  /\ pc[c] \in EarlyPC =>
       /\ rt[i].state # "failed" /\ Reported(i)
       /\ \A d \in CallsOf(i) : pc[d] = "stopjoin" => pending[d] = c
  /\ pc[c] \in {"portprobe", "configure"} => rt[i].ownerHeld

(* One that has, keeps its own process and the lock while it runs.           *)
LateKeeps(i) == \A c \in CallsOf(i) :
  /\ pc[c] = "readiness" => rt[i].processHandle \in {c, None}
  /\ pc[c] \in {"failrelease", "failremove"} => rt[i].processHandle = None
  /\ Live(c) => rt[i].ownerHeld

(* A start that "starting" no longer shows is awaited by a stop(), or its     *)
(* process has ended.                                                        *)
StopAwaits(i) == rt[i].startPromise # None /\ rt[i].state # "starting" =>
  \/ \E s \in CallsOf(i) : AwaitsStart(s) /\ pending[s] = rt[i].startPromise
  \/ pc[rt[i].startPromise] \notin EarlyPC /\ Reported(i)

(* One restart() at a time stops, and none has a process left when it starts. *)
Restarting(c) == op[c] = "restart" /\ pc[c] \in StopPC

OneRestart(i)  == \A c, d \in CallsOf(i) : Restarting(c) /\ Restarting(d) => c = d
RestartClean(i) == \A c \in CallsOf(i) :
  op[c] = "restart" /\ pc[c] \in {"stopidle", "stoprelease", "stopremove"} =>
    /\ Reported(i)
    /\ \A d \in CallsOf(i) : pc[d] \notin EarlyPC

AwaitedOf(i) == /\ KeptSpawned(i) /\ KeptWatched(i) /\ EarlyKeeps(i) /\ LateKeeps(i)
                /\ StopAwaits(i) /\ OneRestart(i) /\ RestartClean(i)

AwaitedInv == \A i \in Inst : NeverInstalls(i) => AwaitedOf(i)

-----------------------------------------------------------------------------
(* What a step does to the operation of its call and to the start awaited     *)

CallStep(c) ==
  /\ \A d \in Call \ {c} : pending'[d] = pending[d] /\ op'[d] = op[d]
  /\ pc[c] # "idle" => pending'[c] = pending[c] /\ op'[c] = op[c]
  /\ pc[c] # "stopwait"
  /\ pc'[c] \in StopPC => pc[c] \in StopPC \cup {"idle"}
  /\ pc[c] = "idle" /\ pc'[c] \in {"stopjoin", "stopwait"} =>
       /\ My(c).state \in {"starting", "ready", "degraded", "failed"}
       /\ pending'[c] = IF My(c).state = "starting" THEN My(c).startPromise ELSE None
  /\ pc[c] = "stopjoin" =>
       (pc'[c] = "stopwait" <=> pending[c] # None /\ My(c).startPromise = pending[c])
  /\ pc'[c] = "stopidle" => pc[c] = "idle" /\ My(c).state \in {"disabled", "stopped"}
  /\ pc'[c] \in {"stoprelease", "stopremove"} => pc[c] \in {"idle", "stopjoin", "stoprelease"}
  /\ NewStart(c) => \/ pc[c] = "idle" /\ op'[c] \in {"start", "restart"}
                    \/ /\ pc[c] \in {"stopidle", "stopremove"} /\ op[c] = "restart"
                       /\ JoinsResumed(c)

LEMMA StartStepCall ==
  ASSUME NEW c \in Call, StartStep(c), ControlStep(c) PROVE CallStep(c)
<1>1. pc[c] \in StartPC /\ UNCHANGED <<op, pending>>
  BY DEF StartStep, Loaded, LoadFails, Acquired, AcquireFails, PortFree, PortProbeFails, Spawned,
     SpawnFails, Ready, ReadinessFails, FailJoined, FailReleased, FailRemoved, FailRemoveFails, Validated, Probed, At, StartPC
<1>2. StartPC \cap (StopPC \cup {"idle", "done"}) = {} /\ StartPC = ManagedPC \cup ExternalPC
      /\ {"done", "startaborted"} \cap StopPC = {}
      /\ {"stopidle", "stopjoin", "stopwait", "stoprelease", "stopremove"} \subseteq StopPC
  BY DEF StartPC, StopPC, ManagedPC, ExternalPC
<1>3. pc'[c] \in StartPC \cup {"done", "startaborted"}
  BY <1>1, <1>2 DEF ControlStep, KeepsStart, NewStart, EndsStart
<1>4. ~NewStart(c)
  BY <1>1 DEF NewStart
<1>5. QED
  BY <1>1, <1>2, <1>3, <1>4 DEF CallStep

(* stop() returns without starting, or restart() starts.                     *)
LEMMA StopReturnsCall ==
  ASSUME TypeOK, NEW c \in Call, NEW r \in Fields, NEW o \in {"stop", "restart", "dispose"},
         StopReturns(c, r, o)
  PROVE  /\ pc'[c] \in {"done", "load", "validate"}
         /\ NewStart(c) => o = "restart"
<1>1. CASE o = "restart"
  BY <1>1, PutGoto DEF StopReturns, EnterStart
<1>2. CASE o # "restart"
  <2>1. Goto(c, "done")
    BY <1>2 DEF StopReturns
  <2>2. pc'[c] = "done"
    BY <2>1, PutGoto
  <2>3. QED
    BY <2>2 DEF NewStart
<1>3. QED
  BY <1>1, <1>2

LEMMA StopStepCall ==
  ASSUME TypeOK, StopOp, NEW c \in Call, StopStep(c) PROVE CallStep(c)
<1>0. /\ pc[c] \in {"stopidle", "stopremove"} => op[c] \in {"stop", "restart", "dispose"}
      /\ {"stopidle", "stopjoin", "stopwait", "stoprelease", "stopremove"} = StopPC
      /\ My(c) \in Fields
  BY MyType DEF StopOp, StopPC
<1>1. CASE StopIdleRemoved(c)
  <2>1. /\ pc[c] = "stopidle" /\ UNCHANGED <<op, pending>> /\ JoinsResumed(c)
        /\ StopReturns(c, My(c), op[c])
    BY <1>1 DEF StopIdleRemoved, At, Joined
  <2>2. pc'[c] \in {"done", "load", "validate"} /\ (NewStart(c) => op[c] = "restart")
    BY <1>0, <2>1, StopReturnsCall
  <2>3. QED
    BY <1>0, <2>1, <2>2 DEF CallStep
<1>2. CASE StopJoined(c)
  <2>1. /\ pc[c] = "stopjoin" /\ UNCHANGED <<op, pending>>
        /\ IF pending[c] # None /\ My(c).startPromise = pending[c]
             THEN Goto(c, "stopwait")
             ELSE DropOwner(c, My(c), "stoprelease", "stopremove")
    BY <1>2 DEF StopJoined, At
  <2>2. IF pending[c] # None /\ My(c).startPromise = pending[c]
          THEN pc'[c] = "stopwait" ELSE pc'[c] \in {"stoprelease", "stopremove"}
    BY <2>1, PutGoto DEF DropOwner
  <2>3. QED
    BY <1>0, <2>1, <2>2 DEF CallStep, NewStart
<1>3. CASE StopReleased(c)
  <2>1. pc[c] = "stoprelease" /\ UNCHANGED <<op, pending>> /\ pc'[c] = "stopremove"
    BY <1>3, PutGoto DEF StopReleased, At
  <2>2. QED
    BY <1>0, <2>1 DEF CallStep, NewStart
<1>4. CASE StopRemoved(c)
  <2>1. pc[c] = "stopremove" /\ UNCHANGED <<op, pending>> /\ JoinsResumed(c)
    BY <1>4 DEF StopRemoved, At, Joined
  <2>2. pc'[c] \in {"done", "load", "validate"} /\ (NewStart(c) => op[c] = "restart")
    <3>1. CASE CanMove(My(c).state, "stopped")
      <4> DEFINE r == [My(c) EXCEPT !.state = "stopped", !.stopRequested = FALSE]
      <4>1. r \in Fields
        BY <1>0 DEF Fields, State
      <4>2. StopReturns(c, r, op[c])
        BY <1>4, <3>1 DEF StopRemoved
      <4> HIDE DEF r
      <4>3. QED
        BY <1>0, <2>1, <4>1, <4>2, StopReturnsCall
    <3>2. CASE ~CanMove(My(c).state, "stopped")
      BY <1>4, <3>2, PutGoto DEF StopRemoved, NewStart
    <3>3. QED
      BY <3>1, <3>2
  <2>3. QED
    BY <1>0, <2>1, <2>2 DEF CallStep
<1>5. CASE StopRemoveFails(c)
  <2>1. /\ pc[c] \in {"stopidle", "stopremove"} /\ UNCHANGED <<op, pending>>
        /\ pc'[c] \in {"done", "stopaborted"}
    BY <1>5, PutGoto DEF StopRemoveFails, At
  <2>2. {"done", "stopaborted"} \cap StopPC = {}
    BY DEF StopPC
  <2>3. QED
    BY <1>0, <2>1, <2>2 DEF CallStep, NewStart
<1>6. QED
  BY <1>1, <1>2, <1>3, <1>4, <1>5 DEF StopStep

LEMMA CallBeginsCall ==
  ASSUME TypeOK, ControlInv, NEW c \in Call, CallBegins(c) PROVE CallStep(c)
<1>0. /\ {"stopidle", "stopjoin", "stopwait", "stoprelease", "stopremove"} = StopPC
      /\ {"idle", "done", "load", "validate", "prepare"} \cap StopPC = {}
      /\ My(c) \in Fields
  BY MyType DEF StopPC
<1>1. PICK o : /\ o \in {"start", "stop", "restart", "dispose", "install"}
               /\ pc[c] = "idle" /\ op' = [op EXCEPT ![c] = o]
               /\ o = "start" => Start(c)
               /\ o = "stop" => Stop(c)
               /\ o = "restart" => Restart(c)
               /\ o = "dispose" => Dispose(c)
               /\ o = "install" => Install(c)
  BY DEF CallBegins, Start, Stop, Restart, Dispose, Install, Called
<1>2. op'[c] = o /\ \A d \in Call \ {c} : op'[d] = op[d]
  BY <1>1 DEF TypeOK
<1>3. ASSUME pc'[c] \in {"done", "load", "validate", "prepare"}, UNCHANGED pending,
             NewStart(c) => o \in {"start", "restart"}
      PROVE  CallStep(c)
  BY <1>0, <1>1, <1>2, <1>3 DEF CallStep
<1>4. CASE o = "start"
  <2>1. pc'[c] \in {"done", "load", "validate"} /\ UNCHANGED pending
    BY <1>1, <1>4, PutGoto DEF Start, EnterStart
  <2>2. QED
    BY <1>3, <1>4, <2>1
<1>5. CASE o = "install"
  <2>1. pc'[c] \in {"done", "prepare"} /\ UNCHANGED pending
    BY <1>1, <1>5, PutGoto DEF Install
  <2>2. QED
    BY <1>3, <2>1 DEF NewStart
<1>6. CASE Rejected(c)
  <2>1. pc'[c] = "done" /\ UNCHANGED pending
    BY <1>6, PutGoto DEF Rejected
  <2>2. QED
    BY <1>3, <2>1 DEF NewStart
<1>7. CASE o \in {"stop", "restart", "dispose"} /\ EnterStop(c, My(c), o)
  <2>1. CASE My(c).state \in {"disabled", "stopped"}
    <3>1. pc'[c] = "stopidle" /\ UNCHANGED pending
      BY <1>7, <2>1, PutGoto DEF EnterStop
    <3>2. QED
      BY <1>0, <1>1, <1>2, <2>1, <3>1 DEF CallStep, NewStart
  <2>2. CASE My(c).state = "stopping"
    <3>1. StopReturns(c, My(c), o) /\ UNCHANGED pending
      BY <1>7, <2>2 DEF EnterStop
    <3>2. QED
      BY <1>0, <1>3, <1>7, <3>1, StopReturnsCall
  <2>3. CASE My(c).state \in {"starting", "ready", "degraded", "failed"}
    <3> DEFINE start == IF My(c).state = "starting" THEN My(c).startPromise ELSE None
               s == [My(c) EXCEPT !.state = "stopping", !.stopRequested = IF start # None THEN TRUE ELSE @]
    <3>1. /\ pending' = [pending EXCEPT ![c] = start]
          /\ \/ \E to \in {"stopjoin", "stopwait"} : Goto(c, to)
             \/ DropOwner(c, s, "stoprelease", "stopremove")
      BY <1>7, <2>3 DEF EnterStop
    <3> HIDE DEF s
    <3>2. pc'[c] \in {"stopjoin", "stopwait", "stoprelease", "stopremove"}
      BY <3>1, PutGoto DEF DropOwner
    <3>3. pending'[c] = start /\ \A d \in Call \ {c} : pending'[d] = pending[d]
      BY <3>1 DEF TypeOK
    <3>4. QED
      BY <1>0, <1>1, <1>2, <2>3, <3>2, <3>3 DEF CallStep, NewStart
  <2>4. QED
    BY <1>0, <2>1, <2>2, <2>3 DEF Fields, State
<1>8. QED
  BY <1>1, <1>4, <1>5, <1>6, <1>7 DEF Stop, Restart, Dispose

-----------------------------------------------------------------------------
(* How the invariant is kept, part by part *)

ClassStep(c) == \/ Passes(c) \/ Drops(c) \/ Joins(c) \/ Waits(c)
                \/ GoesOn(c) \/ Spawns(c) \/ Returns(c)

(* A step of c, by callers that await.                                       *)
OrderlyStep(c) ==
  /\ TypeOK /\ StartInv /\ ControlInv /\ ControlInv'
  /\ ProcessOf(InstOf[c]) /\ ProcessOf(InstOf[c])' /\ AwaitedOf(InstOf[c])
  /\ ControlStep(c) /\ CallStep(c) /\ ClassStep(c)
  /\ pc[c] = "idle" /\ op'[c] \in {"start", "restart"} =>
       \A d \in CallsOf(InstOf[c]) : pc[d] \notin StopPC

LEMMA Context ==
  ASSUME NEW c \in Call, OrderlyStep(c)
  PROVE  /\ InstOf[c] \in Inst /\ c \in CallsOf(InstOf[c]) /\ None \notin Call
         /\ \A d \in CallsOf(InstOf[c]) : pc[d] \in StartPC => My(c).startPromise = d
         /\ My(c).startPromise # None =>
              /\ My(c).startPromise \in CallsOf(InstOf[c])
              /\ pc[My(c).startPromise] \in StartPC
              /\ My(c).state \notin {"ready", "degraded"}
         /\ \A d \in CallsOf(InstOf[c]) \ {c} :
              /\ \/ pc'[d] = pc[d]
                 \/ EndsStart(c) /\ pc[d] = "stopwait" /\ pc'[d] \in {"stoprelease", "stopremove"}
              /\ pending'[d] = pending[d] /\ op'[d] = op[d] /\ joining'[d] = joining[d]
<1> DEFINE i == InstOf[c]
<1> USE DEF OrderlyStep, My, CallsOf
<1>1. InstOf[c] \in Inst /\ None \notin Call
  BY ConstAssumption
<1>2. \A d \in CallsOf(i) : pc[d] \in StartPC => rt[i].startPromise = d
  BY DEF ControlInv, OneStart
<1>3. rt[i].startPromise # None =>
        /\ rt[i].startPromise \in CallsOf(i) /\ pc[rt[i].startPromise] \in StartPC
        /\ rt[i].state \notin {"ready", "degraded"}
  BY <1>1 DEF TypeOK, Fields, StartInv, StartRuns, ControlInv, NotYetReady
<1>4. \A d \in CallsOf(i) \ {c} :
        \/ pc'[d] = pc[d]
        \/ EndsStart(c) /\ pc[d] = "stopwait" /\ pc'[d] \in {"stoprelease", "stopremove"}
  BY DEF ControlStep, KeepsStart, NewStart, EndsStart
<1>5. \A d \in CallsOf(i) \ {c} : pending'[d] = pending[d] /\ op'[d] = op[d] /\ joining'[d] = joining[d]
  BY DEF CallStep, ControlStep, OwnStep
<1>6. QED
  BY <1>1, <1>2, <1>3, <1>4, <1>5

(* The places of a call, told apart.                                         *)
LEMMA Places ==
  /\ EarlyPC \cup {"readiness", "failjoin", "failrelease", "failremove"} \cup ExternalPC = StartPC
  /\ EarlyPC
       \cap ({"readiness", "failjoin", "failrelease", "failremove", "done", "idle"} \cup ExternalPC) = {}
  /\ ExternalPC = {"validate", "probe"}
  /\ StopPC = {"stopidle", "stopjoin", "stopwait", "stoprelease", "stopremove"}
  /\ StartPC \cap (StopPC \cup {"idle", "done"}) = {}
  /\ EarlyPC \subseteq ManagedPC /\ ManagedPC \subseteq StartPC /\ StartPC = ManagedPC \cup ExternalPC
  /\ EarlyPC = {"load", "acquire", "portprobe", "configure"}
BY DEF EarlyPC, StartPC, ExternalPC, StopPC, ManagedPC

(* The process kept stays or is dropped, but for a spawn.                     *)
LEMMA HandleMoves ==
  ASSUME NEW c \in Call, OrderlyStep(c), ~Spawns(c)
  PROVE  rt'[InstOf[c]].processHandle \in {rt[InstOf[c]].processHandle, None}
<1> USE DEF My
<1>1. CASE Passes(c)
  BY <1>1 DEF Passes, SameProcess
<1>2. CASE Drops(c)
  BY <1>2 DEF Drops
<1>3. CASE Joins(c)
  BY <1>3 DEF Joins
<1>4. CASE Waits(c)
  BY <1>4 DEF Waits
<1>5. CASE GoesOn(c)
  BY <1>5 DEF GoesOn
<1>6. CASE Returns(c)
  BY <1>6 DEF Returns
<1>7. QED
  BY <1>1, <1>2, <1>3, <1>4, <1>5, <1>6 DEF OrderlyStep, ClassStep

(* Nobody gives the lock up beside a start that has not spawned yet.         *)
LEMMA NoDropBeside ==
  ASSUME NEW c \in Call, OrderlyStep(c), NEW d \in CallsOf(InstOf[c]), d # c, pc[d] \in EarlyPC
  PROVE  ~Drops(c) /\ pc[c] \notin StartPC /\ ~NewStart(c) /\ ~EndsStart(c) /\ KeepsStart(c)
<1> USE Context, Places
<1>1. /\ My(c).startPromise = d /\ d # None
      /\ pc[c] \notin StartPC /\ My(c).state \notin {"ready", "degraded", "failed"}
      /\ pc[c] = "stopjoin" => pending[c] = d
  BY DEF OrderlyStep, AwaitedOf, EarlyKeeps, My, CallsOf
<1>2. ASSUME Drops(c) PROVE FALSE
  <2>1. pc[c] = "stopjoin"
    BY <1>1, <1>2 DEF Drops
  <2>2. pc'[c] = "stopwait"
    BY <1>1, <2>1 DEF OrderlyStep, CallStep
  <2>3. QED
    BY <1>2, <2>2 DEF Drops
<1>3. ~NewStart(c) /\ ~EndsStart(c)
  BY <1>1 DEF NewStart, EndsStart
<1>4. QED
  BY <1>1, <1>2, <1>3 DEF OrderlyStep, ControlStep

(* The next early start is a new one, or the one that goes on.               *)
LEMMA EarlySteps ==
  ASSUME NEW c \in Call, OrderlyStep(c), pc'[c] \in EarlyPC
  PROVE  \/ NewStart(c) /\ Passes(c) /\ pc'[c] = "load"
         \/ GoesOn(c) /\ pc[c] \in EarlyPC
<1> USE Places
<1>1. CASE Passes(c)
  BY <1>1 DEF OrderlyStep, ControlStep, Passes, Busy, KeepsStart, EndsStart
<1>2. CASE GoesOn(c)
  BY <1>2 DEF GoesOn
<1>3. QED
  BY <1>1, <1>2 DEF OrderlyStep, ClassStep, Drops, Joins, Waits, Spawns, Returns

LEMMA ReportedStays ==
  ASSUME NEW c \in Call, OrderlyStep(c), Reported(InstOf[c]), pc[c] # "configure"
  PROVE  Reported(InstOf[c])'
<1> USE Context
<1>0. rt[InstOf[c]].processHandle \in Call \cup {None}
  BY DEF OrderlyStep, TypeOK, Fields
<1>1. CASE Passes(c) \/ Drops(c) \/ Waits(c) \/ GoesOn(c) \/ Returns(c)
  BY <1>1 DEF Reported, Passes, SameProcess, Drops, Waits, GoesOn, Returns, My
<1>2. CASE Joins(c)
  BY <1>0, <1>2 DEF Reported, Joins, My
<1>3. QED
  BY <1>1, <1>2 DEF OrderlyStep, ClassStep, Spawns

LEMMA KeptWatchedStep ==
  ASSUME NEW c \in Call, OrderlyStep(c) PROVE KeptWatched(InstOf[c])'
<1> DEFINE i == InstOf[c]
           h == rt[i].processHandle
<1> USE Context, Places
<1>0. /\ h \in Call \cup {None} /\ KeptWatched(i)
      /\ h # None => h \in CallsOf(i) /\ child[h] # "none"
  BY DEF OrderlyStep, TypeOK, Fields, AwaitedOf, KeptSpawned, ControlInv, OwnProcess, CallsOf
<1>1. CASE Passes(c)
  BY <1>0, <1>1 DEF KeptWatched, Reported, Passes, SameProcess, SameOthers, Busy, CallsOf, My
<1>2. CASE Drops(c)
  BY <1>2 DEF KeptWatched, Reported, Drops
<1>3. CASE Joins(c)
  BY <1>3 DEF KeptWatched, Reported, Joins, CallsOf, My
(* The stop() whose join has ended waits for the start, which watches.       *)
<1>4. CASE Waits(c)
  <2> DEFINE p == rt[i].startPromise
  <2> SUFFICES ASSUME ~Reported(i)
               PROVE  \/ rt[i].state = "ready"
                      \/ pc[h] = "readiness" /\ h # c
                      \/ \E s \in CallsOf(i) \ {c} : pc[s] \in {"stopjoin", "failjoin"} /\ joining[s] = h
    BY <1>0, <1>4 DEF KeptWatched, Reported, Waits, SameOthers, CallsOf
  <2>1. p \in CallsOf(i) /\ pc[p] \in StartPC
    BY <1>4 DEF Waits, OrderlyStep, CallStep, My
  <2>2. pc[p] \notin EarlyPC
    BY <2>1 DEF OrderlyStep, AwaitedOf, EarlyKeeps
  <2>3. CASE pc[p] = "readiness"
    BY <1>4, <2>1, <2>3 DEF OrderlyStep, AwaitedOf, LateKeeps, Reported, Waits
  <2>4. CASE pc[p] = "failjoin"
    BY <1>4, <2>1, <2>4 DEF OrderlyStep, ProcessOf, JoinsCurrent, Reported, Waits
  <2>5. CASE pc[p] \in {"failrelease", "failremove"}
    BY <2>1, <2>5 DEF OrderlyStep, AwaitedOf, LateKeeps, Reported
  <2>6. CASE pc[p] \in ExternalPC
    BY <1>0, <2>1, <2>6 DEF OrderlyStep, ControlInv, ModeFits, Reported, CallsOf
  <2>7. QED
    BY <2>1, <2>2, <2>3, <2>4, <2>5, <2>6
<1>5. CASE GoesOn(c)
  <2>1. Reported(i)
    BY <1>5 DEF GoesOn, OrderlyStep, AwaitedOf, EarlyKeeps
  <2>2. pc[c] # "configure"
    BY <1>5 DEF GoesOn
  <2>3. QED
    BY <2>1, <2>2, ReportedStays DEF KeptWatched
<1>6. CASE Spawns(c)
  BY <1>6 DEF KeptWatched, Spawns, CallsOf
<1>7. CASE Returns(c)
  <2>1. CASE rt'[i].state = "ready"
    BY <2>1 DEF KeptWatched
  <2>2. CASE rt'[i].state # "ready"
    <3>1. /\ pc[c] \in StartPC /\ pc[c] \notin {"readiness", "failjoin"}
          /\ My(c).startPromise = c /\ rt[i].state # "ready"
          /\ rt'[i].processHandle \in {h, None} /\ child' = child
      BY <1>7, <2>2 DEF Returns, My
    <3>2. \A s \in CallsOf(i) : pc[s] \notin {"readiness", "failjoin"}
      BY <3>1
    <3>3. \A s \in CallsOf(i) : pc[s] = "stopjoin" => pc'[s] = "stopjoin" /\ joining'[s] = joining[s]
      BY <3>1
    <3>4. QED
      BY <1>0, <3>1, <3>2, <3>3 DEF KeptWatched, Reported
  <2>3. QED
    BY <2>1, <2>2
<1>8. QED
  BY <1>1, <1>2, <1>3, <1>4, <1>5, <1>6, <1>7 DEF OrderlyStep, ClassStep

LEMMA EarlyKeepsStep ==
  ASSUME NEW c \in Call, OrderlyStep(c) PROVE EarlyKeeps(InstOf[c])'
<1> DEFINE i == InstOf[c]
<1> USE Context, Places
<1>0. EarlyKeeps(i) /\ KeptWatched(i) /\ RestartClean(i)
  BY DEF OrderlyStep, AwaitedOf
<1>s. (CallsOf(i))' = CallsOf(i)
  BY DEF CallsOf
<1>1. ASSUME NEW d \in CallsOf(i), d # c, pc'[d] \in EarlyPC
      PROVE  /\ rt'[i].state # "failed" /\ Reported(i)'
             /\ \A e \in CallsOf(i) : pc'[e] = "stopjoin" => pending'[e] = d
             /\ pc'[d] \in {"portprobe", "configure"} => rt'[i].ownerHeld
  <2>1. pc[d] = pc'[d] /\ pc[d] \in EarlyPC
    BY <1>1
  <2>2. /\ ~Drops(c) /\ pc[c] \notin StartPC /\ KeepsStart(c)
    BY <1>1, <2>1, NoDropBeside
  <2>3. Passes(c) \/ Joins(c) \/ Waits(c)
    BY <2>2 DEF OrderlyStep, ClassStep, GoesOn, Spawns, Returns
  <2>4. /\ rt[i].state # "failed" /\ Reported(i) /\ rt[i].startPromise = d
        /\ rt[i].state \notin {"ready", "degraded"}
        /\ \A e \in CallsOf(i) : pc[e] = "stopjoin" => pending[e] = d
        /\ pc[d] \in {"portprobe", "configure"} => rt[i].ownerHeld
    <3>1. d \in Call /\ pc[d] \in StartPC /\ c \in CallsOf(i)
      BY <2>1 DEF CallsOf
    <3>2. My(c).startPromise = d /\ d # None /\ My(c) = rt[i]
      BY <3>1 DEF My
    <3>3. QED
      BY <1>0, <2>1, <3>2 DEF EarlyKeeps
  <2>5. Reported(i)'
    BY <2>2, <2>4, ReportedStays
  <2>6. rt'[i].state # "failed" /\ (rt[i].ownerHeld => rt'[i].ownerHeld)
    BY <2>2, <2>3, <2>4 DEF Passes, SameProcess, Joins, Waits, My
  <2>7. pc'[c] = "stopjoin" => pending'[c] = d
    <3>1. CASE Joins(c)
      BY <2>2, <2>4, <3>1 DEF Joins, OrderlyStep, CallStep, My
    <3>2. CASE Passes(c) \/ Waits(c)
      BY <3>2 DEF Passes, Busy, Waits
    <3>3. QED
      BY <2>3, <3>1, <3>2
  <2>8. QED
    BY <2>1, <2>4, <2>5, <2>6, <2>7
<1>2. CASE pc'[c] \in EarlyPC /\ GoesOn(c) /\ pc[c] \in EarlyPC
  <2>1. /\ rt[i].state # "failed" /\ Reported(i)
        /\ \A e \in CallsOf(i) : pc[e] = "stopjoin" => pending[e] = c
        /\ pc[c] \in {"portprobe", "configure"} => rt[i].ownerHeld
    BY <1>0, <1>2 DEF EarlyKeeps
  <2>2. Reported(i)'
    BY <1>2, <2>1, ReportedStays DEF GoesOn
  <2>3. rt'[i].state # "failed" /\ (pc'[c] \in {"portprobe", "configure"} => rt'[i].ownerHeld)
    BY <1>2, <2>1 DEF GoesOn, My
  <2>4. \A e \in CallsOf(i) : pc'[e] = "stopjoin" => pending'[e] = c
    BY <1>2, <2>1
  <2>5. QED
    BY <1>1, <2>2, <2>3, <2>4, <1>s DEF EarlyKeeps
<1>3. CASE NewStart(c) /\ Passes(c) /\ pc'[c] = "load"
  <2>1. /\ rt[i].startPromise = None /\ rt'[i].state = "starting" /\ rt[i].state # "ready"
        /\ \A d \in CallsOf(i) : pc[d] \notin StartPC
    <3>1. My(c) = rt[i] /\ My(c).startPromise = None /\ rt'[i].state = "starting" /\ rt[i].state # "ready"
      BY <1>3 DEF NewStart, Passes, My
    <3>2. \A d \in CallsOf(i) : pc[d] \in StartPC => FALSE
      BY <3>1 DEF CallsOf
    <3>3. QED
      BY <3>1, <3>2
  <2>2. Reported(i) /\ \A d \in CallsOf(i) : pc[d] # "stopjoin"
    <3>1. CASE pc[c] = "idle" /\ op'[c] \in {"start", "restart"}
      <4>1. \A d \in CallsOf(i) : pc[d] \notin StopPC
        BY <3>1 DEF OrderlyStep
      <4>2. rt[i].processHandle # None => rt[i].processHandle \in CallsOf(i)
        BY DEF OrderlyStep, TypeOK, Fields, ControlInv, OwnProcess, CallsOf
      <4>3. QED
        BY <1>0, <2>1, <4>1, <4>2 DEF KeptWatched, Reported
    <3>2. CASE pc[c] \in {"stopidle", "stopremove"} /\ op[c] = "restart" /\ JoinsResumed(c)
      <4>1. Reported(i)
        BY <1>0, <3>2 DEF RestartClean
      <4>2. ASSUME NEW d \in CallsOf(i), pc[d] = "stopjoin" PROVE FALSE
        <5>1. Live(joining[d]) /\ joining[d] # None
          BY <3>2, <4>2 DEF JoinsResumed, Joined, OrderlyStep, ProcessOf, JoinsCurrent
        <5>2. joining[d] \in CallsOf(i)
          BY <5>1 DEF OrderlyStep, TypeOK, ControlInv, OwnProcess, CallsOf
        <5>3. rt[i].processHandle = joining[d]
          BY <5>1, <5>2 DEF OrderlyStep, ProcessOf, LiveHandle
        <5>4. QED
          BY <4>1, <5>1, <5>3 DEF Reported, Live
      <4>3. QED
        BY <4>1, <4>2
    <3>3. QED
      BY <1>3, <3>1, <3>2 DEF OrderlyStep, CallStep
  <2>3. Reported(i)'
    BY <1>3, <2>2, ReportedStays DEF Passes, Busy
  <2>4. \A e \in CallsOf(i) : pc'[e] # "stopjoin"
    BY <1>3, <2>2
  <2>5. QED
    BY <1>1, <1>3, <2>1, <2>3, <2>4, <1>s DEF EarlyKeeps
<1>4. CASE pc'[c] \notin EarlyPC
  BY <1>1, <1>4, <1>s DEF EarlyKeeps
<1>5. QED
  BY <1>2, <1>3, <1>4, EarlySteps

LEMMA LateKeepsStep ==
  ASSUME NEW c \in Call, OrderlyStep(c) PROVE LateKeeps(InstOf[c])'
<1> DEFINE i == InstOf[c]
<1> USE Context, Places
<1>0. /\ LateKeeps(i) /\ EarlyKeeps(i) /\ My(c) = rt[i]
      /\ \A d \in CallsOf(i) : d \in Call
  BY DEF OrderlyStep, AwaitedOf, My, CallsOf
<1>s. (CallsOf(i))' = CallsOf(i)
  BY DEF CallsOf
(* The lock is kept for a process that runs.                                 *)
<1>1. ASSUME NEW d \in CallsOf(i), Live(d)' PROVE rt'[i].ownerHeld
  <2>1. CASE Passes(c) \/ Joins(c) \/ Waits(c)
    <3>1. Live(d)
      BY <1>0, <1>1, <2>1 DEF Passes, SameProcess, Joins, Waits, Live
    <3>2. rt[i].ownerHeld => rt'[i].ownerHeld
      BY <1>0, <2>1 DEF Passes, SameProcess, Joins, Waits
    <3>3. QED
      BY <1>0, <3>1, <3>2 DEF LateKeeps
  <2>2. CASE Drops(c)
    BY <1>1, <2>2 DEF Drops, Live
  <2>3. CASE GoesOn(c)
    <3>1. Live(d)
      BY <1>1, <2>3 DEF GoesOn, Live
    <3>2. pc'[c] # "acquire"
      BY <1>1, <1>s DEF OrderlyStep, ProcessOf, NoneBeside
    <3>3. QED
      BY <1>0, <2>3, <3>1, <3>2 DEF GoesOn, LateKeeps
  <2>4. CASE Spawns(c)
    BY <1>0, <2>4 DEF Spawns, EarlyKeeps
  <2>5. CASE Returns(c)
    <3>1. Live(d)
      BY <1>1, <2>5 DEF Returns, Live
    <3>2. QED
      BY <1>0, <2>5, <3>1 DEF Returns, LateKeeps
  <2>6. QED
    BY <2>1, <2>2, <2>3, <2>4, <2>5 DEF OrderlyStep, ClassStep
<1>2. ASSUME NEW d \in CallsOf(i), pc'[d] = "readiness" PROVE rt'[i].processHandle \in {d, None}
  <2>1. CASE pc[d] = "readiness"
    <3>1. rt[i].processHandle \in {d, None} /\ pc[d] \in StartPC
      BY <1>0, <2>1 DEF LateKeeps
    <3>2. ~Spawns(c)
      <4>1. SUFFICES ASSUME pc[c] = "configure" PROVE FALSE
        BY DEF Spawns
      <4>2. pc[c] \in StartPC /\ c \in CallsOf(i)
        BY <4>1
      <4>3. c = d
        BY <3>1, <4>2
      <4>4. QED
        BY <2>1, <4>1, <4>3
    <3>3. rt'[i].processHandle \in {rt[i].processHandle, None}
      BY <3>2, HandleMoves
    <3>4. QED
      BY <3>1, <3>3
  <2>2. CASE d = c /\ Spawns(c)
    BY <2>2 DEF Spawns
  <2>3. CASE d = c /\ ~Spawns(c)
    <3>1. ~Passes(c)
      BY <1>2, <2>3 DEF Passes, Busy
    <3>2. ~Drops(c) /\ ~Joins(c) /\ ~Waits(c) /\ ~GoesOn(c) /\ ~Returns(c)
      BY <1>2, <2>3 DEF Drops, Joins, Waits, GoesOn, Returns
    <3>3. QED
      BY <2>3, <3>1, <3>2 DEF OrderlyStep, ClassStep
  <2>4. CASE d # c
    <3>1. pc[d] = "readiness"
      BY <1>2, <2>4
    <3>2. QED
      BY <2>1, <3>1
  <2>5. QED
    BY <2>2, <2>3, <2>4
<1>3. ASSUME NEW d \in CallsOf(i), pc'[d] \in {"failrelease", "failremove"}
      PROVE  rt'[i].processHandle = None
  <2>1. CASE Drops(c)
    BY <2>1 DEF Drops
  <2>2. CASE ~Drops(c)
    <3>1. pc[d] \in {"failrelease", "failremove"}
      <4>1. CASE d = c
        <5>1. pc'[c] \in {"failrelease", "failremove"}
          BY <1>3, <4>1
        <5>2. CASE Passes(c)
          BY <4>1, <5>1, <5>2 DEF Passes
        <5>3. ~Joins(c) /\ ~Waits(c) /\ ~GoesOn(c) /\ ~Spawns(c) /\ ~Returns(c)
          BY <5>1 DEF Joins, Waits, GoesOn, Spawns, Returns
        <5>4. QED
          BY <2>2, <5>2, <5>3 DEF OrderlyStep, ClassStep
      <4>2. CASE d # c
        BY <1>3, <4>2
      <4>3. QED
        BY <4>1, <4>2
    <3>2. rt[i].processHandle = None /\ pc[d] \in StartPC /\ pc[d] # "configure"
      BY <1>0, <3>1 DEF LateKeeps
    <3>3. ~Spawns(c)
      <4>1. SUFFICES ASSUME pc[c] = "configure" PROVE FALSE
        BY DEF Spawns
      <4>2. pc[c] \in StartPC /\ c \in CallsOf(i)
        BY <4>1
      <4>3. c = d
        BY <3>2, <4>2
      <4>4. QED
        BY <3>2, <4>1, <4>3
    <3>4. QED
      BY <3>2, <3>3, HandleMoves
  <2>3. QED
    BY <2>1, <2>2
<1>4. QED
  BY <1>1, <1>2, <1>3, <1>s DEF LateKeeps

LEMMA StopAwaitsStep ==
  ASSUME NEW c \in Call, OrderlyStep(c) PROVE StopAwaits(InstOf[c])'
<1> DEFINE i == InstOf[c]
           p == rt[i].startPromise
<1> USE Context, Places
<1>0. StopAwaits(i) /\ My(c) = rt[i]
  BY DEF OrderlyStep, AwaitedOf, My
<1>s. (CallsOf(i))' = CallsOf(i)
  BY DEF CallsOf
<1>1. CASE NewStart(c) \/ EndsStart(c)
  BY <1>1 DEF NewStart, EndsStart, StopAwaits
<1>2. CASE KeepsStart(c) /\ rt'[i].startPromise # None /\ rt'[i].state # "starting"
  <2>1. /\ rt'[i].startPromise = p /\ p # None /\ p \in CallsOf(i) /\ pc[p] \in StartPC
        /\ \A d \in CallsOf(i) : pc[d] \in StartPC => d = p
    BY <1>0, <1>2 DEF KeepsStart
  <2>2. \A d \in CallsOf(i) \ {c} : pc'[d] = pc[d]
    BY <1>2 DEF KeepsStart, CallsOf
  <2>3. ASSUME NEW s \in CallsOf(i), pc'[s] \in {"stopjoin", "stopwait"}, pending'[s] = p
        PROVE  StopAwaits(i)'
    BY <1>s, <2>1, <2>3 DEF StopAwaits, AwaitsStart
  <2>4. CASE rt[i].state = "starting"
    <3>1. pc[c] = "idle" /\ pc'[c] \in {"stopjoin", "stopwait"}
      <4>1. ~Returns(c)
        BY <1>2 DEF Returns, KeepsStart
      <4>2. rt[i].state = "starting" /\ rt'[i].state # "starting" /\ My(c).state = "starting"
        BY <1>0, <1>2, <2>4
      <4>3. ~Waits(c) /\ ~GoesOn(c) /\ ~Spawns(c)
        BY <4>2 DEF Waits, GoesOn, Spawns
      <4>4. CASE Passes(c)
        BY <4>2, <4>4 DEF Passes
      <4>5. CASE Drops(c) \/ Joins(c)
        BY <1>0, <2>1, <4>2, <4>5 DEF Drops, Joins
      <4>6. QED
        BY <4>1, <4>3, <4>4, <4>5 DEF OrderlyStep, ClassStep
    <3>2. pending'[c] = p
      BY <1>0, <2>4, <3>1 DEF OrderlyStep, CallStep
    <3>3. QED
      BY <2>3, <3>1, <3>2
  <2>5. ASSUME NEW s \in CallsOf(i), AwaitsStart(s), pending[s] = p PROVE StopAwaits(i)'
    <3>1. CASE s # c
      BY <2>2, <2>3, <2>5, <3>1 DEF AwaitsStart
    <3>2. CASE s = c
      <4>1. pc[c] = "stopjoin" /\ pc'[c] = "stopwait" /\ pending'[c] = pending[c]
        BY <1>0, <2>5, <3>2 DEF AwaitsStart, OrderlyStep, CallStep
      <4>2. QED
        BY <2>3, <2>5, <3>2, <4>1
    <3>3. QED
      BY <3>1, <3>2
  <2>6. CASE pc[p] \notin EarlyPC /\ Reported(i)
    <3>1. pc[c] # "configure"
      BY <2>1, <2>6
    <3>2. Reported(i)'
      BY <2>6, <3>1, ReportedStays
    <3>3. pc'[p] \notin EarlyPC
      <4>1. CASE p = c
        BY <1>2, <2>6, <4>1, EarlySteps DEF KeepsStart, NewStart
      <4>2. CASE p # c
        BY <2>1, <2>2, <2>6, <4>2
      <4>3. QED
        BY <4>1, <4>2
    <3>4. QED
      BY <2>1, <3>2, <3>3 DEF StopAwaits
  <2>7. QED
    BY <1>0, <2>1, <2>4, <2>5, <2>6 DEF StopAwaits
<1>3. QED
  BY <1>1, <1>2 DEF OrderlyStep, ControlStep, StopAwaits

LEMMA OneRestartStep ==
  ASSUME NEW c \in Call, OrderlyStep(c) PROVE OneRestart(InstOf[c])'
<1> DEFINE i == InstOf[c]
<1> USE Context, Places
<1>s. (CallsOf(i))' = CallsOf(i)
  BY DEF CallsOf
<1>1. ASSUME NEW d \in CallsOf(i), d # c, Restarting(d)' PROVE Restarting(d)
  BY <1>1 DEF Restarting
<1>2. CASE pc[c] = "idle" /\ Restarting(c)'
  <2>1. \A d \in CallsOf(i) : ~Restarting(d)
    BY <1>2 DEF Restarting, OrderlyStep
  <2>2. QED
    BY <1>1, <1>s, <2>1 DEF OneRestart
<1>3. CASE pc[c] # "idle"
  <2>1. Restarting(c)' => Restarting(c)
    BY <1>3 DEF Restarting, OrderlyStep, CallStep
  <2>2. QED
    BY <1>1, <1>s, <2>1 DEF OneRestart, OrderlyStep, AwaitedOf
<1>4. CASE ~Restarting(c)'
  BY <1>1, <1>4, <1>s DEF OneRestart, OrderlyStep, AwaitedOf
<1>5. QED
  BY <1>2, <1>3, <1>4

LEMMA RestartCleanStep ==
  ASSUME NEW c \in Call, OrderlyStep(c) PROVE RestartClean(InstOf[c])'
<1> DEFINE i == InstOf[c]
<1> USE Context, Places
<1>0. /\ RestartClean(i) /\ OneRestart(i) /\ EarlyKeeps(i) /\ StopAwaits(i) /\ KeptWatched(i)
      /\ My(c) = rt[i] /\ c \in Call
  BY DEF OrderlyStep, AwaitedOf, My
<1>s. (CallsOf(i))' = CallsOf(i)
  BY DEF CallsOf
<1>1. ASSUME NEW d \in CallsOf(i), op'[d] = "restart",
             pc'[d] \in {"stopidle", "stoprelease", "stopremove"}
      PROVE  Reported(i)' /\ \A e \in CallsOf(i) : pc'[e] \notin EarlyPC
  (* A restart() that goes on, or is passed by, stays as clean as it is.     *)
  <2>1. CASE Reported(i) /\ (\A e \in CallsOf(i) : pc[e] \notin EarlyPC) /\ ~NewStart(c)
    <3>1. Reported(i)'
      BY <2>1, ReportedStays
    <3>2. \A e \in CallsOf(i) : pc'[e] \notin EarlyPC
      BY <2>1, EarlySteps
    <3>3. QED
      BY <3>1, <3>2
  <2>2. CASE Drops(c)
    <3>1. Reported(i)'
      BY <2>2 DEF Drops, Reported
    <3>2. \A e \in CallsOf(i) \ {c} : pc[e] \notin EarlyPC /\ pc'[e] \notin EarlyPC
      BY <2>2, NoDropBeside
    <3>3. pc'[c] \notin EarlyPC
      BY <2>2 DEF Drops
    <3>4. QED
      BY <3>1, <3>2, <3>3
  <2>3. CASE d # c /\ pc'[d] = pc[d]
    <3>1. op[d] = "restart" /\ pc[d] \in {"stopidle", "stoprelease", "stopremove"} /\ Restarting(d)
      BY <1>1, <2>3 DEF Restarting
    <3>2. ~NewStart(c)
      <4>1. CASE pc[c] = "idle" /\ op'[c] \in {"start", "restart"}
        BY <3>1, <4>1 DEF OrderlyStep
      <4>2. CASE op[c] = "restart" /\ pc[c] \in {"stopidle", "stopremove"}
        BY <1>0, <2>3, <3>1, <4>2 DEF OneRestart, Restarting
      <4>3. QED
        BY <4>1, <4>2 DEF OrderlyStep, CallStep
    <3>3. QED
      BY <1>0, <2>1, <3>1, <3>2 DEF RestartClean
  <2>4. CASE d # c /\ pc'[d] # pc[d]
    <3>1. EndsStart(c) /\ pc[c] \in StartPC /\ pc'[c] \in {"done", "startaborted"}
      BY <2>4, SMTT(30) DEF EndsStart
    <3>2. Returns(c)
      BY <3>1 DEF OrderlyStep, ClassStep, Passes, Drops, Joins, Waits, GoesOn, Spawns
    <3>3. rt'[i].processHandle = None
      BY <2>4, <3>2 DEF Returns, CallsOf
    <3>4. \A e \in CallsOf(i) : pc[e] \in StartPC => e = c
      BY <3>1
    <3>5. \A e \in CallsOf(i) : pc'[e] \notin EarlyPC
      BY <3>1, <3>4
    <3>6. QED
      BY <3>3, <3>5 DEF Reported
  <2>5. CASE d = c /\ pc'[c] = "stopidle"
    <3>1. /\ pc[c] = "idle" /\ rt[i].state \in {"disabled", "stopped"}
          /\ \A e \in CallsOf(i) : pc[e] \notin StopPC
      BY <1>0, <1>1, <2>5 DEF OrderlyStep, CallStep
    <3>2. \A e \in CallsOf(i) : pc[e] \notin EarlyPC
      <4> SUFFICES ASSUME NEW e \in CallsOf(i), pc[e] \in EarlyPC PROVE FALSE
        OBVIOUS
      <4>1. rt[i].startPromise = e /\ e # None
        BY <1>0 DEF CallsOf
      <4>2. QED
        BY <1>0, <3>1, <4>1 DEF StopAwaits, AwaitsStart
    <3>3. Reported(i)
      <4> SUFFICES ASSUME ~Reported(i) PROVE FALSE
        OBVIOUS
      <4>1. PICK e \in CallsOf(i) : pc[e] \in {"readiness", "failjoin"}
        <5>1. rt[i].processHandle # None => rt[i].processHandle \in CallsOf(i)
          BY DEF OrderlyStep, TypeOK, Fields, ControlInv, OwnProcess, CallsOf
        <5>2. QED
          BY <1>0, <3>1, <5>1 DEF KeptWatched, Reported
      <4>2. rt[i].startPromise = e /\ e # None
        BY <1>0, <4>1 DEF CallsOf
      <4>3. QED
        BY <1>0, <3>1, <4>2 DEF StopAwaits, AwaitsStart
    <3>4. ~NewStart(c)
      BY <2>5 DEF NewStart
    <3>5. QED
      BY <2>1, <3>2, <3>3, <3>4
  <2>6. CASE d = c /\ pc'[c] \in {"stoprelease", "stopremove"}
    <3>1. pc[c] \in {"idle", "stopjoin", "stoprelease"}
      BY <2>6 DEF OrderlyStep, CallStep
    <3>2. CASE pc[c] \in {"idle", "stopjoin"}
      <4>1. Drops(c)
        <5>1. ~Passes(c)
          BY <2>6, <3>2 DEF Passes, Busy
        <5>2. ~Joins(c) /\ ~Waits(c) /\ ~GoesOn(c) /\ ~Spawns(c) /\ ~Returns(c)
          BY <2>6, <3>2 DEF Joins, Waits, GoesOn, Spawns, Returns
        <5>3. QED
          BY <5>1, <5>2 DEF OrderlyStep, ClassStep
      <4>2. QED
        BY <2>2, <4>1
    <3>3. CASE pc[c] = "stoprelease"
      <4>1. op[c] = "restart" /\ ~NewStart(c)
        BY <1>1, <2>6, <3>3 DEF OrderlyStep, CallStep, NewStart
      <4>2. QED
        BY <1>0, <2>1, <3>3, <4>1 DEF RestartClean
    <3>4. QED
      BY <3>1, <3>2, <3>3
  <2>7. QED
    BY <1>1, <2>3, <2>4, <2>5, <2>6
<1>2. QED
  BY <1>1, <1>s DEF RestartClean

LEMMA KeptSpawnedStep ==
  ASSUME NEW c \in Call, OrderlyStep(c) PROVE KeptSpawned(InstOf[c])'
<1>0. /\ KeptSpawned(InstOf[c]) /\ My(c) = rt[InstOf[c]]
      /\ rt[InstOf[c]].processHandle \in Call \cup {None}
  BY ConstAssumption DEF OrderlyStep, AwaitedOf, My, TypeOK, Fields
<1>1. CASE Spawns(c)
  BY <1>1 DEF Spawns, KeptSpawned
<1>2. CASE Joins(c)
  BY <1>0, <1>2 DEF Joins, KeptSpawned
<1>3. QED
  BY <1>0, <1>1, <1>2 DEF OrderlyStep, ClassStep, Passes, SameProcess, Drops, Waits, GoesOn,
     Returns, KeptSpawned

LEMMA OrderlyEffects ==
  ASSUME NEW c \in Call, OrderlyStep(c) PROVE AwaitedOf(InstOf[c])'
BY KeptSpawnedStep, KeptWatchedStep, EarlyKeepsStep, LateKeepsStep, StopAwaitsStep, OneRestartStep, RestartCleanStep
   DEF AwaitedOf

(* A process ends, and its end is reported.                                  *)
LEMMA ChildStepAwaited ==
  ASSUME TypeOK, StartInv, ControlInv, NEW k \in Call, AwaitedOf(InstOf[k]),
         ChildExits(k) \/ ChildReported(k)
  PROVE  AwaitedOf(InstOf[k])'
<1> DEFINE i == InstOf[k]
           h == rt[i].processHandle
<1> USE DEF CallsOf, My
<1>0. /\ i \in Inst /\ UNCHANGED <<mode, pc, op, joining, pending>> /\ None \notin Call
      /\ \A j \in Call \ {k} : child'[j] = child[j]
      /\ h \in Call \cup {None} /\ EarlyPC \subseteq StartPC
  BY ConstAssumption, Places DEF ChildExits, ChildReported, TypeOK, Fields
<1>1. /\ rt'[i].processHandle = h /\ rt'[i].ownerHeld = rt[i].ownerHeld
      /\ rt'[i].startPromise = rt[i].startPromise
      /\ \/ child'[k] = "exited" /\ Live(k) /\ rt'[i].state = rt[i].state
         \/ /\ child'[k] = "reported" /\ child[k] = "exited"
            /\ h # k => rt'[i].state = rt[i].state
            /\ rt'[i].state \in {rt[i].state, "failed"}
  <2> DEFINE r == [My(k) EXCEPT !.state = "failed"]
  <2>1. /\ r.ownerHeld = My(k).ownerHeld /\ r.processHandle = My(k).processHandle
        /\ r.startPromise = My(k).startPromise /\ r.state = "failed"
    BY MyType DEF Fields
  <2>2. \/ ChildExits(k) /\ UNCHANGED rt /\ child'[k] = "exited" /\ Live(k)
        \/ /\ child'[k] = "reported" /\ child[k] = "exited"
           /\ IF My(k).processHandle = k /\ My(k).state \in {"starting", "ready", "degraded"}
                THEN Put(k, r) ELSE UNCHANGED rt
    BY DEF ChildExits, ChildReported, TypeOK
  <2> HIDE DEF r
  <2>3. QED
    BY <2>1, <2>2, PutGoto
<1>2. /\ Reported(i) => Reported(i)' /\ rt'[i].state = rt[i].state
      /\ child'[k] = "reported" /\ h = k => Reported(i)'
  BY <1>0, <1>1 DEF Reported, Live
<1>3. KeptSpawned(i)' /\ KeptWatched(i)'
  <2>1. KeptSpawned(i)'
    BY <1>0, <1>1 DEF AwaitedOf, KeptSpawned
  <2>2. ~Reported(i)' => ~Reported(i) /\ rt'[i].state = rt[i].state
    BY <1>1, <1>2
  <2>3. KeptWatched(i)'
    BY <1>0, <1>1, <2>2 DEF AwaitedOf, KeptWatched
  <2>4. QED
    BY <2>1, <2>3
<1>4. EarlyKeeps(i)' /\ LateKeeps(i)'
  <2>1. EarlyKeeps(i)'
    BY <1>0, <1>1, <1>2 DEF AwaitedOf, EarlyKeeps
  <2>2. \A d \in CallsOf(i) : Live(d)' => Live(d)
    BY <1>0, <1>1 DEF Live
  <2>3. LateKeeps(i)'
    BY <1>0, <1>1, <2>2 DEF AwaitedOf, LateKeeps
  <2>4. QED
    BY <2>1, <2>3
<1>5. StopAwaits(i)'
  <2> SUFFICES ASSUME rt[i].startPromise # None, rt'[i].state # "starting"
               PROVE  StopAwaits(i)'
    BY <1>1 DEF StopAwaits
  <2>1. CASE rt[i].state # "starting"
    BY <1>0, <1>1, <1>2, <2>1 DEF AwaitedOf, StopAwaits, AwaitsStart
  <2>2. CASE rt[i].state = "starting"
    <3>1. h = k /\ child[k] = "exited" /\ child'[k] = "reported"
      BY <1>1, <2>2
    <3>2. ~Reported(i) /\ Reported(i)'
      BY <1>0, <1>2, <3>1 DEF Reported
    <3>3. rt[i].startPromise \in CallsOf(i)
      BY <1>0 DEF StartInv, StartRuns, TypeOK, Fields
    <3>4. pc[rt[i].startPromise] \notin EarlyPC
      BY <3>2, <3>3 DEF AwaitedOf, EarlyKeeps
    <3>5. QED
      BY <1>0, <1>1, <3>2, <3>4 DEF StopAwaits
  <2>3. QED
    BY <2>1, <2>2
<1>6. OneRestart(i)' /\ RestartClean(i)'
  BY <1>0, <1>2 DEF AwaitedOf, OneRestart, Restarting, RestartClean
<1>7. QED
  BY <1>3, <1>4, <1>5, <1>6 DEF AwaitedOf

(* A step of one instance leaves the calls of the others alone.              *)
LEMMA ElsewhereAwaited ==
  ASSUME TypeOK, StartInv, OwnProcess, NEW c \in Call, ControlStep(c),
         NEW i \in Inst, i # InstOf[c], AwaitedOf(i),
         \A d \in Call \ {c} : pc'[d] # pc[d] => InstOf[d] = InstOf[c],
         \A d \in Call \ {c} : pending'[d] = pending[d] /\ op'[d] = op[d]
  PROVE  AwaitedOf(i)'
<1> USE DEF CallsOf
<1>1. /\ rt'[i] = rt[i]
      /\ \A d \in CallsOf(i) : /\ pc'[d] = pc[d] /\ joining'[d] = joining[d] /\ child'[d] = child[d]
                               /\ pending'[d] = pending[d] /\ op'[d] = op[d]
  BY DEF ControlStep, OwnStep
<1>2. /\ rt[i].processHandle # None => rt[i].processHandle \in CallsOf(i)
  BY DEF TypeOK, Fields, OwnProcess
<1>3. Reported(i)' <=> Reported(i)
  BY <1>1, <1>2 DEF Reported
<1>4. KeptSpawned(i)' /\ KeptWatched(i)'
  BY <1>1, <1>2, <1>3 DEF AwaitedOf, KeptSpawned, KeptWatched, Reported
<1>5. EarlyKeeps(i)' /\ LateKeeps(i)'
  BY <1>1, <1>3 DEF AwaitedOf, EarlyKeeps, LateKeeps, Live
<1>6. OneRestart(i)' /\ RestartClean(i)'
  BY <1>1, <1>3 DEF AwaitedOf, OneRestart, Restarting, RestartClean
<1>7. StopAwaits(i)'
  <2>1. rt[i].startPromise # None => rt[i].startPromise \in CallsOf(i)
    BY DEF TypeOK, Fields, StartInv, StartRuns
  <2>2. QED
    BY <1>1, <1>3, <2>1 DEF AwaitedOf, StopAwaits, AwaitsStart
<1>8. QED
  BY <1>4, <1>5, <1>6, <1>7 DEF AwaitedOf

OrderlyInv == RuntimeInv /\ AwaitedInv

LEMMA InitOrderlyInv == Init => OrderlyInv
<1> SUFFICES ASSUME Init PROVE OrderlyInv
  OBVIOUS
<1>0. /\ pc = [c \in Call |-> "idle"] /\ child = [c \in Call |-> "none"]
      /\ \A i \in Inst : rt[i].processHandle = None /\ rt[i].startPromise = None
  BY DEF Init
<1>1. ASSUME NEW i \in Inst PROVE AwaitedOf(i)
  BY <1>0, Places DEF AwaitedOf, KeptSpawned, KeptWatched, Reported, EarlyKeeps, LateKeeps, StopAwaits,
     OneRestart, Restarting, RestartClean, Live, CallsOf
<1>2. QED
  BY <1>1, InitRuntimeInv DEF OrderlyInv, AwaitedInv

LEMMA StepOrderlyInv == OrderlyInv /\ [Next /\ Awaited]_vars => OrderlyInv'
<1> SUFFICES ASSUME OrderlyInv, [Next /\ Awaited]_vars PROVE OrderlyInv'
  OBVIOUS
<1>0. /\ RuntimeInv /\ RuntimeInv' /\ TypeOK /\ StopOp /\ StartInv
      /\ ControlInv /\ ControlInv' /\ OwnProcess
      /\ InstOf \in [Call -> Inst]
  BY StepRuntimeInv, ConstAssumption DEF OrderlyInv, RuntimeInv, IInv, ControlInv
<1> USE DEF OrderlyInv
(* What a step of c does, all in all.                                        *)
<1>1. ASSUME NEW c \in Call, CallBegins(c) \/ Step(c) \/ ChildExits(c) \/ ChildReported(c),
             ControlStep(c),
             \A d \in Call \ {c} : pc'[d] # pc[d] => InstOf[d] = InstOf[c],
             \A d \in Call \ {c} : pending'[d] = pending[d] /\ op'[d] = op[d],
             NeverInstalls(InstOf[c]) /\ NeverInstalls(InstOf[c])' => AwaitedOf(InstOf[c])'
      PROVE  OrderlyInv'
  <2>1. \A d \in Call \ {c} : pc'[d] = pc[d]
          \/ (pc[d] = "stopwait" /\ pc'[d] \in {"stoprelease", "stopremove"})
    BY <1>1 DEF ControlStep, KeepsStart, NewStart, EndsStart
  <2>2. \A i \in Inst : NeverInstalls(i)' => NeverInstalls(i)
    BY <1>0, <1>1, <2>1, StepOp
  <2>3. ASSUME NEW i \in Inst, NeverInstalls(i)' PROVE AwaitedOf(i)'
    <3>1. NeverInstalls(i) /\ AwaitedOf(i)
      BY <2>2, <2>3 DEF AwaitedInv
    <3>2. CASE i = InstOf[c]
      BY <1>1, <2>3, <3>1, <3>2
    <3>3. CASE i # InstOf[c]
      BY <1>0, <1>1, <3>1, <3>3, ElsewhereAwaited
    <3>4. QED
      BY <3>2, <3>3
  <2>4. QED
    BY <1>0, <2>3 DEF AwaitedInv
<1>2. ASSUME NEW c \in Call, ControlStep(c), ProcessStep(c), CallStep(c), Awaited,
             NeverInstalls(InstOf[c]), NeverInstalls(InstOf[c])'
      PROVE  AwaitedOf(InstOf[c])'
  <2>1. InstOf[c] \in Inst
    BY <1>0
  <2>2. /\ ProcessOf(InstOf[c]) /\ ProcessOf(InstOf[c])' /\ AwaitedOf(InstOf[c])
    BY <1>0, <1>2, <2>1 DEF RuntimeInv, ProcessInv, AwaitedInv
  <2>3. ClassStep(c)
    BY <1>2, <2>2 DEF ProcessStep, ClassStep
  <2>4. pc[c] = "idle" /\ op'[c] \in {"start", "restart"} =>
          \A d \in CallsOf(InstOf[c]) : pc[d] \notin StopPC
    BY <1>2 DEF Awaited, CallsOf
  <2>5. OrderlyStep(c)
    BY <1>0, <1>2, <2>2, <2>3, <2>4 DEF OrderlyStep
  <2>6. QED
    BY <2>5, OrderlyEffects
<1>3. ASSUME NEW c \in Call, CallBegins(c), Awaited PROVE OrderlyInv'
  <2>1. ControlStep(c) /\ ProcessStep(c) /\ CallStep(c)
    BY <1>0, <1>3, CallBeginsProcess, CallBeginsCall
  <2>2. pc[c] = "idle"
    BY <1>3 DEF CallBegins, Start, Stop, Restart, Dispose, Install, Called
  <2>3. \A d \in Call \ {c} : pc'[d] = pc[d]
    BY <2>1, <2>2, Places DEF ControlStep, KeepsStart, NewStart, EndsStart
  <2>4. \A d \in Call \ {c} : pending'[d] = pending[d] /\ op'[d] = op[d]
    BY <2>1 DEF CallStep
  <2>5. QED
    BY <1>1, <1>2, <1>3, <2>1, <2>3, <2>4
<1>4. ASSUME NEW c \in Call, StartStep(c) \/ StopStep(c), Awaited PROVE OrderlyInv'
  <2>1. ControlStep(c) /\ ProcessStep(c) /\ CallStep(c)
    BY <1>0, <1>4, StartStepProcess, StopStepProcess, StartStepCall, StopStepCall
  <2>2. Step(c)
    BY <1>4 DEF Step
  <2>3. \A d \in Call \ {c} : pc'[d] # pc[d] => InstOf[d] = InstOf[c]
    BY <1>0, <2>2, WokenHere
  <2>4. \A d \in Call \ {c} : pending'[d] = pending[d] /\ op'[d] = op[d]
    BY <2>1 DEF CallStep
  <2>5. QED
    BY <1>1, <1>2, <1>4, <2>1, <2>2, <2>3, <2>4
<1>5. ASSUME NEW c \in Call, InstallStep(c) PROVE OrderlyInv'
  <2>1. ControlStep(c) /\ ~NeverInstalls(InstOf[c]) /\ SameOthers(c)
    BY <1>0, <1>5, InstallStepProcess
  <2>2. UNCHANGED <<pending, op>>
    BY <1>5 DEF InstallStep, InstallPrepared, InstallAcquires, InstallRefused, InstallWorked, InstallReleased, At
  <2>3. Step(c) /\ \A d \in Call \ {c} : pc'[d] = pc[d]
    BY <1>5, <2>1 DEF Step, SameOthers
  <2>4. QED
    BY <1>1, <2>1, <2>2, <2>3
<1>6. ASSUME NEW k \in Call, ChildExits(k) \/ ChildReported(k) PROVE OrderlyInv'
  <2>1. ControlStep(k) /\ pc' = pc /\ UNCHANGED <<pending, op>>
    BY <1>0, <1>6, ChildStepControl DEF ChildExits, ChildReported
  <2>2. NeverInstalls(InstOf[k]) => AwaitedOf(InstOf[k])'
    BY <1>0, <1>6, ChildStepAwaited DEF AwaitedInv
  <2>3. QED
    BY <1>1, <1>6, <2>1, <2>2
<1>7. CASE UNCHANGED vars
  BY <1>0, <1>7 DEF vars, AwaitedInv, AwaitedOf, KeptSpawned, KeptWatched, Reported, EarlyKeeps,
     LateKeeps,
     StopAwaits, AwaitsStart, OneRestart, Restarting, RestartClean, NeverInstalls, Live, CallsOf
<1>8. QED
  BY <1>3, <1>4, <1>5, <1>6, <1>7 DEF Next, Step

(* For callers that await: as long as a process lives its instance keeps the  *)
(* lock and the handle that stop() terminates, and so has no second one; no   *)
(* number of calls and crashes, in whatever order, takes either from it.      *)
THEOREM ProcessIsOwned == AwaitedSpec => []LiveChildOwned
<1>1. OrderlyInv => LiveChildOwned
  <2> SUFFICES ASSUME OrderlyInv, NEW k \in Call, Live(k), NeverInstalls(InstOf[k])
               PROVE  lock = InstOf[k] /\ My(k).ownerHeld /\ My(k).processHandle = k
    BY DEF LiveChildOwned
  <2>1. InstOf[k] \in Inst /\ k \in CallsOf(InstOf[k])
    BY ConstAssumption DEF CallsOf
  <2>2. My(k).processHandle = k /\ My(k).ownerHeld
    BY <2>1 DEF OrderlyInv, RuntimeInv, ProcessInv, ProcessOf, LiveHandle, AwaitedInv, AwaitedOf,
       LateKeeps, My
  <2>3. QED
    BY <2>1, <2>2 DEF OrderlyInv, RuntimeInv, IInv, LockInv, HeldIsLocked, My
<1>2. QED
  BY InitOrderlyInv, StepOrderlyInv, <1>1, PTL DEF AwaitedSpec
=============================================================================
