--------------------------- MODULE OwnerLockProofs ---------------------------
(* Proofs about OwnerLock, for every set of contending processes. *)
EXTENDS OwnerLock, TLAPS

(* The pid probe of Check() answers for the process itself: the processes it *)
(* finds are exactly those that can still take a step.                       *)
ProbeExact == \A p \in Proc : p \in alive <=> pc[p] # "dead"

(* The loop counter is below its bound wherever the loop still runs. *)
LoopBounded == \A p \in Proc : pc[p] \in Acquiring => attempt[p] < MaxAttempts

IInv == TypeOK /\ ProbeExact /\ LoopBounded

-----------------------------------------------------------------------------
(* Type correctness, and that a dead process is never found alive. *)
LEMMA InitIInv == Init => IInv
<1> SUFFICES ASSUME Init PROVE IInv
  OBVIOUS
<1>1. lockFile \in [by : Proc \cup {Past, None}, written : BOOLEAN]
  <2>1. CASE lockFile = NoFile
    BY <2>1 DEF NoFile
  <2>2. CASE lockFile \in [by : {Past}, written : BOOLEAN]
    BY <2>2
  <2>3. QED
    BY <2>1, <2>2 DEF Init
<1>2. pc = [p \in Proc |-> "idle"] /\ alive = Proc
  BY DEF Init
<1>3. attempt \in [Proc -> 0..MaxAttempts] /\ seen \in [Proc -> Proc \cup {Past, None}]
  BY ConstAssumption DEF Init
<1>4. QED
  BY <1>1, <1>2, <1>3 DEF IInv, TypeOK, ProbeExact, LoopBounded, Acquiring, PC

LEMMA StepIInv == IInv /\ [Next]_vars => IInv'
<1> SUFFICES ASSUME IInv, [Next]_vars PROVE IInv'
  OBVIOUS
<1> USE ConstAssumption DEF IInv, TypeOK, ProbeExact, LoopBounded, Acquiring, PC, NoFile, Goto
<1>1. ASSUME NEW p \in Proc, Acquire(p) PROVE IInv'
  BY <1>1 DEF Acquire
<1>2. ASSUME NEW p \in Proc, Create(p) PROVE IInv'
  BY <1>2 DEF Create
<1>3. ASSUME NEW p \in Proc, Exists(p) PROVE IInv'
  BY <1>3 DEF Exists
<1>4. ASSUME NEW p \in Proc, Write(p) PROVE IInv'
  BY <1>4 DEF Write, Recorded
<1>5. ASSUME NEW p \in Proc, WriteFails(p) PROVE IInv'
  BY <1>5 DEF WriteFails
<1>6. ASSUME NEW p \in Proc, Read(p) PROVE IInv'
  BY <1>6 DEF Read, Record
<1>7. ASSUME NEW p \in Proc, Check(p) PROVE IInv'
  BY <1>7 DEF Check
<1>8. ASSUME NEW p \in Proc, Rename(p) PROVE IInv'
  BY <1>8 DEF Rename
<1>9. ASSUME NEW p \in Proc, RenameFails(p) PROVE IInv'
  BY <1>9 DEF RenameFails
<1>10. ASSUME NEW p \in Proc, Release(p) PROVE IInv'
  BY <1>10 DEF Release
<1>11. ASSUME NEW p \in Proc, ReleaseRead(p) PROVE IInv'
  BY <1>11 DEF ReleaseRead
<1>12. ASSUME NEW p \in Proc, ReleaseRemove(p) PROVE IInv'
  BY <1>12 DEF ReleaseRemove
<1>13. ASSUME NEW p \in Proc, Crash(p) PROVE IInv'
  BY <1>13 DEF Crash
<1>14. CASE UNCHANGED vars
  BY <1>14 DEF vars
<1>15. ASSUME NEW p \in Proc, OpenFails(p) PROVE IInv'
  BY <1>15 DEF OpenFails
<1>16. ASSUME NEW p \in Proc, CloseFails(p) PROVE IInv'
  BY <1>16 DEF CloseFails, Recorded
<1>17. ASSUME NEW p \in Proc, ReadFails(p) PROVE IInv'
  BY <1>17 DEF ReadFails
<1>18. ASSUME NEW p \in Proc, UnlinkFails(p) PROVE IInv'
  BY <1>18 DEF UnlinkFails
<1>19. ASSUME NEW p \in Proc, ReleaseReadFails(p) PROVE IInv'
  BY <1>19 DEF ReleaseReadFails
<1>20. ASSUME NEW p \in Proc, RemoveFails(p) PROVE IInv'
  BY <1>20 DEF RemoveFails
<1>21. QED
  BY <1>1, <1>2, <1>3, <1>4, <1>5, <1>6, <1>7, <1>8, <1>9, <1>10, <1>11, <1>12,
     <1>13, <1>14, <1>15, <1>16, <1>17, <1>18, <1>19, <1>20 DEF Next, AcquireStep, ReleaseStep

(* Every reachable state of the lock protocol is well typed; in particular   *)
(* the loop counter of acquire() never passes maxRecoveryAttempts.           *)
THEOREM TypeCorrect == Spec => []TypeOK
<1>1. IInv => TypeOK
  BY DEF IInv
<1>2. QED
  BY InitIInv, StepIInv, <1>1, PTL DEF Spec

LEMMA Invariance == Spec => []IInv
BY InitIInv, StepIInv, PTL DEF Spec

-----------------------------------------------------------------------------
(* No step of anybody but p disturbs an undisputed owner p, and p gives the  *)
(* lock up only by release() or by dying, except that a contender that       *)
(* cannot read the record takes it for stale.                                *)
LEMMA StepUndisputed ==
  ASSUME IInv, [Next]_vars, NEW p \in Proc, Undisputed(p)
  PROVE  Undisputed(p)' \/ pc'[p] \in {"relread", "dead"} \/ \E q \in Proc : ReadFails(q)
<1> USE DEF IInv, TypeOK, ProbeExact, Undisputed, Owners, Goto
<1>1. ASSUME NEW q \in Proc, Acquire(q) PROVE Undisputed(p)'
  BY <1>1 DEF Acquire
<1>2. ASSUME NEW q \in Proc, Create(q) PROVE Undisputed(p)'
  BY <1>2, ConstAssumption DEF Create
<1>3. ASSUME NEW q \in Proc, Exists(q) PROVE Undisputed(p)'
  BY <1>3 DEF Exists
<1>4. ASSUME NEW q \in Proc, Write(q) PROVE Undisputed(p)'
  BY <1>4 DEF Write, Recorded
<1>5. ASSUME NEW q \in Proc, WriteFails(q) PROVE Undisputed(p)'
  BY <1>5 DEF WriteFails
<1>6. ASSUME NEW q \in Proc, Read(q) PROVE Undisputed(p)'
  BY <1>6 DEF Read, Record
<1>7. ASSUME NEW q \in Proc, Check(q) PROVE Undisputed(p)'
  BY <1>7 DEF Check
<1>8. ASSUME NEW q \in Proc, Rename(q) PROVE Undisputed(p)'
  BY <1>8 DEF Rename
<1>9. ASSUME NEW q \in Proc, RenameFails(q) PROVE Undisputed(p)'
  BY <1>9 DEF RenameFails
<1>10. ASSUME NEW q \in Proc, Release(q) PROVE pc'[p] = "relread"
  BY <1>10 DEF Release
<1>11. ASSUME NEW q \in Proc, ReleaseRead(q) PROVE Undisputed(p)'
  BY <1>11 DEF ReleaseRead, Record
<1>12. ASSUME NEW q \in Proc, ReleaseRemove(q) PROVE Undisputed(p)'
  BY <1>12 DEF ReleaseRemove
<1>13. ASSUME NEW q \in Proc, Crash(q) PROVE Undisputed(p)' \/ pc'[p] = "dead"
  BY <1>13 DEF Crash
<1>14. CASE UNCHANGED vars
  BY <1>14 DEF vars
<1>15. ASSUME NEW q \in Proc, OpenFails(q) PROVE Undisputed(p)'
  BY <1>15 DEF OpenFails
<1>16. ASSUME NEW q \in Proc, CloseFails(q) PROVE Undisputed(p)'
  BY <1>16 DEF CloseFails, Recorded
<1>17. ASSUME NEW q \in Proc, ReadFails(q) PROVE \E r \in Proc : ReadFails(r)
  BY <1>17 DEF ReadFails
<1>18. ASSUME NEW q \in Proc, UnlinkFails(q) PROVE Undisputed(p)'
  BY <1>18 DEF UnlinkFails
<1>19. ASSUME NEW q \in Proc, ReleaseReadFails(q) PROVE Undisputed(p)'
  BY <1>19 DEF ReleaseReadFails
<1>20. ASSUME NEW q \in Proc, RemoveFails(q) PROVE Undisputed(p)'
  BY <1>20 DEF RemoveFails
<1>21. QED
  BY <1>1, <1>2, <1>3, <1>4, <1>5, <1>6, <1>7, <1>8, <1>9, <1>10, <1>11, <1>12,
     <1>13, <1>14, <1>15, <1>16, <1>17, <1>18, <1>19, <1>20 DEF Next, AcquireStep, ReleaseStep

(* The guarantee the lock file does give, for any number of contenders: an   *)
(* owner reached with nobody past a stale verdict stays the only owner until *)
(* it releases or dies, or a contender cannot read its record.               *)
THEOREM OwnerKept == Spec => UndisputedOwnerKept
<1>1. IInv /\ [Next]_vars =>
        [\A p \in Proc : Undisputed(p) =>
           Undisputed(p)' \/ pc'[p] \in {"relread", "dead"} \/ \E q \in Proc : ReadFails(q)]_vars
  BY StepUndisputed
<1>2. QED
  BY Invariance, <1>1, PTL DEF Spec, UndisputedOwnerKept

-----------------------------------------------------------------------------
(* Only a failing close(), read or rm() of its own leaves the complete record *)
(* of a process that lives on without the lock.                              *)
LEMMA StepLeftBehind ==
  ASSUME IInv, [Next]_vars, NEW p \in Proc, LeftBehind(p)', ~LeftBehind(p)
  PROVE  CloseFails(p) \/ ReleaseReadFails(p) \/ RemoveFails(p)
<1> USE ConstAssumption DEF IInv, TypeOK, LeftBehind, Goto, NoFile
<1>1. ASSUME NEW q \in Proc, Acquire(q) PROVE FALSE
  BY <1>1 DEF Acquire
<1>2. ASSUME NEW q \in Proc, AcquireStep(q), ~CloseFails(q) PROVE FALSE
  BY <1>2 DEF AcquireStep, Create, Exists, OpenFails, Write, WriteFails, Recorded, Read,
              ReadFails, Check, Rename, RenameFails, UnlinkFails
<1>3. ASSUME NEW q \in Proc, CloseFails(q) PROVE q = p
  BY <1>3 DEF CloseFails, Recorded
<1>4. ASSUME NEW q \in Proc, Release(q) PROVE FALSE
  BY <1>4 DEF Release
<1>5. ASSUME NEW q \in Proc, ReleaseRead(q) \/ ReleaseRemove(q) PROVE FALSE
  BY <1>5 DEF ReleaseRead, ReleaseRemove, Record
<1>6. ASSUME NEW q \in Proc, ReleaseReadFails(q) \/ RemoveFails(q) PROVE q = p
  BY <1>6 DEF ReleaseReadFails, RemoveFails
<1>7. ASSUME NEW q \in Proc, Crash(q) PROVE FALSE
  BY <1>7 DEF Crash
<1>8. CASE UNCHANGED vars
  BY <1>8 DEF vars
<1>9. QED
  BY <1>1, <1>2, <1>3, <1>4, <1>5, <1>6, <1>7, <1>8 DEF Next, ReleaseStep

(* A record that refuses everybody although its process is no owner is never *)
(* the work of a contender, a crash or an order of steps, for any number of  *)
(* contenders and any failing calls.                                         *)
THEOREM LeftOnlyByFailure == Spec => LeftBehindByFailure
<1>1. IInv /\ [Next]_vars =>
        [\A p \in Proc : LeftBehind(p)' =>
           LeftBehind(p) \/ CloseFails(p) \/ ReleaseReadFails(p) \/ RemoveFails(p)]_vars
  BY StepLeftBehind
<1>2. QED
  BY Invariance, <1>1, PTL DEF Spec, LeftBehindByFailure
=============================================================================
