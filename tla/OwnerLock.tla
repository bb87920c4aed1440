------------------------------ MODULE OwnerLock ------------------------------
(***************************************************************************)
(* RuntimeOwnerLock (packages/runtime/src/index.ts): the lock file below   *)
(* stateDir that elects the one managed-runtime owner of a DSH home.       *)
(*                                                                         *)
(* Each element of Proc is one OS process holding one RuntimeOwnerLock     *)
(* instance; its pid and token are abstracted to the process itself.  The  *)
(* processes share only the file system, so every awaited call (open,      *)
(* writeFile, readFile, rename, rm) and every pid probe is a step of its   *)
(* own and a process may die between any two of them.                      *)
(***************************************************************************)
EXTENDS Naturals

CONSTANTS
  Proc,         \* the contending processes
  MaxAttempts,  \* maxRecoveryAttempts of the constructor (5 by default)
  Faults,       \* the file-system calls that may fail with an I/O error:
                \* each names the call, "unlink" the rm() of the renamed
                \* file, "remove" that of the record in release()
  Past,         \* the process that owned the home before, and is dead
  None          \* "no process"

ASSUME ConstAssumption ==
  /\ MaxAttempts \in Nat \ {0}       \* Math.max(1, ...)
  /\ Faults \subseteq {"open", "write", "close", "read", "rename", "unlink", "remove"}
  /\ None \notin Proc /\ Past \notin Proc /\ Past # None

VARIABLES
  lockFile,  \* the file at lockFile: who created it (None: absent) and
             \* whether the JSON record has been written into it yet
  pc,        \* where each process stands in acquire() or release()
  attempt,   \* the loop counter of acquire()
  seen,      \* the pid readRecord() returned, None for undefined
  alive      \* the processes process.kill(pid, 0) finds

vars == <<lockFile, pc, attempt, seen, alive>>

NoFile == [by |-> None, written |-> FALSE]

PC == {"idle",      \* no call in progress, acquired = false
       "open",      \* acquire(): before open(lockFile, "wx")
       "write",     \* the empty file is created, the record not yet written
       "read",      \* EEXIST: before readRecord()
       "check",     \* before isAlive(existing.pid)
       "rename",    \* the record is judged stale, before rename()
       "held",      \* acquired = true
       "relread",   \* release(): before readRecord()
       "relremove", \* release(): the record is its own, before rm()
       "refused",   \* acquire() threw RuntimeOwnerError
       "failed",    \* acquire() threw an I/O error
       "dead"}

Acquiring == {"open", "write", "read", "check", "rename"}
Settled   == {"held", "refused", "failed", "dead"}

(* A home is fresh, was left with its last owner's complete record, or with  *)
(* the empty file of one that died before writing it.                        *)
Init ==
  /\ lockFile \in {NoFile} \cup [by : {Past}, written : BOOLEAN]
  /\ pc = [p \in Proc |-> "idle"]
  /\ attempt = [p \in Proc |-> 0]
  /\ seen = [p \in Proc |-> None]
  /\ alive = Proc

Goto(p, from, to) ==
  /\ pc[p] = from
  /\ pc' = [pc EXCEPT ![p] = to]

(* What readRecord() returns: an absent, empty or partial file is undefined. *)
Record == IF lockFile.written THEN lockFile.by ELSE None

-----------------------------------------------------------------------------
(* acquire() *)

(* A caller that does not hold the lock calls acquire(): after a return, a   *)
(* refusal or an error it may always call it again.                         *)
Acquire(p) ==
  /\ pc[p] \in {"idle", "refused", "failed"}
  /\ pc' = [pc EXCEPT ![p] = "open"]
  /\ attempt' = [attempt EXCEPT ![p] = 0]
  /\ UNCHANGED <<lockFile, seen, alive>>

(* open(lockFile, "wx") creates the file and nothing else. *)
Create(p) ==
  /\ Goto(p, "open", "write")
  /\ lockFile.by = None
  /\ lockFile' = [by |-> p, written |-> FALSE]
  /\ UNCHANGED <<attempt, seen, alive>>

(* ... or finds a file there: EEXIST. *)
Exists(p) ==
  /\ Goto(p, "open", "read")
  /\ lockFile.by # None
  /\ UNCHANGED <<lockFile, attempt, seen, alive>>

(* mkdir() or open() fails otherwise: acquire() rethrows. *)
OpenFails(p) ==
  /\ "open" \in Faults
  /\ Goto(p, "open", "failed")
  /\ UNCHANGED <<lockFile, attempt, seen, alive>>

(* handle.writeFile and close.  The handle keeps naming the created file: if *)
(* it was renamed away meanwhile, the record goes to the unlinked file and   *)
(* acquire() still returns as the owner.                                     *)
Recorded(p) ==
  lockFile' = IF lockFile.by = p THEN [lockFile EXCEPT !.written = TRUE] ELSE lockFile

Write(p) ==
  /\ Goto(p, "write", "held")
  /\ Recorded(p)
  /\ UNCHANGED <<attempt, seen, alive>>

(* handle.close() fails after the write: acquire() rethrows and leaves the   *)
(* complete record of a process that does not own the home.                  *)
CloseFails(p) ==
  /\ "close" \in Faults
  /\ Goto(p, "write", "failed")
  /\ Recorded(p)
  /\ UNCHANGED <<attempt, seen, alive>>

(* The write fails: acquire() rethrows and leaves a file without a record.   *)
WriteFails(p) ==
  /\ "write" \in Faults
  /\ Goto(p, "write", "failed")
  /\ UNCHANGED <<lockFile, attempt, seen, alive>>

Read(p) ==
  /\ Goto(p, "read", "check")
  /\ seen' = [seen EXCEPT ![p] = Record]
  /\ UNCHANGED <<lockFile, attempt, alive>>

(* readRecord() swallows every error: a file that cannot be read is taken    *)
(* for one without a record.                                                 *)
ReadFails(p) ==
  /\ "read" \in Faults
  /\ Goto(p, "read", "check")
  /\ seen' = [seen EXCEPT ![p] = None]
  /\ UNCHANGED <<lockFile, attempt, alive>>

(* Mutants of Check: the pid probe is dropped; an unreadable record counts   *)
(* as a live owner.                                                          *)
CheckWithoutProbe(p) ==
  /\ Goto(p, "check", "rename")
  /\ UNCHANGED <<lockFile, attempt, seen, alive>>

CheckUnreadableIsAlive(p) ==
  /\ IF seen[p] \in alive \cup {None}
       THEN Goto(p, "check", "refused")
       ELSE Goto(p, "check", "rename")
  /\ UNCHANGED <<lockFile, attempt, seen, alive>>

(* existing !== undefined && isAlive(existing.pid): refuse, else recover. *)
Check(p) ==
  /\ IF seen[p] \in alive
       THEN Goto(p, "check", "refused")
       ELSE Goto(p, "check", "rename")
  /\ UNCHANGED <<lockFile, attempt, seen, alive>>

(* Mutants of Rename: the loop never gives up; it forgets to count its rounds.*)
RenameForever(p) ==
  /\ Goto(p, "rename", "open")
  /\ lockFile' = NoFile
  /\ attempt' = [attempt EXCEPT ![p] = @ + 1]
  /\ UNCHANGED <<seen, alive>>

RenameUncounted(p) ==
  /\ Goto(p, "rename", "open")
  /\ lockFile' = NoFile
  /\ UNCHANGED <<attempt, seen, alive>>

(* rename() and rm() of whatever is at the path now (ENOENT is ignored),     *)
(* then the next round of the loop, which gives up after MaxAttempts.        *)
Rename(p) ==
  /\ IF attempt[p] + 1 < MaxAttempts
       THEN Goto(p, "rename", "open")
       ELSE Goto(p, "rename", "refused")
  /\ lockFile' = NoFile
  /\ attempt' = [attempt EXCEPT ![p] = @ + 1]
  /\ UNCHANGED <<seen, alive>>

RenameFails(p) ==
  /\ "rename" \in Faults
  /\ Goto(p, "rename", "failed")
  /\ UNCHANGED <<lockFile, attempt, seen, alive>>

(* The file was renamed away, and its rm() fails: acquire() rethrows. *)
UnlinkFails(p) ==
  /\ "unlink" \in Faults
  /\ lockFile.by # None
  /\ Goto(p, "rename", "failed")
  /\ lockFile' = NoFile
  /\ UNCHANGED <<attempt, seen, alive>>

-----------------------------------------------------------------------------
(* release() *)

(* Mutant of Release: acquired is reset before it is looked at. *)
ReleaseForgets(p) ==
  /\ Goto(p, "held", "idle")
  /\ UNCHANGED <<lockFile, attempt, seen, alive>>

(* if (!acquired) return; acquired = false. *)
Release(p) ==
  /\ Goto(p, "held", "relread")
  /\ UNCHANGED <<lockFile, attempt, seen, alive>>

(* Mutant of ReleaseRead: whatever is at the path is removed. *)
ReleaseReadAny(p) ==
  /\ Goto(p, "relread", "relremove")
  /\ UNCHANGED <<lockFile, attempt, seen, alive>>

(* Only a record with its own pid and token may be removed. *)
ReleaseRead(p) ==
  /\ IF Record = p THEN Goto(p, "relread", "relremove")
                   ELSE Goto(p, "relread", "idle")
  /\ UNCHANGED <<lockFile, attempt, seen, alive>>

(* An unreadable record is not its own. *)
ReleaseReadFails(p) ==
  /\ "read" \in Faults
  /\ Goto(p, "relread", "idle")
  /\ UNCHANGED <<lockFile, attempt, seen, alive>>

ReleaseRemove(p) ==
  /\ Goto(p, "relremove", "idle")
  /\ lockFile' = NoFile
  /\ UNCHANGED <<attempt, seen, alive>>

(* The error of rm() is swallowed; the record stays, and acquired is FALSE.  *)
RemoveFails(p) ==
  /\ "remove" \in Faults
  /\ Goto(p, "relremove", "idle")
  /\ UNCHANGED <<lockFile, attempt, seen, alive>>

-----------------------------------------------------------------------------
(* The process is killed; its file stays. *)
Crash(p) ==
  /\ p \in alive
  /\ alive' = alive \ {p}
  /\ pc' = [pc EXCEPT ![p] = "dead"]
  /\ UNCHANGED <<lockFile, attempt, seen>>

AcquireStep(p) ==
  \/ Create(p) \/ Exists(p) \/ OpenFails(p)
  \/ Write(p) \/ CloseFails(p) \/ WriteFails(p)
  \/ Read(p) \/ ReadFails(p) \/ Check(p)
  \/ Rename(p) \/ RenameFails(p) \/ UnlinkFails(p)

ReleaseStep(p) ==
  ReleaseRead(p) \/ ReleaseReadFails(p) \/ ReleaseRemove(p) \/ RemoveFails(p)

Next == \E p \in Proc :
  Acquire(p) \/ AcquireStep(p) \/ Release(p) \/ ReleaseStep(p) \/ Crash(p)

Spec == Init /\ [][Next]_vars

(* A live process runs a call it has begun to its end: the event loop        *)
(* resumes every await.  Nothing makes a caller call, and a crash is never   *)
(* owed.                                                                     *)
FairSpec == Spec /\ \A p \in Proc : WF_vars(AcquireStep(p) \/ ReleaseStep(p))

-----------------------------------------------------------------------------
TypeOK ==
  /\ lockFile \in [by : Proc \cup {Past, None}, written : BOOLEAN]
  /\ pc \in [Proc -> PC]
  /\ attempt \in [Proc -> 0..MaxAttempts]
  /\ seen \in [Proc -> Proc \cup {Past, None}]
  /\ alive \in SUBSET Proc

Owners == {p \in Proc : pc[p] = "held"}

(* docs/design/security.md: "Exactly one managed runtime owner ... may be    *)
(* active"; "a second owner fails loud and cannot ... replace the first".    *)
(* No two live processes have both returned from acquire().                  *)
AtMostOneOwner == \A p, q \in Owners : p = q

(* p is the one owner and no process is past the point from which it could   *)
(* still take the path from it: none is about to rename, none judges another *)
(* record than p's, none still writes into a file it created, none is about  *)
(* to remove the path.                                                       *)
Undisputed(p) ==
  /\ Owners = {p}
  /\ lockFile = [by |-> p, written |-> TRUE]
  /\ \A q \in Proc \ {p} :
       /\ pc[q] \notin {"write", "rename", "relremove"}
       /\ pc[q] = "check" => seen[q] = p

(* What the protocol does guarantee (docs/design/security.md: a second owner *)
(* "fails loud and cannot ... replace the first"): an owner whose record is  *)
(* at the path when nobody is past a stale verdict stays the only owner and  *)
(* keeps the path until it releases or dies, or a contender cannot read its  *)
(* record: no other step or failure of acquire(), recovery and release(),    *)
(* and no crash of the others disturbs it, however many they are.            *)
UndisputedOwnerKept ==
  [][\A p \in Proc : Undisputed(p) =>
       Undisputed(p)' \/ pc'[p] \in {"relread", "dead"} \/ \E q \in Proc : ReadFails(q)]_vars

(* A complete record of a live process makes every acquire() refuse, also    *)
(* one of its own, and no one removes it.                                    *)
LeftBehind(p) ==
  /\ p \in alive /\ lockFile = [by |-> p, written |-> TRUE]
  /\ pc[p] \notin {"held", "relread", "relremove"}

(* Such a record is left only where one of three calls of that very process  *)
(* fails: close() after the write, or in release() the read or the rm(), of  *)
(* which the code says "Disposal is best effort".  No contender, no crash,   *)
(* no other failure and no order of the steps leaves one.                    *)
LeftBehindByFailure ==
  [][\A p \in Proc : LeftBehind(p)' =>
       LeftBehind(p) \/ CloseFails(p) \/ ReleaseReadFails(p) \/ RemoveFails(p)]_vars

Sole(p) == \A q \in Proc \ {p} : pc[q] = "dead"

(* maxRecoveryAttempts bounds the loop: every acquire() of a process that    *)
(* stays alive returns or throws, whatever the others do.                    *)
AcquireTerminates == \A p \in Proc : pc[p] \in Acquiring ~> pc[p] \in Settled

(* A crashed owner never blocks the home for good: a process that calls      *)
(* acquire() when every other one is dead gets the lock (unless a call to    *)
(* the file system fails, or it left a record itself), at whatever point of  *)
(* acquire() or release() they died and whatever had failed before.          *)
CrashedOwnerRecovered ==
  \A p \in Proc :
    (Sole(p) /\ pc[p] = "open" /\ attempt[p] = 0 /\ ~LeftBehind(p))
      ~> pc[p] \in {"held", "failed", "dead"}
=============================================================================
