---------------------------- MODULE WorkerClient ----------------------------
(***************************************************************************)
(* AnalyticsWorkerClient (packages/analytics/src/storage/client.ts), the   *)
(* worker it talks to (worker-entry.ts) and the collector leases in the    *)
(* database the workers share (schema.ts), one for each target, which is a *)
(* hash of the endpoint a client collects from (service.ts).               *)
(*                                                                         *)
(* An element of Client is one client with its worker, and names the close *)
(* request it makes.  A handler of the main thread runs to its end and     *)
(* with it the continuations of the promises it settles, so close() goes   *)
(* on in the step that lets it.  Messages are in order each way.  Time is  *)
(* abstract: an armed timer may fire at any moment.                        *)
(***************************************************************************)
EXTENDS Sequences, FiniteSets, Naturals

CONSTANTS
  Client,      \* the clients; each is also the name of its close request
  Operation,   \* the other requests, by what they ask for
  Target,      \* the target_keys
  TargetOf,    \* the target_key each client is created with
  MaxPending,  \* maxPending of the constructor (64 by default)
  None

Request == Operation \cup Client

ASSUME ConstAssumption ==
  /\ MaxPending \in Nat \ {0}
  /\ TargetOf \in [Client -> Target]
  /\ None \notin Request
  /\ Operation \cap Client = {}

VARIABLES
  client,  \* the clients and their workers
  lease,   \* collector_state.lease_owner, by target_key
  stored   \* the requests, with their client, whose transaction is committed

wvars == <<client, lease, stored>>

(* A message of the worker; an answer names its request. *)
Message == [type : {"ready", "fatal", "ok", "error"}, of : Request \cup {None}]

Ready     == [type |-> "ready", of |-> None]
Fatal     == [type |-> "fatal", of |-> None]
Answer(q) == [type |-> "ok", of |-> q]
Refuse(q) == [type |-> "error", of |-> q]

ClientState ==
  [state   : {"none", "starting", "ready", "failed", "closing", "closed", "crashed"},
   ready   : {"unsettled", "resolved", "rejected"},  \* readyPromise
   failed  : BOOLEAN,                                \* failure # undefined
   outcome : [Request -> {"none", "waiting", "ok", "error"}],
   outbox  : Seq(Request),
   inbox   : Seq(Request),   \* posted to the worker
   replies : Seq(Message),     \* posted by the worker
   worker  : {"none", "starting", "open", "ended", "dead", "gone"},
   close   : {"no", "ready", "drain", "answer", "terminate", "done"}]

(* close() awaits: the ready promise, the drain, the close request's answer,  *)
(* the end of the worker's thread.                                           *)

NoClient ==
  [state |-> "none", ready |-> "unsettled", failed |-> FALSE,
   outcome |-> [q \in Request |-> "none"], outbox |-> <<>>, inbox |-> <<>>,
   replies |-> <<>>, worker |-> "none", close |-> "no"]

ClientInit ==
  /\ client = [c \in Client |-> NoClient]
  /\ lease = [t \in Target |-> None]
  /\ stored = {}

LeaseOf(c) == lease[TargetOf[c]]

(* The keys of the map of pending requests. *)
Pending(r) == {q \in Request : r.outcome[q] = "waiting"}

-----------------------------------------------------------------------------
(* The main thread's side *)

(* rejectAll() *)
RejectAll(r) ==
  [r EXCEPT !.outcome = [q \in Request |-> IF r.outcome[q] = "waiting" THEN "error" ELSE r.outcome[q]],
            !.outbox = <<>>]

(* fail() *)
Fail(r) ==
  IF r.state \in {"failed", "closed"} THEN r
  ELSE RejectAll([r EXCEPT !.failed = TRUE, !.state = "failed",
                           !.ready = IF @ = "unsettled" THEN "rejected" ELSE @])

(* The finally block of close() up to its await. *)
Finish(r) == RejectAll([r EXCEPT !.state = "closed", !.close = "terminate"])

(* close() with the pending requests drained: unless the client failed, the   *)
(* worker is asked to close the database.                                    *)
AskClose(c, r) ==
  IF r.failed THEN Finish(r)
  ELSE [r EXCEPT !.outcome[c] = "waiting", !.inbox = Append(@, c), !.close = "answer"]

(* close() goes on as far as it can. *)
Resume(c, r) ==
  CASE r.close = "ready" /\ r.ready = "rejected" -> Finish(r)
    [] r.close \in {"ready", "drain"} /\ r.ready = "resolved" ->
         IF Pending(r) = {} THEN AskClose(c, r) ELSE [r EXCEPT !.close = "drain"]
    [] r.close = "answer" /\ r.outcome[c] # "waiting" -> Finish(r)
    [] OTHER -> r

Update(c, r) == client' = [client EXCEPT ![c] = Resume(c, r)]

(* The constructor. *)
Create(c) ==
  /\ client[c].state = "none"
  /\ client' = [client EXCEPT ![c].state = "starting", ![c].worker = "starting"]
  /\ UNCHANGED <<lease, stored>>

(* requestInternal() on behalf of a caller. *)
Requested(r, q) ==
  IF r.state \in {"failed", "closing", "closed"} \/ Cardinality(Pending(r)) >= MaxPending
    THEN [r EXCEPT !.outcome[q] = "error"]
  ELSE IF r.state = "ready"
    THEN [r EXCEPT !.outcome[q] = "waiting", !.inbox = Append(@, q)]
  ELSE [r EXCEPT !.outcome[q] = "waiting", !.outbox = Append(@, q)]

Send(c, q) ==
  /\ client[c].state \notin {"none", "crashed"}
  /\ client[c].outcome[q] = "none"
  /\ client' = [client EXCEPT ![c] = Requested(@, q)]
  /\ UNCHANGED <<lease, stored>>

(* removeFromOutbox() *)
Without(s, q) ==
  IF \E k \in 1..Len(s) : s[k] = q
    THEN LET k == CHOOSE k \in 1..Len(s) : s[k] = q
         IN SubSeq(s, 1, k - 1) \o SubSeq(s, k + 1, Len(s))
    ELSE s

(* Mutants of TimesOut: close() clears the timers; the drain is not notified. *)
TimesOutInUse(c, q) ==
  /\ client[c].outcome[q] = "waiting" /\ client[c].close = "no"
  /\ client' = [client EXCEPT ![c].outcome[q] = "error", ![c].outbox = Without(@, q)]
  /\ UNCHANGED <<lease, stored>>

TimesOutQuietly(c, q) ==
  /\ client[c].outcome[q] = "waiting"
  /\ client' = [client EXCEPT ![c].outcome[q] = "error", ![c].outbox = Without(@, q)]
  /\ UNCHANGED <<lease, stored>>

(* The timer of a request fires; the worker may still answer it. *)
TimesOut(c, q) ==
  /\ client[c].outcome[q] = "waiting"
  /\ Update(c, [client[c] EXCEPT !.outcome[q] = "error", !.outbox = Without(@, q)])
  /\ UNCHANGED <<lease, stored>>

ReadyTimesOut(c) ==
  /\ client[c].state \notin {"none", "crashed"}
  /\ client[c].ready = "unsettled"
  /\ Update(c, Fail(client[c]))
  /\ UNCHANGED <<lease, stored>>

Closed(r) == [r EXCEPT !.state = "closing", !.close = "ready"]

(* close(), called again it returns the same promise. *)
CloseClient(c) ==
  /\ client[c].state \notin {"none", "crashed"}
  /\ IF client[c].close = "no" THEN Update(c, Closed(client[c])) ELSE UNCHANGED client
  /\ UNCHANGED <<lease, stored>>

(* onMessage() *)
Received(r, m) ==
  CASE m.type = "ready" ->
         IF r.state \in {"starting", "closing"}
           THEN [r EXCEPT !.state = IF @ = "starting" THEN "ready" ELSE @,
                          !.ready = "resolved",
                          !.inbox = @ \o r.outbox, !.outbox = <<>>]
           ELSE r
    [] m.type = "fatal" -> Fail(r)
    [] OTHER ->
         IF r.outcome[m.of] = "waiting"
           THEN [r EXCEPT !.outcome[m.of] = m.type]
           ELSE r

Receive(c) ==
  /\ client[c].replies # <<>>
  /\ Update(c, Received([client[c] EXCEPT !.replies = Tail(@)], Head(client[c].replies)))
  /\ UNCHANGED <<lease, stored>>

(* The thread's end is reported after its last message: the "error" event of  *)
(* one that died fails the client, the "exit" event only one in use.         *)
Exited(c) ==
  /\ client[c].worker \in {"ended", "dead"}
  /\ client[c].replies = <<>>
  /\ LET r == [client[c] EXCEPT !.worker = "gone"]
     IN \/ client[c].worker = "dead" /\ Update(c, Fail(r))
        \/ Update(c, IF r.state \in {"closing", "closed", "failed"} THEN r ELSE Fail(r))
  /\ UNCHANGED <<lease, stored>>

(* Mutant of Terminated: the client's state is set instead. *)
TerminatedAsState(c) ==
  /\ client[c].close = "terminate"
  /\ client' = [client EXCEPT ![c].worker = "gone", ![c].inbox = <<>>,
                              ![c].replies = <<>>, ![c].state = "done"]
  /\ UNCHANGED <<lease, stored>>

(* worker.terminate() is done. *)
Terminated(c) ==
  /\ client[c].close = "terminate"
  /\ client' = [client EXCEPT ![c].worker = "gone", ![c].inbox = <<>>,
                              ![c].replies = <<>>, ![c].close = "done"]
  /\ UNCHANGED <<lease, stored>>

-----------------------------------------------------------------------------
(* The worker's side *)

Posts(c, m) == [client[c] EXCEPT !.replies = Append(@, m)]

(* Mutant of Opens: the lease is taken whoever holds it. *)
OpensAnyway(c) ==
  /\ client[c].worker = "starting"
  /\ lease' = [lease EXCEPT ![TargetOf[c]] = c]
  /\ client' = [client EXCEPT ![c] = [Posts(c, Ready) EXCEPT !.worker = "open"]]
  /\ UNCHANGED stored

(* The engine is constructed: acquireCollectorLease() finds its target's      *)
(* lease free.                                                               *)
Opens(c) ==
  /\ client[c].worker = "starting"
  /\ LeaseOf(c) = None
  /\ lease' = [lease EXCEPT ![TargetOf[c]] = c]
  /\ client' = [client EXCEPT ![c] = [Posts(c, Ready) EXCEPT !.worker = "open"]]
  /\ UNCHANGED stored

(* The lease is held, or the database cannot be opened; a lease taken before  *)
(* that shows is given back.                                                 *)
OpenFails(c) ==
  /\ client[c].worker = "starting"
  /\ client' = [client EXCEPT ![c] = [Posts(c, Fatal) EXCEPT !.worker = "ended"]]
  /\ UNCHANGED <<lease, stored>>

(* Mutant of Dispatch: the answer does not wait for the transaction. *)
DispatchUnawaited(c) ==
  /\ client[c].worker = "open"
  /\ client[c].inbox # <<>>
  /\ LET q == Head(client[c].inbox)
         r == [Posts(c, Answer(q)) EXCEPT !.inbox = Tail(@)]
     IN /\ stored' \in {stored, stored \cup {<<c, q>>}}
        /\ client' = [client EXCEPT ![c] = IF q = c THEN [r EXCEPT !.worker = "ended"] ELSE r]
        /\ lease' = IF q = c THEN [lease EXCEPT ![TargetOf[c]] = None] ELSE lease

(* Mutant of Dispatch: closing leaves the lease. *)
DispatchKeepsLease(c) ==
  /\ client[c].worker = "open"
  /\ client[c].inbox # <<>>
  /\ LET q == Head(client[c].inbox)
         r == [Posts(c, Answer(q)) EXCEPT !.inbox = Tail(@)]
     IN /\ stored' = stored \cup {<<c, q>>}
        /\ client' = [client EXCEPT ![c] = IF q = c THEN [r EXCEPT !.worker = "ended"] ELSE r]
        /\ lease' = lease

(* The next request is dispatched to the engine: its transaction commits, or  *)
(* it throws and is rolled back.  The close request releases the lease and   *)
(* ends the worker.                                                          *)
Dispatch(c) ==
  /\ client[c].worker = "open"
  /\ client[c].inbox # <<>>
  /\ LET q == Head(client[c].inbox)
         r(m) == [Posts(c, m) EXCEPT !.inbox = Tail(@)]
     IN \/ /\ stored' = stored \cup {<<c, q>>}
           /\ client' = [client EXCEPT ![c] =
                           IF q = c THEN [r(Answer(q)) EXCEPT !.worker = "ended"] ELSE r(Answer(q))]
           /\ lease' = IF q = c THEN [lease EXCEPT ![TargetOf[c]] = None] ELSE lease
        \/ /\ client' = [client EXCEPT ![c] = r(Refuse(q))]
           /\ UNCHANGED <<lease, stored>>

(* The worker's thread dies. *)
Dies(c) ==
  /\ client[c].worker \in {"starting", "open"}
  /\ client' = [client EXCEPT ![c].worker = "dead"]
  /\ UNCHANGED <<lease, stored>>

(* The host process dies, and the worker with it. *)
Crash(c) ==
  /\ client[c].state \notin {"none", "crashed"}
  /\ client' = [client EXCEPT ![c] = [NoClient EXCEPT !.state = "crashed"]]
  /\ UNCHANGED <<lease, stored>>

WorkerStep(c) == Opens(c) \/ OpenFails(c) \/ Dispatch(c) \/ Dies(c)

(* What happens to a client without a call of its owner. *)
Event(c) ==
  \/ WorkerStep(c)
  \/ Receive(c) \/ Exited(c) \/ Terminated(c) \/ ReadyTimesOut(c)
  \/ \E q \in Request : TimesOut(c, q)

ClientNext ==
  \E c \in Client :
    \/ Event(c) \/ Create(c) \/ CloseClient(c) \/ Crash(c)
    \/ \E q \in Operation : Send(c, q)

ClientSpec == ClientInit /\ [][ClientNext]_wvars

(* Timers fire, and terminate() ends a thread.  No worker has to answer. *)
FairClientSpec ==
  /\ ClientSpec
  /\ \A c \in Client :
       /\ WF_wvars(Terminated(c)) /\ WF_wvars(ReadyTimesOut(c))
       /\ \A q \in Request : WF_wvars(TimesOut(c, q))

-----------------------------------------------------------------------------
ClientTypeOK ==
  /\ client \in [Client -> ClientState]
  /\ lease \in [Target -> Client \cup {None}]
  /\ stored \subseteq Client \X Request

(* acquireCollectorLease(): "the one live collector lease for a target".      *)
(* Whatever crashes, timeouts and terminations leave behind, an engine that   *)
(* serves requests holds the lease of its target, so that no two of one      *)
(* target do.                                                                *)
EngineHoldsLease ==
  \A c \in Client : client[c].worker = "open" => LeaseOf(c) = c

(* security.md: "Exactly one managed runtime owner and one analytics collector*)
(* owner may be active for a resolved DSH_HOME".  No two engines serve on one *)
(* database.                                                                 *)
CollectorIsAlone ==
  \A c, d \in Client : client[c].worker = "open" /\ client[d].worker = "open" => c = d

(* A request that was answered with success is committed, also when it waited *)
(* in the outbox, timed out beside others or was answered while closing.     *)
AnsweredIsStored ==
  \A c \in Client, q \in Request :
    client[c].outcome[q] = "ok" => <<c, q>> \in stored

(* "releases its generation, and permits the next owner" (storage.test.ts):   *)
(* a client whose close request was answered holds its lease no more.        *)
CloseFreesLease ==
  \A c \in Client : client[c].outcome[c] = "ok" => LeaseOf(c) # c

(* Whatever becomes of the worker, a request settles and close() ends: even *)
(* a close() that waits for the answer of a worker that ended.              *)
EveryCallEnds ==
  \A c \in Client :
    /\ \A q \in Request :
         client[c].outcome[q] = "waiting" ~> client[c].outcome[q] # "waiting"
    /\ client[c].close # "no" ~> client[c].close = "done" \/ client[c].state = "crashed"
=============================================================================
