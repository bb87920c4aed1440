--------------------------- MODULE UsageCollector ---------------------------
(***************************************************************************)
(* The usage collection of the analytics plugin: GatewayAnalyticsService   *)
(* (packages/analytics/src/service.ts) with its HttpUsageCollector         *)
(* (pipeline/collector.ts), on top of WorkerClient.                        *)
(*                                                                         *)
(* Each element of Client is one instance of the plugin: the first one, one*)
(* after a restart, or one in another process on the same DSH home.  They  *)
(* share the database and the usage queue of the CPA server, which pops    *)
(* the items it answers with.  The plugin collects usage, in managed mode  *)
(* or opted in.                                                            *)
(***************************************************************************)
EXTENDS WorkerClient

CONSTANTS
  Item,     \* the usage items of the queue, each an ingest request
  Invalid,  \* those the projection turns into dead letters
  Batch     \* the most items one dequeue pops

ASSUME CollectorAssumption ==
  /\ Item \subseteq Operation /\ IsFiniteSet(Item)
  /\ Invalid \subseteq Item
  /\ Batch \in Nat \ {0}

VARIABLES
  service,  \* the plugin instances, with their collectors
  queue     \* the items the server holds

cvars == <<service, queue>>
vars  == <<client, lease, stored, service, queue>>

Service ==
  [init         : {"no", "key", "factory", "done", "failed", "off"},  \* initialize()
   disposed     : BOOLEAN,
   closing      : {"no", "collector", "cycle", "store", "done"},      \* close()
   cycle        : {"none", "armed", "dequeue", "ingest", "rest"},     \* timer, runCycle()
   asked        : Request \cup {None},  \* the request the cycle awaits
   batch        : SUBSET Item,          \* the popped items not yet dealt with
   latched      : BOOLEAN,
   availability : {"starting", "ready", "unavailable"},
   popped       : Nat,
   committed    : Nat,
   deadLetter   : Nat,
   lossPossible : Nat]

NewService ==
  [init |-> "no", disposed |-> FALSE, closing |-> "no", cycle |-> "none",
   asked |-> None, batch |-> {}, latched |-> FALSE, availability |-> "starting",
   popped |-> 0, committed |-> 0, deadLetter |-> 0, lossPossible |-> 0]

Init ==
  /\ ClientInit
  /\ service = [c \in Client |-> NewService]
  /\ queue = Item

Running(c) == client[c].state # "crashed"
Set(c, s)  == service' = [service EXCEPT ![c] = s]
Other      == Operation \ Item

-----------------------------------------------------------------------------
(* The service *)

(* start(), called first by the plugin, later by any remote. *)
Start(c) ==
  /\ service[c].init = "no"
  /\ Set(c, [service[c] EXCEPT !.init = IF service[c].disposed THEN "off" ELSE "key"])
  /\ UNCHANGED <<wvars, queue>>

(* initialize() has, or has not, got the installation key. *)
KeyFound(c) ==
  /\ service[c].init = "key"
  /\ \/ /\ service[c].disposed
        /\ Set(c, [service[c] EXCEPT !.init = "off"])
        /\ UNCHANGED wvars
     \/ /\ ~service[c].disposed
        /\ Set(c, [service[c] EXCEPT !.init = "factory"])
        /\ Create(c)
  /\ UNCHANGED queue

KeyFails(c) ==
  /\ service[c].init = "key"
  /\ Set(c, [service[c] EXCEPT !.init = "failed"])
  /\ UNCHANGED <<wvars, queue>>

(* Mutant of StoreCreated: initialize() does not look at disposed again. *)
StoreCreatedAnyway(c) ==
  /\ service[c].init = "factory" /\ Running(c)
  /\ Set(c, [service[c] EXCEPT !.init = "done", !.cycle = "armed"])
  /\ UNCHANGED <<wvars, queue>>

(* initialize() has the store: it closes it if close() came in between. *)
StoreCreated(c) ==
  /\ service[c].init = "factory" /\ Running(c)
  /\ \/ /\ service[c].disposed
        /\ Set(c, [service[c] EXCEPT !.init = "off"])
        /\ CloseClient(c)
     \/ /\ ~service[c].disposed
        /\ Set(c, [service[c] EXCEPT !.init = "done", !.cycle = "armed"])
        /\ UNCHANGED wvars
  /\ UNCHANGED queue

Polling(s) == s.cycle \in {"dequeue", "ingest"}

(* close() up to the race in dispose(). *)
Close(c) ==
  /\ ~service[c].disposed /\ Running(c)
  /\ LET s == service[c]
     IN Set(c, [s EXCEPT
          !.disposed = TRUE,
          !.cycle = IF @ = "armed" THEN "none" ELSE @,
          !.closing = IF Polling(s) THEN "collector" ELSE "cycle",
          !.availability = IF Polling(s) \/ s.init # "done" THEN @ ELSE "unavailable"])
  /\ UNCHANGED <<wvars, queue>>

(* The poll is done, or disposeTimeoutMs have passed. *)
CollectorDisposed(c) ==
  /\ service[c].closing = "collector" /\ Running(c)
  /\ Set(c, [service[c] EXCEPT !.closing = "cycle", !.availability = "unavailable"])
  /\ UNCHANGED <<wvars, queue>>

(* Mutant of CycleJoined: close() does not await the cycle. *)
CycleNotJoined(c) ==
  /\ service[c].closing = "cycle" /\ Running(c)
  /\ \/ /\ service[c].init = "done"
        /\ Set(c, [service[c] EXCEPT !.closing = "store"])
        /\ CloseClient(c)
     \/ /\ service[c].init # "done"
        /\ Set(c, [service[c] EXCEPT !.closing = "done"])
        /\ UNCHANGED wvars
  /\ UNCHANGED queue

(* The cycle is done: the store is closed, if there is one by now. *)
CycleJoined(c) ==
  /\ service[c].closing = "cycle" /\ Running(c)
  /\ service[c].cycle = "none"
  /\ \/ /\ service[c].init = "done"
        /\ Set(c, [service[c] EXCEPT !.closing = "store"])
        /\ CloseClient(c)
     \/ /\ service[c].init # "done"
        /\ Set(c, [service[c] EXCEPT !.closing = "done"])
        /\ UNCHANGED wvars
  /\ UNCHANGED queue

StoreClosed(c) ==
  /\ service[c].closing = "store"
  /\ client[c].close = "done"
  /\ Set(c, [service[c] EXCEPT !.closing = "done"])
  /\ UNCHANGED <<wvars, queue>>

(* status(), summary() and the other remotes, on the store there is. *)
Remote(c) ==
  /\ service[c].init = "done" /\ service[c].closing # "done" /\ Running(c)
  /\ \E q \in Other : Send(c, q)
  /\ UNCHANGED cvars

-----------------------------------------------------------------------------
(* The cycle *)

(* runCycle() after the poll. *)
Rest(s) == [s EXCEPT !.cycle = "rest", !.asked = None]

(* Mutants of PollFails: only the failed item is counted; nothing is latched. *)
PollFailsCountsOne(s) ==
  [s EXCEPT !.lossPossible = @ + 1, !.latched = TRUE, !.availability = "unavailable",
            !.batch = {}]

PollFailsUnlatched(s) ==
  [s EXCEPT !.lossPossible = @ + Cardinality(s.batch), !.availability = "degraded",
            !.batch = {}]

(* The failed item and the rest of the batch are possibly lost.  As that is   *)
(* latched, the availability "degraded" is never set.                        *)
PollFails(s) ==
  [s EXCEPT !.lossPossible = @ + Cardinality(s.batch), !.latched = TRUE,
            !.availability = "unavailable", !.batch = {}]

(* executePoll() ends without loss, also after dispose() gave up on it. *)
PollEnds(s) == [s EXCEPT !.availability = "ready"]

(* The next item of the batch is ingested. *)
Ingest(c, s) ==
  \E i \in s.batch : /\ Send(c, i)
                     /\ Set(c, [s EXCEPT !.cycle = "ingest", !.asked = i])

(* Mutant of Cycle: the latch is not looked at. *)
CycleAnyway(c) ==
  /\ service[c].cycle = "armed" /\ Running(c)
  /\ Set(c, [service[c] EXCEPT !.cycle = "dequeue"])
  /\ UNCHANGED <<wvars, queue>>

(* The timer fires: poll() does nothing once latched. *)
Cycle(c) ==
  /\ service[c].cycle = "armed" /\ Running(c)
  /\ Set(c, IF service[c].latched THEN Rest(service[c])
            ELSE [service[c] EXCEPT !.cycle = "dequeue"])
  /\ UNCHANGED <<wvars, queue>>

Batches == {b \in SUBSET queue : Cardinality(b) <= Batch}

(* dequeueUsage() answers with the items the server popped. *)
Dequeued(c) ==
  /\ service[c].cycle = "dequeue" /\ Running(c)
  /\ ~service[c].disposed
  /\ \E b \in Batches :
       LET s == [service[c] EXCEPT !.popped = @ + Cardinality(b), !.batch = b]
       IN /\ queue' = queue \ b
          /\ \/ b # {} /\ Ingest(c, s)
             \/ b = {} /\ Set(c, Rest(PollEnds(s))) /\ UNCHANGED wvars

(* It is aborted, times out or is answered with something malformed, whatever *)
(* the server popped.                                                        *)
DequeueFails(c) ==
  /\ service[c].cycle = "dequeue" /\ Running(c)
  /\ \E b \in Batches : queue' = queue \ b
  /\ Set(c, Rest([service[c] EXCEPT !.availability = "unavailable"]))
  /\ UNCHANGED wvars

Counted(s, i) ==
  IF i \in Invalid THEN [s EXCEPT !.batch = @ \ {i}, !.deadLetter = @ + 1]
  ELSE [s EXCEPT !.batch = @ \ {i}, !.committed = @ + 1]

(* The request for an item has settled. *)
Ingested(c) ==
  /\ service[c].cycle = "ingest" /\ Running(c)
  /\ LET s == service[c]
         i == s.asked
         t == Counted(s, i)
     IN \/ /\ client[c].outcome[i] = "error"
           /\ Set(c, Rest(PollFails(s))) /\ UNCHANGED wvars
        \/ client[c].outcome[i] = "ok" /\ t.batch # {} /\ Ingest(c, t)
        \/ /\ client[c].outcome[i] = "ok" /\ t.batch = {}
           /\ Set(c, Rest(PollEnds(t))) /\ UNCHANGED wvars
  /\ UNCHANGED queue

Settled(c) ==
  service[c].asked # None => client[c].outcome[service[c].asked] # "waiting"

(* A snapshot of account health or quota, or the maintenance, is asked for;   *)
(* a disposed service may still do that.                                     *)
Snapshot(c) ==
  /\ service[c].cycle = "rest" /\ Running(c)
  /\ Settled(c)
  /\ \E q \in Other : Send(c, q) /\ Set(c, [service[c] EXCEPT !.asked = q])
  /\ UNCHANGED queue

(* The cycle ends, and the next one is scheduled unless the service is        *)
(* disposed.                                                                 *)
CycleEnds(c) ==
  /\ service[c].cycle = "rest" /\ Running(c)
  /\ Settled(c)
  /\ Set(c, [service[c] EXCEPT !.cycle = IF service[c].disposed THEN "none" ELSE "armed",
                               !.asked = None])
  /\ UNCHANGED <<wvars, queue>>

-----------------------------------------------------------------------------
(* What the client and the worker do by themselves, and the crash. *)
Background(c) == (Event(c) \/ Crash(c)) /\ UNCHANGED cvars

Next ==
  \E c \in Client :
    \/ Start(c) \/ KeyFound(c) \/ KeyFails(c) \/ StoreCreated(c)
    \/ Close(c) \/ CollectorDisposed(c) \/ CycleJoined(c) \/ StoreClosed(c) \/ Remote(c)
    \/ Cycle(c) \/ Dequeued(c) \/ DequeueFails(c) \/ Ingested(c)
    \/ Snapshot(c) \/ CycleEnds(c)
    \/ Background(c)

Spec == Init /\ [][Next]_vars

(* A key lookup ends, and so does a dequeue, which has a timeout; timers fire *)
(* and a call whose await has settled goes on.                               *)
FairSpec ==
  /\ Spec
  /\ \A c \in Client :
       /\ WF_vars(KeyFound(c)) /\ WF_vars(StoreCreated(c))
       /\ WF_vars(CollectorDisposed(c)) /\ WF_vars(CycleJoined(c)) /\ WF_vars(StoreClosed(c))
       /\ WF_vars(DequeueFails(c)) /\ WF_vars(Ingested(c)) /\ WF_vars(CycleEnds(c))
       /\ WF_vars(Terminated(c) /\ UNCHANGED cvars)
       /\ WF_vars(ReadyTimesOut(c) /\ UNCHANGED cvars)
       /\ \A q \in Request : WF_vars(TimesOut(c, q) /\ UNCHANGED cvars)

-----------------------------------------------------------------------------
TypeOK ==
  /\ ClientTypeOK
  /\ service \in [Client -> Service]
  /\ queue \subseteq Item

(* Between two polls every item received is in exactly one of the counters,   *)
(* wherever in the batch an ingest failed and whenever dispose() came.        *)
EveryItemCounted ==
  \A c \in Client :
    LET s == service[c]
    IN s.popped = s.committed + s.deadLetter + s.lossPossible + Cardinality(s.batch)

(* "exposes post-pop loss" (pipeline.test.ts): of the items an instance has   *)
(* received, at least those not in the database are possibly lost, or still  *)
(* to be ingested.  A request that timed out may be in both.                 *)
NoSilentLoss ==
  \A c \in Client :
    LET s == service[c]
        kept == {i \in Item : <<c, i>> \in stored}
    IN Running(c) =>
         s.popped <= Cardinality(kept) + s.lossPossible + Cardinality(s.batch)

(* analytics-data-model.md: "A post-pop write failure latches collection      *)
(* unavailable until plugin restart".                                        *)
LatchHolds ==
  [][\A c \in Client : service[c].lossPossible > 0 =>
       /\ service'[c].popped = service[c].popped
       /\ service'[c].availability = "unavailable"]_vars

(* A service that has closed has no cycle underway, and its store is closed   *)
(* or will be by the initialize() that is still creating it.                 *)
ClosedIsQuiet ==
  \A c \in Client : service[c].closing = "done" /\ Running(c) =>
    /\ service[c].cycle = "none"
    /\ \/ client[c].close # "no"
       \/ client[c].state = "none"
       \/ service[c].init = "factory"

(* close() of the service ends, whatever becomes of the worker. *)
ServiceCloses ==
  \A c \in Client :
    service[c].closing # "no" ~> service[c].closing = "done" \/ ~Running(c)

(* analytics-data-model.md: "a competing owner fails before queue             *)
(* consumption".  No instance takes items off the queue while another one    *)
(* holds the lease.                                                          *)
CompetitorConsumesNothing ==
  [][\A c \in Client :
       service'[c].popped > service[c].popped => LeaseOf(c) \in {c, None}]_vars
=============================================================================
