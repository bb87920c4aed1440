------------------------ MODULE UsageCollectorProofs ------------------------
(***************************************************************************)
(* Proofs about UsageCollector: what it counts, latches and leaves behind, *)
(* for any number of plugin instances, any queue and any batches.          *)
(***************************************************************************)
EXTENDS UsageCollector, WorkerClientProofs, FiniteSetTheorems

Alive(r) == r.state \notin {"none", "crashed"}

(* What a client does by itself: it settles requests that wait, and a close   *)
(* is never undone.                                                          *)
Moves(r, s) ==
  /\ Alive(s)
  /\ s.close = "no" => r.close = "no"
  /\ \A q \in Operation :
       \/ s.outcome[q] = r.outcome[q]
       \/ r.outcome[q] = "waiting" /\ s.outcome[q] \in {"ok", "error"}

LEMMA RejectAllMoves ==
  ASSUME NEW r \in ClientState, Alive(r)
  PROVE  Moves(r, RejectAll(r))
BY DEF RejectAll, Moves, ClientState, Request, Alive

LEMMA FailMoves ==
  ASSUME NEW r \in ClientState, Alive(r)
  PROVE  Moves(r, Fail(r))
<1>1. CASE r.state \in {"failed", "closed"}
  BY <1>1 DEF Fail, Moves
<1>2. CASE r.state \notin {"failed", "closed"}
  <2> DEFINE s == [r EXCEPT !.failed = TRUE, !.state = "failed",
                            !.ready = IF @ = "unsettled" THEN "rejected" ELSE @]
  <2>1. /\ s \in ClientState /\ Alive(s)
        /\ s.outcome = r.outcome /\ s.close = r.close
    BY DEF ClientState, Alive
  <2>2. Fail(r) = RejectAll(s)
    BY <1>2 DEF Fail
  <2> HIDE DEF s
  <2> QED BY <2>1, <2>2, RejectAllMoves DEF Moves
<1> QED BY <1>1, <1>2

LEMMA FinishMoves ==
  ASSUME NEW r \in ClientState
  PROVE  Moves(r, Finish(r))
<1> DEFINE s == [r EXCEPT !.state = "closed", !.close = "terminate"]
<1>1. /\ s \in ClientState /\ Alive(s)
      /\ s.outcome = r.outcome /\ s.close = "terminate"
  BY DEF ClientState, Alive
<1>2. Finish(r) = RejectAll(s)
  BY DEF Finish
<1> HIDE DEF s
<1> QED BY <1>1, <1>2, RejectAllMoves DEF Moves

LEMMA AskCloseMoves ==
  ASSUME NEW c \in Client, NEW r \in ClientState, Alive(r)
  PROVE  Moves(r, AskClose(c, r))
<1>1. CASE r.failed
  BY <1>1, FinishMoves DEF AskClose
<1>2. CASE ~r.failed
  <2> DEFINE o == [r.outcome EXCEPT ![c] = "waiting"]
             i == Append(r.inbox, c)
  <2>1. \A q \in Operation : o[q] = r.outcome[q]
    BY ConstAssumption DEF ClientState, Request
  <2>2. AskClose(c, r) = [r EXCEPT !.outcome = o, !.inbox = i, !.close = "answer"]
    BY <1>2 DEF AskClose
  <2> HIDE DEF o, i
  <2> QED BY <2>1, <2>2 DEF Moves, ClientState, Alive
<1> QED BY <1>1, <1>2

LEMMA ResumeMoves ==
  ASSUME NEW c \in Client, NEW r \in ClientState, Alive(r)
  PROVE  Moves(r, Resume(c, r))
<1>1. CASE r.close = "ready" /\ r.ready = "rejected"
  BY <1>1, FinishMoves DEF Resume
<1>2. CASE r.close \in {"ready", "drain"} /\ r.ready = "resolved"
  <2>1. CASE Pending(r) = {}
    BY <1>2, <2>1, AskCloseMoves DEF Resume
  <2>2. CASE Pending(r) # {}
    <3>1. Moves(r, [r EXCEPT !.close = "drain"])
      BY DEF Moves, ClientState, Alive
    <3> QED BY <1>2, <2>2, <3>1 DEF Resume
  <2> QED BY <2>1, <2>2
<1>3. CASE r.close = "answer" /\ r.outcome[c] # "waiting"
  BY <1>3, FinishMoves DEF Resume
<1>4. CASE /\ ~(r.close = "ready" /\ r.ready = "rejected")
            /\ ~(r.close \in {"ready", "drain"} /\ r.ready = "resolved")
            /\ ~(r.close = "answer" /\ r.outcome[c] # "waiting")
  <2>1. Resume(c, r) = r
    BY <1>4 DEF Resume
  <2> QED BY <2>1 DEF Moves
<1> QED BY <1>1, <1>2, <1>3, <1>4

LEMMA UpdateMoves ==
  ASSUME ClientTypeOK, NEW c \in Client, NEW r, NEW s \in ClientState,
         Moves(r, s), Update(c, s)
  PROVE  Moves(r, client'[c]) /\ \A d \in Client \ {c} : client'[d] = client[d]
<1>1. Moves(s, Resume(c, s))
  BY ResumeMoves DEF Moves
<1>2. client'[c] = Resume(c, s) /\ \A d \in Client \ {c} : client'[d] = client[d]
  BY DEF Update, ClientTypeOK
<1> QED BY <1>1, <1>2 DEF Moves

(* One step of client c, and what it does to the requests. *)
StepOf(c) == Moves(client[c], client'[c]) /\ \A d \in Client \ {c} : client'[d] = client[d]

LEMMA ReceiveStepOf ==
  ASSUME IInv, NEW c \in Client, Receive(c)
  PROVE  Alive(client[c]) /\ StepOf(c)
<1> DEFINE r == client[c]
           m == Head(r.replies)
           t == [r EXCEPT !.replies = Tail(@)]
           s == Received(t, m)
<1>1. ClientTypeOK /\ r \in ClientState /\ r.replies # <<>> /\ Safe(c, r, lease, stored)
  BY DEF IInv, ClientTypeOK, Receive
<1>2. Alive(r)
  BY <1>1 DEF Safe, NoClient, Alive
<1>3. m \in Message /\ Tail(r.replies) \in Seq(Message)
  BY <1>1 DEF ClientState
<1>4. /\ t \in ClientState /\ Alive(t)
      /\ t.outcome = r.outcome /\ t.close = r.close
  BY <1>1, <1>2, <1>3 DEF ClientState, Alive
<1>5. Update(c, s)
  BY DEF Receive
<1> HIDE DEF t, m
<1>6. s \in ClientState /\ Moves(t, s)
  <2>1. CASE m.type = "ready" /\ t.state \in {"starting", "closing"}
    <3> DEFINE b == t.inbox \o t.outbox
               a == IF t.state = "starting" THEN "ready" ELSE t.state
    <3>1. b \in Seq(Request) /\ <<>> \in Seq(Request) /\ a \in {"ready", "closing"}
      BY <1>4, <2>1 DEF ClientState
    <3>2. s = [t EXCEPT !.state = a, !.ready = "resolved", !.inbox = b, !.outbox = <<>>]
      BY <2>1 DEF Received
    <3> HIDE DEF a, b, s
    <3> QED BY <1>4, <3>1, <3>2 DEF ClientState, Moves, Alive
  <2>2. CASE m.type = "ready" /\ t.state \notin {"starting", "closing"}
    BY <1>4, <2>2 DEF Received, Moves
  <2>3. CASE m.type = "fatal"
    BY <1>4, <2>3, FailMoves, FailQuiet DEF Received, Quiet, Alive
  <2>4. CASE m.type \in {"ok", "error"}
    <3>1. CASE t.outcome[m.of] = "waiting"
      <4> DEFINE o == [t.outcome EXCEPT ![m.of] = m.type]
      <4>1. s = [t EXCEPT !.outcome = o]
        BY <2>4, <3>1 DEF Received
      <4>2. o \in [Request -> {"none", "waiting", "ok", "error"}]
        BY <1>4, <2>4 DEF ClientState
      <4>3. \A q \in Operation : o[q] = t.outcome[q] \/ (q = m.of /\ o[q] \in {"ok", "error"})
        BY <1>4, <2>4 DEF ClientState, Request
      <4> HIDE DEF o, s
      <4> QED BY <1>4, <3>1, <4>1, <4>2, <4>3 DEF ClientState, Moves, Alive
    <3>2. CASE t.outcome[m.of] # "waiting"
      BY <1>4, <2>4, <3>2 DEF Received, Moves
    <3> QED BY <3>1, <3>2
  <2> QED BY <1>3, <2>1, <2>2, <2>3, <2>4 DEF Message
<1> HIDE DEF s
<1>7. Moves(r, s)
  BY <1>4, <1>6 DEF Moves
<1> QED BY <1>1, <1>2, <1>5, <1>6, <1>7, UpdateMoves DEF StepOf

LEMMA TimesOutStepOf ==
  ASSUME IInv, NEW c \in Client, NEW q \in Request, TimesOut(c, q)
  PROVE  Alive(client[c]) /\ StepOf(c)
<1> DEFINE r == client[c]
           o == [r.outcome EXCEPT ![q] = "error"]
           b == Without(r.outbox, q)
           s == [r EXCEPT !.outcome = o, !.outbox = b]
<1>1. /\ ClientTypeOK /\ r \in ClientState /\ r.outcome[q] = "waiting" /\ Alive(r)
  BY DEF IInv, ClientTypeOK, TimesOut, Safe, NoClient, Alive
<1>2. /\ o \in [Request -> {"none", "waiting", "ok", "error"}]
      /\ \A p \in Operation : o[p] = r.outcome[p] \/ (p = q /\ o[p] = "error")
  BY <1>1 DEF ClientState, Request
<1>3. b \in Seq(Request)
  BY <1>1, WithoutType DEF ClientState
<1>4. Update(c, s)
  BY DEF TimesOut
<1>5. s \in ClientState /\ Moves(r, s)
  <2> HIDE DEF r, o, b
  <2>1. /\ s \in ClientState /\ s.outcome = o /\ s.close = r.close /\ s.state = r.state
    BY <1>1, <1>2, <1>3 DEF ClientState
  <2> HIDE DEF s
  <2> QED BY <1>1, <1>2, <2>1 DEF Moves, Alive
<1> HIDE DEF s
<1> QED BY <1>1, <1>4, <1>5, UpdateMoves DEF StepOf

LEMMA ExitedStepOf ==
  ASSUME IInv, NEW c \in Client, Exited(c)
  PROVE  Alive(client[c]) /\ StepOf(c)
<1> DEFINE r == [client[c] EXCEPT !.worker = "gone"]
<1>1. ClientTypeOK /\ client[c] \in ClientState /\ Alive(client[c])
  BY DEF IInv, ClientTypeOK, Exited, Safe, NoClient, Alive
<1>2. /\ r \in ClientState /\ Alive(r) /\ Moves(client[c], r)
  BY <1>1 DEF ClientState, Moves, Alive
<1>3. Update(c, Fail(r)) \/ Update(c, r)
  BY DEF Exited
<1> HIDE DEF r
<1>4. Fail(r) \in ClientState /\ Moves(r, Fail(r))
  BY <1>2, FailMoves, FailQuiet DEF Quiet, Alive
<1>5. Moves(client[c], Fail(r))
  BY <1>2, <1>4 DEF Moves
<1> QED BY <1>1, <1>2, <1>3, <1>4, <1>5, UpdateMoves DEF StepOf

LEMMA CloseClientStepOf ==
  ASSUME IInv, NEW c \in Client, CloseClient(c)
  PROVE  Alive(client[c]) /\ StepOf(c) /\ client'[c].close # "no"
<1>1. ClientTypeOK /\ client[c] \in ClientState /\ Alive(client[c])
  BY DEF IInv, ClientTypeOK, CloseClient, Alive
<1>2. CASE client[c].close = "no"
  <2> DEFINE s == Closed(client[c])
  <2>1. s \in ClientState /\ Moves(client[c], s) /\ s.close # "no" /\ Alive(s)
    BY <1>1 DEF Closed, Moves, ClientState, Alive
  <2>2. Update(c, s)
    BY <1>2 DEF CloseClient
  <2> HIDE DEF s
  <2>3. Moves(s, s)
    BY <2>1 DEF Moves
  <2>4. StepOf(c) /\ Moves(s, client'[c])
    BY <1>1, <2>1, <2>2, <2>3, UpdateMoves DEF StepOf
  <2> QED BY <1>1, <2>1, <2>4 DEF Moves
<1>3. CASE client[c].close # "no"
  BY <1>1, <1>3 DEF CloseClient, StepOf, Moves
<1> QED BY <1>2, <1>3

LEMMA EventStepOf ==
  ASSUME IInv, NEW c \in Client, Event(c)
  PROVE  Alive(client[c]) /\ StepOf(c)
<1>1. ClientTypeOK /\ client[c] \in ClientState
      /\ Message \cap {Ready, Fatal} = {Ready, Fatal}
  BY DEF IInv, ClientTypeOK, Message, Ready, Fatal
<1>2. CASE Opens(c) \/ OpenFails(c)
  <2>1. PICK m \in {Ready, Fatal}, w \in {"open", "ended"} :
          client' = [client EXCEPT ![c] = [Posts(c, m) EXCEPT !.worker = w]]
    BY <1>2 DEF Opens, OpenFails
  <2> DEFINE p == Posts(c, m)
  <2>2. Alive(client[c])
    BY <1>2 DEF Opens, OpenFails, IInv, Safe, NoClient, Alive
  <2>3. /\ p \in ClientState /\ p.state = client[c].state
        /\ p.outcome = client[c].outcome /\ p.close = client[c].close
    BY <1>1, PostsTold DEF Posts, ClientState
  <2>4. client'[c] = [p EXCEPT !.worker = w] /\ \A d \in Client \ {c} : client'[d] = client[d]
    BY <1>1, <2>1 DEF ClientTypeOK
  <2> HIDE DEF p
  <2> QED BY <2>2, <2>3, <2>4 DEF StepOf, Moves, Alive, ClientState
<1>3. CASE Dispatch(c)
  <2> DEFINE q == Head(client[c].inbox)
             r(m) == [Posts(c, m) EXCEPT !.inbox = Tail(@)]
  <2>1. Alive(client[c]) /\ q \in Request
    <3>1. client[c].worker = "open" /\ client[c].inbox # <<>> /\ client[c].inbox \in Seq(Request)
      BY <1>1, <1>3 DEF Dispatch, ClientState
    <3>2. Alive(client[c])
      BY <3>1 DEF IInv, Safe, NoClient, Alive
    <3> QED BY <3>1, <3>2
  <2>2. Answer(q) \in Message /\ Refuse(q) \in Message
    BY <2>1 DEF Answer, Refuse, Message
  <2>3. ASSUME NEW m \in Message
        PROVE  /\ Posts(c, m) \in ClientState /\ Posts(c, m).state = client[c].state
               /\ Posts(c, m).outcome = client[c].outcome
               /\ Posts(c, m).close = client[c].close
    BY <1>1, PostsTold DEF Posts, ClientState
  <2>4. ASSUME NEW m \in Message
        PROVE  /\ DOMAIN r(m) = DOMAIN Posts(c, m) /\ r(m).state = client[c].state
               /\ r(m).outcome = client[c].outcome /\ r(m).close = client[c].close
    <3> DEFINE p == Posts(c, m)
    <3>1. /\ p \in ClientState /\ p.state = client[c].state
          /\ p.outcome = client[c].outcome /\ p.close = client[c].close
      BY <2>3
    <3>2. r(m) = [p EXCEPT !.inbox = Tail(@)]
      OBVIOUS
    <3> HIDE DEF p, r
    <3>3. /\ DOMAIN r(m) = DOMAIN p /\ r(m).state = p.state
          /\ r(m).outcome = p.outcome /\ r(m).close = p.close
      BY <3>1, <3>2 DEF ClientState
    <3> QED BY <3>1, <3>3 DEF p
  <2>5. \/ client' = [client EXCEPT ![c] = r(Refuse(q))]
        \/ client' = [client EXCEPT ![c] = r(Answer(q))]
        \/ client' = [client EXCEPT ![c] = [r(Answer(q)) EXCEPT !.worker = "ended"]]
    BY <1>3 DEF Dispatch
  <2> HIDE DEF r, q
  <2>6. [r(Answer(q)) EXCEPT !.worker = "ended"].state = client[c].state
        /\ [r(Answer(q)) EXCEPT !.worker = "ended"].outcome = client[c].outcome
        /\ [r(Answer(q)) EXCEPT !.worker = "ended"].close = client[c].close
    <3> DEFINE a == r(Answer(q))
               p == Posts(c, Answer(q))
    <3>1. /\ p \in ClientState /\ DOMAIN a = DOMAIN p /\ a.state = client[c].state
          /\ a.outcome = client[c].outcome /\ a.close = client[c].close
      BY <2>2, <2>3, <2>4
    <3> HIDE DEF a, p
    <3>2. {"state", "outcome", "close", "worker"} \subseteq DOMAIN a
      BY <3>1 DEF ClientState
    <3>3. /\ [a EXCEPT !.worker = "ended"].state = a.state
          /\ [a EXCEPT !.worker = "ended"].outcome = a.outcome
          /\ [a EXCEPT !.worker = "ended"].close = a.close
      BY <3>2
    <3> QED BY <3>1, <3>3 DEF a
  <2>7. /\ client'[c].state = client[c].state /\ client'[c].outcome = client[c].outcome
        /\ client'[c].close = client[c].close
        /\ \A d \in Client \ {c} : client'[d] = client[d]
    BY <1>1, <2>2, <2>4, <2>5, <2>6 DEF ClientTypeOK
  <2> QED BY <2>1, <2>7 DEF StepOf, Moves, Alive
<1>4. CASE Dies(c)
  <2>1. Alive(client[c])
    BY <1>4 DEF Dies, IInv, Safe, NoClient, Alive
  <2> QED BY <1>1, <1>4, <2>1 DEF Dies, StepOf, Moves, Alive, ClientState, ClientTypeOK
<1>5. CASE Terminated(c)
  <2>1. Alive(client[c])
    BY <1>5 DEF Terminated, IInv, Safe, NoClient, Alive
  <2>2. /\ client'[c].state = client[c].state /\ client'[c].outcome = client[c].outcome
        /\ client'[c].close = "done"
        /\ \A d \in Client \ {c} : client'[d] = client[d]
    BY <1>1, <1>5 DEF Terminated, ClientState, ClientTypeOK
  <2> QED BY <2>1, <2>2 DEF StepOf, Moves, Alive
<1>6. CASE ReadyTimesOut(c)
  <2>1. Alive(client[c])
    BY <1>6 DEF ReadyTimesOut, Alive
  <2>2. Fail(client[c]) \in ClientState /\ Moves(client[c], Fail(client[c]))
    BY <1>1, <2>1, FailMoves, FailQuiet DEF Quiet, Alive
  <2> QED BY <1>1, <1>6, <2>1, <2>2, UpdateMoves DEF ReadyTimesOut, StepOf
<1> QED BY <1>2, <1>3, <1>4, <1>5, <1>6, ReceiveStepOf, ExitedStepOf, TimesOutStepOf
     DEF Event, WorkerStep

LEMMA SendStepOf ==
  ASSUME ClientTypeOK, NEW c \in Client, NEW q \in Operation, Send(c, q)
  PROVE  /\ Alive(client[c]) /\ client[c].outcome[q] = "none"
         /\ client'[c].state = client[c].state /\ client'[c].close = client[c].close
         /\ client'[c].outcome[q] \in {"waiting", "error"}
         /\ \A p \in Operation \ {q} : client'[c].outcome[p] = client[c].outcome[p]
         /\ \A d \in Client \ {c} : client'[d] = client[d]
<1> DEFINE r == client[c]
           o(v) == [r.outcome EXCEPT ![q] = v]
<1>1. r \in ClientState /\ Alive(r) /\ r.outcome[q] = "none" /\ q \in Request
  BY DEF ClientTypeOK, Send, Alive, Request
<1>2. ASSUME NEW v
      PROVE  /\ o(v)[q] = v
             /\ \A p \in Operation \ {q} : o(v)[p] = r.outcome[p]
  BY <1>1 DEF ClientState, Request
<1>3. \/ Requested(r, q) = [r EXCEPT !.outcome = o("error")]
      \/ Requested(r, q) = [r EXCEPT !.outcome = o("waiting"), !.inbox = Append(r.inbox, q)]
      \/ Requested(r, q) = [r EXCEPT !.outcome = o("waiting"), !.outbox = Append(r.outbox, q)]
  BY DEF Requested
<1>4. client'[c] = Requested(r, q) /\ \A d \in Client \ {c} : client'[d] = client[d]
  BY DEF Send, ClientTypeOK
<1> HIDE DEF o, r
<1>5. /\ Requested(r, q).state = r.state /\ Requested(r, q).close = r.close
      /\ Requested(r, q).outcome \in {o("error"), o("waiting")}
  BY <1>1, <1>3 DEF ClientState
<1> QED BY <1>1, <1>2, <1>4, <1>5 DEF r

-----------------------------------------------------------------------------
(* The items whose ingest request succeeded. *)
Done(r) == {i \in Item : r.outcome[i] = "ok"}

(* The life of a service, s, with its client, r. *)
Life(s, r) ==
  /\ s.closing # "no" => s.disposed
  /\ s.init # "done" \/ s.closing \in {"store", "done"} => s.cycle = "none"
  /\ s.init \in {"no", "key", "failed"} => r.state = "none"
  /\ s.init = "off" \/ (s.init = "done" /\ s.closing \in {"store", "done"})
       => r.close # "no" \/ r.state \in {"none", "crashed"}

(* The counters of a collector. *)
Count(s) ==
  /\ s.popped = s.committed + s.deadLetter + s.lossPossible + Cardinality(s.batch)
  /\ s.batch # {} => s.cycle = "ingest"
  /\ s.cycle = "ingest" => s.asked \in s.batch

(* The latch. *)
Latch(s) ==
  /\ s.lossPossible > 0 => s.latched
  /\ s.latched => s.availability = "unavailable" /\ ~Polling(s)

(* The items of a collector, with the client r and Q left in the queue.  Only *)
(* the item that is awaited may be underway; the others of the batch were not *)
(* asked for, and those that are counted as kept were answered with success. *)
Items(s, r, Q) ==
  /\ s.batch \cap Q = {}
  /\ r.state # "crashed" =>
       /\ \A i \in Item : r.outcome[i] = "waiting" => i \in s.batch
       /\ \A i \in Item : r.outcome[i] # "none" => i \notin Q /\ (i \in s.batch => i = s.asked)
       /\ s.committed + s.deadLetter = Cardinality(Done(r) \ s.batch)

Good(c) ==
  /\ Life(service[c], client[c])
  /\ Count(service[c])
  /\ Latch(service[c])
  /\ Items(service[c], client[c], queue)

CInv ==
  /\ IInv
  /\ TypeOK
  /\ \A c \in Client : Good(c)

(* A step of instance c whose effect on its client is one of its steps. *)
LEMMA InstanceStep ==
  ASSUME CInv, NEW c \in Client, NEW s \in Service,
         service' = [service EXCEPT ![c] = s], queue' \subseteq queue,
         [ClientNext]_wvars, \A d \in Client \ {c} : client'[d] = client[d],
         Life(s, client'[c]), Count(s), Latch(s), Items(s, client'[c], queue')
  PROVE  CInv'
<1>1. IInv'
  BY NextIInv DEF CInv
<1>2. TypeOK'
  BY <1>1 DEF CInv, TypeOK, IInv
<1>3. Good(c)'
  BY DEF Good, CInv, TypeOK
<1>4. ASSUME NEW d \in Client, d # c PROVE Good(d)'
  <2>1. service'[d] = service[d] /\ client'[d] = client[d] /\ Good(d)
    BY <1>4 DEF CInv, TypeOK
  <2>2. Items(service[d], client[d], queue')
    BY <2>1 DEF Good, Items
  <2> QED BY <2>1, <2>2 DEF Good
<1> QED BY <1>1, <1>2, <1>3, <1>4 DEF CInv

(* Two states of a service that agree on the batch and on the counters. *)
SameCounts(s, t) ==
  /\ t.batch = s.batch
  /\ t.committed = s.committed /\ t.deadLetter = s.deadLetter
  /\ t.popped = s.popped /\ t.lossPossible = s.lossPossible /\ t.latched = s.latched

(* Nothing that concerns the items changes but what leaves the queue. *)
LEMMA ItemsKept ==
  ASSUME NEW s, NEW t, NEW r, NEW q, NEW Q, NEW P, Items(s, r, Q), P \subseteq Q,
         SameCounts(s, t), t.batch # {} => t.asked = s.asked,
         q.state # "crashed" => r.state # "crashed",
         \A i \in Item : q.outcome[i] = r.outcome[i]
  PROVE  Items(t, q, P)
<1>1. Done(q) = Done(r)
  BY DEF Done
<1> QED BY <1>1 DEF Items, SameCounts

(* The client settles requests. *)
LEMMA ItemsMoved ==
  ASSUME NEW s, NEW t, NEW r, NEW q, NEW Q, Items(s, r, Q),
         SameCounts(s, t), t.batch # {} => t.asked = s.asked,
         Alive(r), Moves(r, q)
  PROVE  Items(t, q, Q)
<1>1. r.state # "crashed"
  BY DEF Alive
<1>2. \A i \in Item : \/ q.outcome[i] = r.outcome[i]
                      \/ r.outcome[i] = "waiting" /\ q.outcome[i] \in {"ok", "error"}
  BY CollectorAssumption DEF Moves
<1>3. Done(q) \ s.batch = Done(r) \ s.batch
  BY <1>1, <1>2 DEF Done, Items
<1> QED BY <1>1, <1>2, <1>3 DEF Items, SameCounts

LEMMA CountKept ==
  ASSUME NEW s, NEW t, Count(s), SameCounts(s, t),
         t.batch # {} => t.asked = s.asked /\ t.cycle = "ingest",
         t.cycle = "ingest" => t.batch # {}
  PROVE  Count(t)
BY DEF Count, SameCounts

(* A step that leaves the client, the batch and the counters alone. *)
LEMMA PlainStep ==
  ASSUME CInv, NEW c \in Client, NEW s \in Service,
         service' = [service EXCEPT ![c] = s], queue' \subseteq queue,
         UNCHANGED wvars, SameCounts(service[c], s),
         s.batch # {} => s.asked = service[c].asked /\ s.cycle = "ingest",
         s.cycle = "ingest" => s.batch # {},
         Life(s, client[c]), Latch(s)
  PROVE  CInv'
<1>1. Good(c)
  BY DEF CInv
<1>2. Count(s) /\ Items(s, client[c], queue')
  BY <1>1, CountKept, ItemsKept DEF Good
<1> QED BY <1>2, InstanceStep DEF wvars

LEMMA InitCInv == Init => CInv
<1> SUFFICES ASSUME Init PROVE CInv
  OBVIOUS
<1>1. IInv
  BY InitIInv DEF Init
<1>2. NewService \in Service
  BY DEF NewService, Service
<1>3. TypeOK
  BY <1>1, <1>2 DEF TypeOK, IInv, Init
<1>4. ASSUME NEW c \in Client PROVE Good(c)
  <2>1. service[c] = NewService /\ client[c] = NoClient
    BY DEF Init, ClientInit
  <2>2. \A i \in Item : NoClient.outcome[i] = "none"
    BY CollectorAssumption DEF NoClient, Request
  <2>3. NoClient.state = "none"
    BY DEF NoClient
  <2>4. Done(NoClient) \ {} = {}
    BY <2>2 DEF Done
  <2>5. Cardinality({}) = 0
    BY FS_EmptySet
  <2>6. Life(NewService, NoClient) /\ Latch(NewService)
    BY <2>3 DEF Life, Latch, NewService, Polling
  <2>7. Count(NewService)
    BY <2>5 DEF Count, NewService
  <2>8. Items(NewService, NoClient, queue)
    BY <2>2, <2>4, <2>5 DEF Items, NewService
  <2> QED BY <2>1, <2>6, <2>7, <2>8 DEF Good
<1> QED BY <1>1, <1>3, <1>4 DEF CInv

LEMMA StartCInv ==
  ASSUME CInv, NEW c \in Client, Start(c)
  PROVE  CInv'
<1> DEFINE r == service[c]
           s == [r EXCEPT !.init = IF r.disposed THEN "off" ELSE "key"]
<1>1. r \in Service /\ r.init = "no" /\ Good(c)
  BY DEF CInv, TypeOK, Start
<1>2. service' = [service EXCEPT ![c] = s] /\ UNCHANGED wvars /\ queue' = queue
  BY DEF Start, Set
<1> HIDE DEF r
<1>3. /\ s \in Service /\ SameCounts(r, s) /\ s.asked = r.asked
      /\ s.init \in {"off", "key"} /\ s.closing = r.closing /\ s.disposed = r.disposed
      /\ s.cycle = r.cycle /\ s.availability = r.availability
  BY <1>1 DEF Service, SameCounts
<1> HIDE DEF s
<1>4. Life(s, client[c]) /\ Latch(s)
  BY <1>1, <1>3 DEF Good, Life, Latch, Polling, SameCounts, r
<1>5. Count(r)
  BY <1>1 DEF Good, r
<1> QED BY <1>2, <1>3, <1>4, <1>5, PlainStep DEF r, Count, SameCounts

LEMMA KeyFoundCInv ==
  ASSUME CInv, NEW c \in Client, KeyFound(c)
  PROVE  CInv'
<1> DEFINE r == service[c]
           s(v) == [r EXCEPT !.init = v]
<1>1. r \in Service /\ r.init = "key" /\ Good(c) /\ client[c].state = "none" /\ queue' = queue
  BY DEF CInv, TypeOK, KeyFound, Good, Life
<1>2. \/ /\ service' = [service EXCEPT ![c] = s("off")] /\ UNCHANGED wvars
      \/ /\ service' = [service EXCEPT ![c] = s("factory")] /\ Create(c)
  BY DEF KeyFound, Set
<1> HIDE DEF r
<1>3. ASSUME NEW v \in {"off", "factory"}
      PROVE  /\ s(v) \in Service /\ SameCounts(r, s(v)) /\ s(v).asked = r.asked
             /\ s(v).init = v /\ s(v).closing = r.closing /\ s(v).disposed = r.disposed
             /\ s(v).cycle = r.cycle /\ s(v).availability = r.availability
  BY <1>1 DEF Service, SameCounts
<1> HIDE DEF s
<1>4. Count(r) /\ Life(r, client[c]) /\ Latch(r) /\ Items(r, client[c], queue)
  BY <1>1 DEF Good, r
<1>5. CASE service' = [service EXCEPT ![c] = s("off")] /\ UNCHANGED wvars
  <2>1. Life(s("off"), client[c]) /\ Latch(s("off"))
    BY <1>1, <1>3, <1>4 DEF Life, Latch, Polling, SameCounts
  <2> QED BY <1>1, <1>3, <1>4, <1>5, <2>1, PlainStep DEF r, Count, SameCounts
<1>6. CASE service' = [service EXCEPT ![c] = s("factory")] /\ Create(c)
  <2>1. /\ client'[c].state = "starting" /\ client'[c].outcome = client[c].outcome
        /\ \A d \in Client \ {c} : client'[d] = client[d]
    BY <1>6 DEF Create, CInv, TypeOK, ClientTypeOK, ClientState
  <2>2. ClientNext
    BY <1>6 DEF ClientNext
  <2>3. Life(s("factory"), client'[c]) /\ Latch(s("factory"))
    BY <1>1, <1>3, <1>4, <2>1 DEF Life, Latch, Polling, SameCounts
  <2>4. Items(s("factory"), client'[c], queue') /\ Count(s("factory"))
    BY <1>1, <1>3, <1>4, <2>1, ItemsKept, CountKept DEF Count, SameCounts
  <2> QED BY <1>1, <1>3, <1>6, <2>1, <2>2, <2>3, <2>4, InstanceStep
<1> QED BY <1>2, <1>5, <1>6

LEMMA KeyFailsCInv ==
  ASSUME CInv, NEW c \in Client, KeyFails(c)
  PROVE  CInv'
<1> DEFINE r == service[c]
           s == [r EXCEPT !.init = "failed"]
<1>1. r \in Service /\ r.init = "key" /\ Good(c)
  BY DEF CInv, TypeOK, KeyFails
<1>2. service' = [service EXCEPT ![c] = s] /\ UNCHANGED wvars /\ queue' = queue
  BY DEF KeyFails, Set
<1> HIDE DEF r
<1>3. /\ s \in Service /\ SameCounts(r, s) /\ s.asked = r.asked
      /\ s.init = "failed" /\ s.closing = r.closing /\ s.disposed = r.disposed
      /\ s.cycle = r.cycle /\ s.availability = r.availability
  BY <1>1 DEF Service, SameCounts
<1> HIDE DEF s
<1>4. Life(s, client[c]) /\ Latch(s) /\ Count(r)
  BY <1>1, <1>3 DEF Good, Life, Latch, Polling, SameCounts, r
<1> QED BY <1>2, <1>3, <1>4, PlainStep DEF r, Count, SameCounts

LEMMA StoreCreatedCInv ==
  ASSUME CInv, NEW c \in Client, StoreCreated(c)
  PROVE  CInv'
<1> DEFINE r == service[c]
           off == [r EXCEPT !.init = "off"]
           on == [r EXCEPT !.init = "done", !.cycle = "armed"]
<1>1. r \in Service /\ r.init = "factory" /\ queue' = queue
  BY DEF CInv, TypeOK, StoreCreated
<1>2. Count(r) /\ Life(r, client[c]) /\ Latch(r) /\ Items(r, client[c], queue)
  BY DEF CInv, Good
<1>3. \/ /\ service' = [service EXCEPT ![c] = off] /\ CloseClient(c)
      \/ /\ ~r.disposed /\ service' = [service EXCEPT ![c] = on] /\ UNCHANGED wvars
  BY DEF StoreCreated, Set
<1> HIDE DEF r
<1>4. /\ off \in Service /\ SameCounts(r, off) /\ off.asked = r.asked
      /\ off.init = "off" /\ off.closing = r.closing /\ off.disposed = r.disposed
      /\ off.cycle = r.cycle /\ off.availability = r.availability
  BY <1>1 DEF Service, SameCounts
<1>5. /\ on \in Service /\ SameCounts(r, on) /\ on.asked = r.asked
      /\ on.init = "done" /\ on.closing = r.closing /\ on.disposed = r.disposed
      /\ on.cycle = "armed" /\ on.availability = r.availability
  BY <1>1 DEF Service, SameCounts
<1> HIDE DEF off, on
<1>6. r.batch = {}
  BY <1>1, <1>2 DEF Life, Count
<1>7. CASE service' = [service EXCEPT ![c] = off] /\ CloseClient(c)
  <2>1. Alive(client[c]) /\ StepOf(c) /\ client'[c].close # "no"
    BY <1>7, CloseClientStepOf DEF CInv
  <2>2. ClientNext
    BY <1>7 DEF ClientNext
  <2>3. Life(off, client'[c]) /\ Latch(off)
    BY <1>1, <1>2, <1>4, <2>1 DEF Life, Latch, Polling, SameCounts
  <2>4. Items(off, client'[c], queue') /\ Count(off)
    BY <1>1, <1>2, <1>4, <1>6, <2>1, ItemsMoved, CountKept DEF StepOf, Count, SameCounts
  <2> QED BY <1>1, <1>4, <1>7, <2>1, <2>2, <2>3, <2>4, InstanceStep DEF StepOf
<1>8. CASE ~r.disposed /\ service' = [service EXCEPT ![c] = on] /\ UNCHANGED wvars
  <2>1. Life(on, client[c]) /\ Latch(on)
    BY <1>1, <1>2, <1>5, <1>8 DEF Life, Latch, Polling, SameCounts
  <2> QED BY <1>1, <1>5, <1>6, <1>8, <2>1, PlainStep DEF r, SameCounts
<1> QED BY <1>3, <1>7, <1>8

LEMMA CloseCInv ==
  ASSUME CInv, NEW c \in Client, Close(c)
  PROVE  CInv'
<1> DEFINE r == service[c]
           cy == IF r.cycle = "armed" THEN "none" ELSE r.cycle
           cl == IF Polling(r) THEN "collector" ELSE "cycle"
           av == IF Polling(r) \/ r.init # "done" THEN r.availability ELSE "unavailable"
           s == [r EXCEPT !.disposed = TRUE, !.cycle = cy, !.closing = cl, !.availability = av]
<1>1. r \in Service /\ ~r.disposed /\ queue' = queue /\ UNCHANGED wvars
  BY DEF CInv, TypeOK, Close
<1>2. Count(r) /\ Life(r, client[c]) /\ Latch(r) /\ Items(r, client[c], queue)
  BY DEF CInv, Good
<1>3. service' = [service EXCEPT ![c] = s]
  BY DEF Close, Set
<1> HIDE DEF r
<1>4. /\ cl \in {"collector", "cycle"}
      /\ cy \in {"none", "dequeue", "ingest", "rest"}
      /\ cy = "none" <=> r.cycle \in {"none", "armed"}
      /\ cy \in {"dequeue", "ingest", "rest"} => cy = r.cycle
      /\ av \in {r.availability, "unavailable"}
      /\ av \in {"starting", "ready", "unavailable"}
  BY <1>1 DEF Service
<1> HIDE DEF cy, cl, av
<1>5. /\ s \in Service /\ SameCounts(r, s) /\ s.asked = r.asked
      /\ s.init = r.init /\ s.closing = cl /\ s.disposed
      /\ s.cycle = cy /\ s.availability = av
  <2> DEFINE t == [r EXCEPT !.disposed = TRUE, !.closing = cl]
  <2>1. /\ t \in Service /\ SameCounts(r, t) /\ t.asked = r.asked
        /\ t.init = r.init /\ t.closing = cl /\ t.disposed
    BY <1>1, <1>4 DEF Service, SameCounts
  <2> DEFINE u == [t EXCEPT !.cycle = cy, !.availability = av]
  <2>2. s = u
    BY <1>1 DEF Service
  <2> HIDE DEF t
  <2>3. /\ u \in Service /\ SameCounts(t, u) /\ u.asked = t.asked
        /\ u.init = t.init /\ u.closing = t.closing /\ u.disposed = t.disposed
        /\ u.cycle = cy /\ u.availability = av
    BY <1>4, <2>1 DEF Service, SameCounts
  <2> HIDE DEF s, u
  <2> QED BY <2>1, <2>2, <2>3 DEF SameCounts
<1> HIDE DEF s
<1>6. Life(s, client[c]) /\ Latch(s)
  BY <1>1, <1>2, <1>4, <1>5 DEF Life, Latch, Polling, SameCounts
<1> QED BY <1>1, <1>2, <1>3, <1>4, <1>5, <1>6, PlainStep DEF r, Count, SameCounts

LEMMA CollectorDisposedCInv ==
  ASSUME CInv, NEW c \in Client, CollectorDisposed(c)
  PROVE  CInv'
<1> DEFINE r == service[c]
           s == [r EXCEPT !.closing = "cycle", !.availability = "unavailable"]
<1>1. r \in Service /\ r.closing = "collector" /\ queue' = queue /\ UNCHANGED wvars
  BY DEF CInv, TypeOK, CollectorDisposed
<1>2. Count(r) /\ Life(r, client[c]) /\ Latch(r) /\ Items(r, client[c], queue)
  BY DEF CInv, Good
<1>3. service' = [service EXCEPT ![c] = s]
  BY DEF CollectorDisposed, Set
<1> HIDE DEF r
<1>4. /\ s \in Service /\ SameCounts(r, s) /\ s.asked = r.asked
      /\ s.init = r.init /\ s.closing = "cycle" /\ s.disposed = r.disposed
      /\ s.cycle = r.cycle /\ s.availability = "unavailable"
  BY <1>1 DEF Service, SameCounts
<1> HIDE DEF s
<1>5. Life(s, client[c]) /\ Latch(s)
  BY <1>1, <1>2, <1>4 DEF Life, Latch, Polling, SameCounts
<1> QED BY <1>1, <1>2, <1>3, <1>4, <1>5, PlainStep DEF r, Count, SameCounts

LEMMA CycleJoinedCInv ==
  ASSUME CInv, NEW c \in Client, CycleJoined(c)
  PROVE  CInv'
<1> DEFINE r == service[c]
           s(v) == [r EXCEPT !.closing = v]
<1>1. r \in Service /\ r.closing = "cycle" /\ r.cycle = "none" /\ queue' = queue
  BY DEF CInv, TypeOK, CycleJoined
<1>2. Count(r) /\ Life(r, client[c]) /\ Latch(r) /\ Items(r, client[c], queue)
  BY DEF CInv, Good
<1>3. \/ /\ service' = [service EXCEPT ![c] = s("store")] /\ CloseClient(c)
      \/ /\ r.init # "done" /\ service' = [service EXCEPT ![c] = s("done")] /\ UNCHANGED wvars
  BY DEF CycleJoined, Set
<1> HIDE DEF r
<1>4. ASSUME NEW v \in {"store", "done"}
      PROVE  /\ s(v) \in Service /\ SameCounts(r, s(v)) /\ s(v).asked = r.asked
             /\ s(v).init = r.init /\ s(v).closing = v /\ s(v).disposed = r.disposed
             /\ s(v).cycle = r.cycle /\ s(v).availability = r.availability
  BY <1>1 DEF Service, SameCounts
<1> HIDE DEF s
<1>5. r.batch = {}
  BY <1>1, <1>2 DEF Count
<1>6. CASE service' = [service EXCEPT ![c] = s("store")] /\ CloseClient(c)
  <2>1. Alive(client[c]) /\ StepOf(c) /\ client'[c].close # "no"
    BY <1>6, CloseClientStepOf DEF CInv
  <2>2. ClientNext
    BY <1>6 DEF ClientNext
  <2>3. client[c].state # "none"
    BY <2>1 DEF Alive
  <2>4. Life(s("store"), client'[c]) /\ Latch(s("store"))
    BY <1>1, <1>2, <1>4, <2>1, <2>3 DEF Life, Latch, Polling, SameCounts
  <2>5. Items(s("store"), client'[c], queue') /\ Count(s("store"))
    BY <1>1, <1>2, <1>4, <1>5, <2>1, ItemsMoved, CountKept DEF StepOf, Count, SameCounts
  <2> QED BY <1>1, <1>4, <1>6, <2>1, <2>2, <2>4, <2>5, InstanceStep DEF StepOf
<1>7. CASE r.init # "done" /\ service' = [service EXCEPT ![c] = s("done")] /\ UNCHANGED wvars
  <2>1. Life(s("done"), client[c]) /\ Latch(s("done"))
    BY <1>1, <1>2, <1>4, <1>7 DEF Life, Latch, Polling, SameCounts
  <2> QED BY <1>1, <1>4, <1>5, <1>7, <2>1, PlainStep DEF r, SameCounts
<1> QED BY <1>3, <1>6, <1>7

LEMMA StoreClosedCInv ==
  ASSUME CInv, NEW c \in Client, StoreClosed(c)
  PROVE  CInv'
<1> DEFINE r == service[c]
           s == [r EXCEPT !.closing = "done"]
<1>1. r \in Service /\ r.closing = "store" /\ queue' = queue /\ UNCHANGED wvars
  BY DEF CInv, TypeOK, StoreClosed
<1>2. Count(r) /\ Life(r, client[c]) /\ Latch(r) /\ Items(r, client[c], queue)
  BY DEF CInv, Good
<1>3. service' = [service EXCEPT ![c] = s]
  BY DEF StoreClosed, Set
<1> HIDE DEF r
<1>4. /\ s \in Service /\ SameCounts(r, s) /\ s.asked = r.asked
      /\ s.init = r.init /\ s.closing = "done" /\ s.disposed = r.disposed
      /\ s.cycle = r.cycle /\ s.availability = r.availability
  BY <1>1 DEF Service, SameCounts
<1> HIDE DEF s
<1>5. Life(s, client[c]) /\ Latch(s)
  BY <1>1, <1>2, <1>4 DEF Life, Latch, Polling, SameCounts
<1> QED BY <1>1, <1>2, <1>3, <1>4, <1>5, PlainStep DEF r, Count, SameCounts

LEMMA CycleCInv ==
  ASSUME CInv, NEW c \in Client, Cycle(c)
  PROVE  CInv'
<1> DEFINE r == service[c]
           poll == [r EXCEPT !.cycle = "dequeue"]
           rest == [r EXCEPT !.cycle = "rest", !.asked = None]
           s == IF r.latched THEN rest ELSE poll
<1>1. r \in Service /\ r.cycle = "armed" /\ queue' = queue /\ UNCHANGED wvars
  BY DEF CInv, TypeOK, Cycle
<1>2. Count(r) /\ Life(r, client[c]) /\ Latch(r) /\ Items(r, client[c], queue)
  BY DEF CInv, Good
<1>3. service' = [service EXCEPT ![c] = s]
  BY DEF Cycle, Set, Rest
<1> HIDE DEF r
<1>4. /\ poll \in Service /\ SameCounts(r, poll)
      /\ poll.init = r.init /\ poll.closing = r.closing /\ poll.disposed = r.disposed
      /\ poll.cycle = "dequeue" /\ poll.availability = r.availability
  BY <1>1 DEF Service, SameCounts
<1>5. /\ rest \in Service /\ SameCounts(r, rest)
      /\ rest.init = r.init /\ rest.closing = r.closing /\ rest.disposed = r.disposed
      /\ rest.cycle = "rest" /\ rest.availability = r.availability
  BY <1>1 DEF Service, SameCounts
<1> HIDE DEF poll, rest
<1>6. /\ s \in Service /\ SameCounts(r, s)
      /\ s.init = r.init /\ s.closing = r.closing /\ s.disposed = r.disposed
      /\ s.cycle \in {"dequeue", "rest"} /\ (r.latched => s.cycle = "rest")
      /\ s.availability = r.availability
  BY <1>4, <1>5
<1> HIDE DEF s
<1>7. Life(s, client[c]) /\ Latch(s) /\ s.batch = {}
  BY <1>1, <1>2, <1>6 DEF Life, Latch, Polling, SameCounts, Count
<1> QED BY <1>1, <1>3, <1>6, <1>7, PlainStep DEF r

LEMMA DequeueFailsCInv ==
  ASSUME CInv, NEW c \in Client, DequeueFails(c)
  PROVE  CInv'
<1> DEFINE r == service[c]
           t == [r EXCEPT !.availability = "unavailable"]
           s == [t EXCEPT !.cycle = "rest", !.asked = None]
<1>1. r \in Service /\ r.cycle = "dequeue" /\ UNCHANGED wvars
  BY DEF CInv, TypeOK, DequeueFails
<1>2. Count(r) /\ Life(r, client[c]) /\ Latch(r) /\ Items(r, client[c], queue)
  BY DEF CInv, Good
<1>3. service' = [service EXCEPT ![c] = s] /\ queue' \subseteq queue
  BY DEF DequeueFails, Set, Rest
<1> HIDE DEF r
<1>4. /\ t \in Service /\ SameCounts(r, t)
      /\ t.init = r.init /\ t.closing = r.closing /\ t.disposed = r.disposed
      /\ t.availability = "unavailable"
  BY <1>1 DEF Service, SameCounts
<1> HIDE DEF t
<1>5. /\ s \in Service /\ SameCounts(r, s)
      /\ s.init = r.init /\ s.closing = r.closing /\ s.disposed = r.disposed
      /\ s.cycle = "rest" /\ s.availability = "unavailable"
  BY <1>4 DEF Service, SameCounts
<1> HIDE DEF s
<1>6. Life(s, client[c]) /\ Latch(s) /\ s.batch = {}
  BY <1>1, <1>2, <1>5 DEF Life, Latch, Polling, SameCounts, Count
<1> QED BY <1>1, <1>3, <1>5, <1>6, PlainStep DEF r

LEMMA CycleEndsCInv ==
  ASSUME CInv, NEW c \in Client, CycleEnds(c)
  PROVE  CInv'
<1> DEFINE r == service[c]
           cy == IF r.disposed THEN "none" ELSE "armed"
           s == [r EXCEPT !.cycle = cy, !.asked = None]
<1>1. r \in Service /\ r.cycle = "rest" /\ queue' = queue /\ UNCHANGED wvars
  BY DEF CInv, TypeOK, CycleEnds
<1>2. Count(r) /\ Life(r, client[c]) /\ Latch(r) /\ Items(r, client[c], queue)
  BY DEF CInv, Good
<1>3. service' = [service EXCEPT ![c] = s]
  BY DEF CycleEnds, Set
<1> HIDE DEF r
<1>4. cy \in {"none", "armed"}
  OBVIOUS
<1> HIDE DEF cy
<1>5. /\ s \in Service /\ SameCounts(r, s)
      /\ s.init = r.init /\ s.closing = r.closing /\ s.disposed = r.disposed
      /\ s.cycle = cy /\ s.availability = r.availability
  BY <1>1, <1>4 DEF Service, SameCounts
<1> HIDE DEF s
<1>6. Life(s, client[c]) /\ Latch(s) /\ s.batch = {}
  BY <1>1, <1>2, <1>4, <1>5 DEF Life, Latch, Polling, SameCounts, Count
<1> QED BY <1>1, <1>3, <1>4, <1>5, <1>6, PlainStep DEF r

LEMMA RemoteCInv ==
  ASSUME CInv, NEW c \in Client, Remote(c)
  PROVE  CInv'
<1>1. PICK q \in Other : Send(c, q)
  BY DEF Remote
<1>2. q \in Operation /\ q \notin Item /\ Item \subseteq Operation /\ ClientTypeOK
  BY CollectorAssumption DEF Other, CInv, TypeOK
<1>3. /\ client'[c].state = client[c].state /\ client'[c].close = client[c].close
      /\ \A i \in Item : client'[c].outcome[i] = client[c].outcome[i]
      /\ \A d \in Client \ {c} : client'[d] = client[d]
  BY <1>1, <1>2, SendStepOf
<1>4. service[c] \in Service /\ service' = [service EXCEPT ![c] = service[c]] /\ queue' = queue
  BY DEF Remote, cvars, CInv, TypeOK
<1>5. /\ Count(service[c]) /\ Life(service[c], client[c]) /\ Latch(service[c])
      /\ Items(service[c], client[c], queue)
  BY DEF CInv, Good
<1>6. Life(service[c], client'[c])
  BY <1>3, <1>5 DEF Life
<1>7. Items(service[c], client'[c], queue')
  BY <1>3, <1>4, <1>5, ItemsKept DEF SameCounts
<1>8. ClientNext
  BY <1>1, <1>2 DEF ClientNext
<1> QED BY <1>3, <1>4, <1>5, <1>6, <1>7, <1>8, InstanceStep

LEMMA SnapshotCInv ==
  ASSUME CInv, NEW c \in Client, Snapshot(c)
  PROVE  CInv'
<1> DEFINE r == service[c]
           s(q) == [r EXCEPT !.asked = q]
<1>1. PICK q \in Other : Send(c, q) /\ service' = [service EXCEPT ![c] = s(q)]
  BY DEF Snapshot, Set
<1>2. /\ q \in Operation /\ q \notin Item /\ Item \subseteq Operation /\ ClientTypeOK
      /\ q \in Request
  BY CollectorAssumption DEF Other, CInv, TypeOK, Request
<1>3. /\ client'[c].state = client[c].state /\ client'[c].close = client[c].close
      /\ \A i \in Item : client'[c].outcome[i] = client[c].outcome[i]
      /\ \A d \in Client \ {c} : client'[d] = client[d]
  BY <1>1, <1>2, SendStepOf
<1>4. r \in Service /\ r.cycle = "rest" /\ queue' = queue
  BY DEF Snapshot, CInv, TypeOK
<1>5. Count(r) /\ Life(r, client[c]) /\ Latch(r) /\ Items(r, client[c], queue)
  BY DEF CInv, Good
<1> HIDE DEF r
<1>6. /\ s(q) \in Service /\ SameCounts(r, s(q))
      /\ s(q).init = r.init /\ s(q).closing = r.closing /\ s(q).disposed = r.disposed
      /\ s(q).cycle = r.cycle /\ s(q).availability = r.availability
  BY <1>2, <1>4 DEF Service, SameCounts
<1> HIDE DEF s
<1>7. s(q).batch = {} /\ r.batch = {}
  BY <1>4, <1>5, <1>6 DEF Count, SameCounts
<1>8. Life(s(q), client'[c]) /\ Latch(s(q))
  BY <1>3, <1>5, <1>6 DEF Life, Latch, Polling, SameCounts
<1>9. Items(s(q), client'[c], queue') /\ Count(s(q))
  BY <1>3, <1>4, <1>5, <1>6, <1>7, ItemsKept, CountKept
<1>10. ClientNext
  BY <1>1, <1>2 DEF ClientNext
<1> QED BY <1>1, <1>3, <1>4, <1>6, <1>8, <1>9, <1>10, InstanceStep

LEMMA BackgroundCInv ==
  ASSUME CInv, NEW c \in Client, Background(c)
  PROVE  CInv'
<1>1. service[c] \in Service /\ service' = [service EXCEPT ![c] = service[c]] /\ queue' = queue
  BY DEF Background, cvars, CInv, TypeOK
<1>2. /\ Count(service[c]) /\ Life(service[c], client[c]) /\ Latch(service[c])
      /\ Items(service[c], client[c], queue)
  BY DEF CInv, Good
<1>3. ClientNext
  BY DEF Background, ClientNext
<1>4. CASE Event(c)
  <2>1. Alive(client[c]) /\ StepOf(c)
    BY <1>4, EventStepOf DEF CInv
  <2>2. Life(service[c], client'[c])
    BY <1>2, <2>1 DEF Life, StepOf, Moves, Alive
  <2>3. Items(service[c], client'[c], queue')
    BY <1>1, <1>2, <2>1, ItemsMoved DEF StepOf, SameCounts
  <2> QED BY <1>1, <1>2, <1>3, <2>1, <2>2, <2>3, InstanceStep DEF StepOf
<1>5. CASE Crash(c)
  <2>1. /\ client[c].state # "none" /\ client'[c].state = "crashed"
        /\ \A d \in Client \ {c} : client'[d] = client[d]
    BY <1>5 DEF Crash, NoClient, CInv, TypeOK, ClientTypeOK
  <2>2. Life(service[c], client'[c])
    BY <1>2, <2>1 DEF Life
  <2>3. Items(service[c], client'[c], queue')
    BY <1>1, <1>2, <2>1 DEF Items
  <2> QED BY <1>1, <1>2, <1>3, <2>1, <2>2, <2>3, InstanceStep
<1> QED BY <1>4, <1>5 DEF Background

(* What holds of a collector, s, that is about to ingest or to rest. *)
Between(s, r, Q) ==
  /\ r.state # "crashed"
  /\ s.batch \cap Q = {}
  /\ \A i \in Item : r.outcome[i] # "waiting"
  /\ \A i \in Item : r.outcome[i] # "none" => i \notin Q \cup s.batch
  /\ s.committed + s.deadLetter = Cardinality(Done(r) \ s.batch)

LEMMA RestStep ==
  ASSUME CInv, NEW c \in Client, NEW s \in Service,
         service' = [service EXCEPT ![c] = s], queue' \subseteq queue, UNCHANGED wvars,
         s.batch = {}, s.cycle = "rest", Count(s), Latch(s), Life(s, client[c]),
         Between(s, client[c], queue')
  PROVE  CInv'
<1>1. Items(s, client[c], queue')
  BY DEF Items, Between
<1> QED BY <1>1, InstanceStep DEF wvars

LEMMA IngestStep ==
  ASSUME CInv, NEW c \in Client, NEW s \in Service,
         Ingest(c, s), queue' \subseteq queue,
         s.popped = s.committed + s.deadLetter + s.lossPossible + Cardinality(s.batch),
         s.init = "done", s.closing \notin {"store", "done"}, s.closing # "no" => s.disposed,
         ~s.latched, ~(s.lossPossible > 0),
         Between(s, client[c], queue')
  PROVE  CInv'
<1> DEFINE t(i) == [s EXCEPT !.cycle = "ingest", !.asked = i]
<1>1. PICK i \in s.batch : Send(c, i) /\ service' = [service EXCEPT ![c] = t(i)]
  BY DEF Ingest, Set
<1>2. /\ i \in Item /\ i \in Operation /\ Item \subseteq Operation /\ i \in Request
      /\ ClientTypeOK
  BY CollectorAssumption DEF Service, CInv, TypeOK, Request
<1>3. /\ client[c].outcome[i] = "none"
      /\ client'[c].state = client[c].state /\ client'[c].close = client[c].close
      /\ client'[c].outcome[i] \in {"waiting", "error"}
      /\ \A p \in Item \ {i} : client'[c].outcome[p] = client[c].outcome[p]
      /\ \A d \in Client \ {c} : client'[d] = client[d]
      /\ Alive(client[c])
  BY <1>1, <1>2, SendStepOf
<1>4. /\ t(i) \in Service /\ SameCounts(s, t(i)) /\ t(i).asked = i
      /\ t(i).init = s.init /\ t(i).closing = s.closing /\ t(i).disposed = s.disposed
      /\ t(i).cycle = "ingest" /\ t(i).availability = s.availability
  BY <1>2 DEF Service, SameCounts
<1> HIDE DEF t
<1>5. Life(t(i), client'[c])
  BY <1>4 DEF Life
<1>6. Count(t(i)) /\ Latch(t(i))
  BY <1>1, <1>4 DEF Count, Latch, SameCounts
<1>7. Done(client'[c]) = Done(client[c])
  BY <1>2, <1>3 DEF Done
<1>8. Items(t(i), client'[c], queue')
  BY <1>1, <1>2, <1>3, <1>4, <1>7 DEF Items, Between, SameCounts
<1>9. ClientNext
  BY <1>1, <1>2 DEF ClientNext
<1> QED BY <1>1, <1>3, <1>4, <1>5, <1>6, <1>8, <1>9, InstanceStep

LEMMA DequeuedCInv ==
  ASSUME CInv, NEW c \in Client, Dequeued(c)
  PROVE  CInv'
<1> DEFINE r == service[c]
           n(b) == r.popped + Cardinality(b)
           s(b) == [r EXCEPT !.popped = n(b), !.batch = b]
           e(b) == [s(b) EXCEPT !.availability = "ready"]
           f(b) == [e(b) EXCEPT !.cycle = "rest", !.asked = None]
<1>1. PICK b \in Batches :
        /\ queue' = queue \ b
        /\ \/ b # {} /\ Ingest(c, s(b))
           \/ b = {} /\ service' = [service EXCEPT ![c] = f(b)] /\ UNCHANGED wvars
  BY DEF Dequeued, Set, Rest, PollEnds
<1>2. /\ r \in Service /\ r.cycle = "dequeue" /\ client[c].state # "crashed"
      /\ queue \subseteq Item
  BY DEF Dequeued, Running, CInv, TypeOK
<1>3. Count(r) /\ Life(r, client[c]) /\ Latch(r) /\ Items(r, client[c], queue)
  BY DEF CInv, Good
<1> HIDE DEF r
<1>4. /\ r.init = "done" /\ r.closing \notin {"store", "done"} /\ (r.closing # "no" => r.disposed)
      /\ ~r.latched /\ ~(r.lossPossible > 0) /\ r.batch = {}
  BY <1>2, <1>3 DEF Life, Latch, Count, Polling
<1>5. /\ b \subseteq queue /\ b \subseteq Item /\ Cardinality(b) \in Nat
      /\ r.popped \in Nat /\ n(b) \in Nat
  <2>1. b \subseteq queue /\ b \subseteq Item /\ r.popped \in Nat
    BY <1>2 DEF Batches, Service
  <2>2. IsFiniteSet(b)
    BY <2>1, CollectorAssumption, FS_Subset
  <2> QED BY <2>1, <2>2, FS_CardinalityType
<1>6. r.popped = r.committed + r.deadLetter + r.lossPossible
  <2>1. Cardinality(r.batch) = 0
    BY <1>4, FS_EmptySet
  <2>2. {r.popped, r.committed, r.deadLetter, r.lossPossible} \subseteq Nat
    BY <1>2 DEF Service
  <2> QED BY <1>3, <2>1, <2>2 DEF Count
<1>7. /\ s(b) \in Service /\ s(b).init = "done" /\ s(b).closing = r.closing
      /\ s(b).disposed = r.disposed /\ s(b).batch = b /\ s(b).popped = n(b)
      /\ s(b).committed = r.committed /\ s(b).deadLetter = r.deadLetter
      /\ s(b).lossPossible = r.lossPossible /\ s(b).latched = r.latched
  <2> HIDE DEF n
  <2> QED BY <1>2, <1>4, <1>5 DEF Service
<1>8. s(b).popped = s(b).committed + s(b).deadLetter + s(b).lossPossible + Cardinality(s(b).batch)
  <2>1. {r.committed, r.deadLetter, r.lossPossible} \subseteq Nat
    BY <1>2 DEF Service
  <2> HIDE DEF s
  <2> QED BY <1>5, <1>6, <1>7, <2>1
<1> HIDE DEF s, n
<1>9. Between(s(b), client[c], queue')
  <2>1. \A i \in Item : client[c].outcome[i] # "none" => i \notin queue /\ i \notin b
    BY <1>2, <1>3, <1>5 DEF Items
  <2>2. Done(client[c]) \ b = Done(client[c]) \ r.batch
    BY <1>4, <2>1 DEF Done
  <2> QED BY <1>1, <1>2, <1>3, <1>4, <1>7, <2>1, <2>2 DEF Items, Between
<1>10. CASE b # {} /\ Ingest(c, s(b))
  <2>1. queue' \subseteq queue
    BY <1>1
  <2> QED BY <1>4, <1>7, <1>8, <1>9, <1>10, <2>1, IngestStep
<1>11. CASE b = {} /\ service' = [service EXCEPT ![c] = f(b)] /\ UNCHANGED wvars
  <2>1. /\ e(b) \in Service /\ SameCounts(s(b), e(b)) /\ e(b).init = s(b).init
        /\ e(b).closing = s(b).closing /\ e(b).disposed = s(b).disposed
    BY <1>7 DEF Service, SameCounts
  <2> HIDE DEF e
  <2>2. /\ f(b) \in Service /\ SameCounts(e(b), f(b)) /\ f(b).init = e(b).init
        /\ f(b).closing = e(b).closing /\ f(b).disposed = e(b).disposed
        /\ f(b).cycle = "rest"
    BY <2>1 DEF Service, SameCounts
  <2> HIDE DEF f
  <2>3. Life(f(b), client[c]) /\ Latch(f(b)) /\ Count(f(b)) /\ f(b).batch = {}
    BY <1>4, <1>7, <1>8, <1>11, <2>1, <2>2, SMTT(30)
       DEF Life, Latch, Count, SameCounts, Polling
  <2>4. Between(f(b), client[c], queue')
    BY <1>9, <2>1, <2>2 DEF Between, SameCounts
  <2>5. queue' \subseteq queue
    BY <1>1
  <2> QED BY <1>11, <2>2, <2>3, <2>4, <2>5, RestStep
<1> QED BY <1>1, <1>10, <1>11

LEMMA IngestedCInv ==
  ASSUME CInv, NEW c \in Client, Ingested(c)
  PROVE  CInv'
<1> DEFINE r == service[c]
           i == r.asked
           o == client[c].outcome
           t == Counted(r, i)
<1>1. /\ queue' = queue
      /\ \/ /\ o[i] = "error" /\ service' = [service EXCEPT ![c] = Rest(PollFails(r))]
            /\ UNCHANGED wvars
         \/ o[i] = "ok" /\ t.batch # {} /\ Ingest(c, t)
         \/ /\ o[i] = "ok" /\ t.batch = {} /\ service' = [service EXCEPT ![c] = Rest(PollEnds(t))]
            /\ UNCHANGED wvars
  BY DEF Ingested, Set
<1>2. r \in Service /\ r.cycle = "ingest" /\ client[c].state # "crashed"
  BY DEF Ingested, Running, CInv, TypeOK
<1>3. Count(r) /\ Life(r, client[c]) /\ Latch(r) /\ Items(r, client[c], queue)
  BY DEF CInv, Good
<1> HIDE DEF r
<1>4. /\ r.init = "done" /\ r.closing \notin {"store", "done"} /\ (r.closing # "no" => r.disposed)
      /\ ~r.latched /\ ~(r.lossPossible > 0) /\ i \in r.batch
  BY <1>2, <1>3 DEF Life, Latch, Count, Polling
<1>5. /\ r.batch \subseteq Item /\ i \in Item /\ r.lossPossible \in Nat
      /\ r.committed \in Nat /\ r.deadLetter \in Nat /\ r.popped \in Nat
  BY <1>2, <1>4 DEF Service
<1>6. IsFiniteSet(r.batch) /\ Cardinality(r.batch) \in Nat
  BY <1>5, CollectorAssumption, FS_Subset, FS_CardinalityType
<1>7. r.popped = r.committed + r.deadLetter + r.lossPossible + Cardinality(r.batch)
  BY <1>3 DEF Count
<1>8. /\ r.batch \cap queue = {}
      /\ \A j \in Item : o[j] = "waiting" => j = i
      /\ \A j \in Item : o[j] # "none" => j \notin queue /\ (j \in r.batch => j = i)
      /\ r.committed + r.deadLetter = Cardinality(Done(client[c]) \ r.batch)
  BY <1>2, <1>3 DEF Items
<1> HIDE DEF i, o
<1>9. CASE o[i] = "error" /\ service' = [service EXCEPT ![c] = Rest(PollFails(r))] /\ UNCHANGED wvars
  <2> DEFINE n == r.lossPossible + Cardinality(r.batch)
             f == [r EXCEPT !.lossPossible = n, !.latched = TRUE,
                            !.availability = "unavailable", !.batch = {}]
             s == [f EXCEPT !.cycle = "rest", !.asked = None]
  <2>1. service' = [service EXCEPT ![c] = s]
    BY <1>9 DEF Rest, PollFails
  <2>2. n \in Nat
    BY <1>5, <1>6
  <2> HIDE DEF n
  <2>3. /\ f \in Service /\ f.init = "done" /\ f.closing = r.closing /\ f.disposed = r.disposed
        /\ f.batch = {} /\ f.popped = r.popped /\ f.committed = r.committed
        /\ f.deadLetter = r.deadLetter /\ f.lossPossible = n /\ f.latched
        /\ f.availability = "unavailable"
    BY <1>2, <1>4, <2>2 DEF Service
  <2> HIDE DEF f
  <2>4. /\ s \in Service /\ SameCounts(f, s) /\ s.init = f.init /\ s.closing = f.closing
        /\ s.disposed = f.disposed /\ s.cycle = "rest" /\ s.availability = f.availability
    BY <2>3 DEF Service, SameCounts
  <2> HIDE DEF s
  <2>5. Cardinality(s.batch) = 0 /\ s.batch = {}
    BY <2>3, <2>4, FS_EmptySet DEF SameCounts
  <2>6. s.popped = s.committed + s.deadLetter + s.lossPossible + Cardinality(s.batch)
    BY <1>5, <1>6, <1>7, <2>3, <2>4, <2>5 DEF SameCounts, n
  <2>7. Life(s, client[c]) /\ Latch(s) /\ Count(s)
    BY <1>4, <2>3, <2>4, <2>5, <2>6 DEF Life, Latch, Count, SameCounts, Polling
  <2>8. Done(client[c]) \ r.batch = Done(client[c]) \ s.batch
    BY <1>8, <1>9, <2>5 DEF Done, o
  <2>9. Between(s, client[c], queue')
    BY <1>1, <1>2, <1>8, <1>9, <2>3, <2>4, <2>5, <2>8 DEF Between, SameCounts, o
  <2> QED BY <1>1, <1>9, <2>1, <2>4, <2>5, <2>7, <2>9, RestStep
<1>10. ASSUME o[i] = "ok"
       PROVE  /\ t \in Service /\ t.init = "done" /\ t.closing = r.closing
              /\ t.disposed = r.disposed /\ t.latched = r.latched
              /\ t.lossPossible = r.lossPossible
              /\ t.popped = t.committed + t.deadLetter + t.lossPossible + Cardinality(t.batch)
              /\ Between(t, client[c], queue')
  <2> DEFINE b == r.batch \ {i}
  <2>1. /\ IsFiniteSet(b) /\ Cardinality(b) \in Nat /\ Cardinality(r.batch) = Cardinality(b) + 1
        /\ b \subseteq Item
    BY <1>4, <1>5, <1>6, FS_RemoveElement, FS_CardinalityType
  <2>2. Cardinality(Done(client[c]) \ b) = r.committed + r.deadLetter + 1
    <3> DEFINE D == Done(client[c]) \ r.batch
    <3>1. D \subseteq Item /\ i \notin D /\ Done(client[c]) \ b = D \cup {i}
      BY <1>4, <1>5, <1>10 DEF Done, o
    <3>2. IsFiniteSet(D)
      BY <3>1, CollectorAssumption, FS_Subset
    <3>3. Cardinality(D \cup {i}) = Cardinality(D) + 1
      BY <3>1, <3>2, FS_AddElement
    <3> QED BY <1>8, <3>1, <3>3
  <2>3. /\ t \in Service /\ t.init = r.init /\ t.closing = r.closing
        /\ t.disposed = r.disposed /\ t.latched = r.latched
        /\ t.lossPossible = r.lossPossible /\ t.popped = r.popped /\ t.batch = b
        /\ t.committed + t.deadLetter = r.committed + r.deadLetter + 1
    <3>1. r.committed + 1 \in Nat /\ r.deadLetter + 1 \in Nat
      BY <1>5
    <3>2. CASE i \in Invalid
      <4>1. t = [r EXCEPT !.batch = b, !.deadLetter = r.deadLetter + 1]
        BY <3>2 DEF Counted
      <4> HIDE DEF b, t
      <4> DEFINE m == r.deadLetter + 1
      <4>2. m \in Nat /\ b \in SUBSET Item
        BY <2>1, <3>1
      <4>3. m + r.committed = r.committed + r.deadLetter + 1
        BY <1>5
      <4> HIDE DEF m
      <4>4. /\ t \in Service /\ t.init = r.init /\ t.closing = r.closing
            /\ t.disposed = r.disposed /\ t.latched = r.latched
            /\ t.lossPossible = r.lossPossible /\ t.popped = r.popped /\ t.batch = b
            /\ t.deadLetter = m /\ t.committed = r.committed
        BY <1>2, <4>1, <4>2 DEF Service, m
      <4> QED BY <1>5, <4>2, <4>3, <4>4
    <3>3. CASE i \notin Invalid
      <4>1. t = [r EXCEPT !.batch = b, !.committed = r.committed + 1]
        BY <3>3 DEF Counted
      <4> HIDE DEF b, t
      <4> DEFINE m == r.committed + 1
      <4>2. m \in Nat /\ b \in SUBSET Item
        BY <2>1, <3>1
      <4>3. m + r.deadLetter = r.committed + r.deadLetter + 1
        BY <1>5
      <4> HIDE DEF m
      <4>4. /\ t \in Service /\ t.init = r.init /\ t.closing = r.closing
            /\ t.disposed = r.disposed /\ t.latched = r.latched
            /\ t.lossPossible = r.lossPossible /\ t.popped = r.popped /\ t.batch = b
            /\ t.committed = m /\ t.deadLetter = r.deadLetter
        BY <1>2, <4>1, <4>2 DEF Service, m
      <4> QED BY <1>5, <4>2, <4>3, <4>4
    <3> QED BY <3>2, <3>3
  <2> HIDE DEF t, b
  <2>4. /\ t.committed \in Nat /\ t.deadLetter \in Nat
    BY <2>3 DEF Service
  <2>5. t.popped = t.committed + t.deadLetter + t.lossPossible + Cardinality(t.batch)
    BY <1>5, <1>7, <2>1, <2>3, <2>4
  <2>6. Between(t, client[c], queue')
    BY <1>1, <1>2, <1>8, <1>10, <2>2, <2>3 DEF Between, o, b
  <2> QED BY <1>4, <2>3, <2>5, <2>6
<1>11. CASE o[i] = "ok" /\ t.batch # {} /\ Ingest(c, t)
  <2> HIDE DEF t
  <2> QED BY <1>1, <1>4, <1>10, <1>11, IngestStep
<1>12. CASE /\ o[i] = "ok" /\ t.batch = {} /\ service' = [service EXCEPT ![c] = Rest(PollEnds(t))]
            /\ UNCHANGED wvars
  <2> DEFINE e == [t EXCEPT !.availability = "ready"]
             s == [e EXCEPT !.cycle = "rest", !.asked = None]
  <2>1. service' = [service EXCEPT ![c] = s]
    BY <1>12 DEF Rest, PollEnds
  <2> HIDE DEF t
  <2>2. /\ e \in Service /\ SameCounts(t, e) /\ e.init = t.init
        /\ e.closing = t.closing /\ e.disposed = t.disposed
    BY <1>10, <1>12 DEF Service, SameCounts
  <2> HIDE DEF e
  <2>3. /\ s \in Service /\ SameCounts(e, s) /\ s.init = e.init
        /\ s.closing = e.closing /\ s.disposed = e.disposed /\ s.cycle = "rest"
    BY <2>2 DEF Service, SameCounts
  <2> HIDE DEF s
  <2>4. SameCounts(t, s) /\ s.batch = {}
    BY <1>12, <2>2, <2>3 DEF SameCounts
  <2>5. Life(s, client[c]) /\ Latch(s) /\ Count(s)
    BY <1>4, <1>10, <1>12, <2>2, <2>3, <2>4 DEF Life, Latch, Count, SameCounts, Polling
  <2>6. Between(s, client[c], queue')
    BY <1>10, <1>12, <2>4 DEF Between, SameCounts
  <2> QED BY <1>1, <1>12, <2>1, <2>3, <2>4, <2>5, <2>6, RestStep
<1> QED BY <1>1, <1>9, <1>11, <1>12

LEMMA NextCInv ==
  ASSUME CInv, [Next]_vars
  PROVE  CInv'
<1>1. CASE UNCHANGED vars
  <2>1. UNCHANGED <<client, lease, stored>> /\ service' = service /\ queue' = queue
    BY <1>1 DEF vars
  <2>2. IInv'
    BY <2>1, NextIInv DEF CInv, wvars
  <2>3. TypeOK'
    BY <2>1 DEF CInv, TypeOK, ClientTypeOK
  <2>4. \A c \in Client : Good(c)'
    BY <2>1 DEF CInv, Good
  <2> QED BY <2>2, <2>3, <2>4 DEF CInv
<1>2. CASE Next
  BY <1>2, StartCInv, KeyFoundCInv, KeyFailsCInv, StoreCreatedCInv, CloseCInv,
     CollectorDisposedCInv, CycleJoinedCInv, StoreClosedCInv, RemoteCInv, CycleCInv,
     DequeuedCInv, DequeueFailsCInv, IngestedCInv, SnapshotCInv, CycleEndsCInv,
     BackgroundCInv DEF Next
<1> QED BY <1>1, <1>2

THEOREM CollectorInductive == Spec => []CInv
BY InitCInv, NextCInv, PTL DEF Spec

-----------------------------------------------------------------------------
(* The types of the service and its collector, for any queue and any batch.   *)
THEOREM CollectorTypes == Spec => []TypeOK
BY CollectorInductive, PTL DEF CInv

LEMMA CountedInv == CInv => EveryItemCounted
BY DEF CInv, Good, Count, EveryItemCounted

(* Every item ever received is committed, a dead letter, possibly lost or     *)
(* still in the batch: exactly one of them.                                   *)
THEOREM ItemsCounted == Spec => []EveryItemCounted
BY CollectorInductive, CountedInv, PTL

LEMMA NoLoss == CInv => NoSilentLoss
<1> SUFFICES ASSUME CInv, NEW c \in Client, Running(c)
             PROVE  service[c].popped
                      <= Cardinality({i \in Item : <<c, i>> \in stored})
                           + service[c].lossPossible + Cardinality(service[c].batch)
  BY DEF NoSilentLoss
<1> DEFINE s == service[c]
           kept == {i \in Item : <<c, i>> \in stored}
           D == Done(client[c]) \ s.batch
<1>1. /\ s \in Service /\ s.batch \subseteq Item
      /\ s.popped = s.committed + s.deadLetter + s.lossPossible + Cardinality(s.batch)
      /\ s.committed + s.deadLetter = Cardinality(D)
  BY DEF CInv, TypeOK, Service, Good, Count, Items, Running
<1>2. D \subseteq kept
  BY Answered, CollectorAssumption DEF CInv, AnsweredIsStored, Done, Request
<1>3. IsFiniteSet(kept) /\ IsFiniteSet(s.batch)
  BY <1>1, CollectorAssumption, FS_Subset
<1>4. Cardinality(D) <= Cardinality(kept)
  BY <1>2, <1>3, FS_Subset
<1>5. /\ Cardinality(D) \in Nat /\ Cardinality(kept) \in Nat /\ Cardinality(s.batch) \in Nat
  <2> HIDE DEF s, kept, D
  <2>1. IsFiniteSet(D)
    BY <1>2, <1>3, FS_Subset
  <2> QED BY <1>3, <2>1, FS_CardinalityType
<1>6. {s.popped, s.committed, s.deadLetter, s.lossPossible} \subseteq Nat
  BY <1>1 DEF Service
<1> HIDE DEF s, kept, D
<1> QED BY <1>1, <1>4, <1>5, <1>6 DEF s, kept

(* However requests time out, fail or are answered late: of the items an      *)
(* instance received, those missing in the database are counted as possible   *)
(* loss or still to be ingested.                                              *)
THEOREM LossIsCounted == Spec => []NoSilentLoss
BY CollectorInductive, NoLoss, PTL

LEMMA QuietClosed == CInv => ClosedIsQuiet
<1> SUFFICES ASSUME CInv, NEW c \in Client, service[c].closing = "done", Running(c)
             PROVE  /\ service[c].cycle = "none"
                    /\ \/ client[c].close # "no"
                       \/ client[c].state = "none"
                       \/ service[c].init = "factory"
  BY DEF ClosedIsQuiet
<1>1. Life(service[c], client[c]) /\ service[c] \in Service
  BY DEF CInv, Good, TypeOK
<1> QED BY <1>1 DEF Life, Service, Running

(* A closed service has no cycle underway, and no store is left that nobody   *)
(* closes.                                                                    *)
THEOREM ClosedQuietly == Spec => []ClosedIsQuiet
BY CollectorInductive, QuietClosed, PTL

LEMMA LatchStep ==
  ASSUME CInv, CInv', [Next]_vars, NEW c \in Client, service[c].lossPossible > 0
  PROVE  /\ service'[c].popped = service[c].popped
         /\ service'[c].availability = "unavailable"
<1>1. /\ service \in [Client -> Service] /\ service'[c] \in Service
      /\ service[c].latched /\ service[c].availability = "unavailable"
      /\ service[c].cycle \notin {"dequeue", "ingest"}
  BY DEF CInv, TypeOK, Good, Latch, Polling
<1>2. ASSUME service'[c] = service[c]
      PROVE  /\ service'[c].popped = service[c].popped
             /\ service'[c].availability = "unavailable"
  BY <1>1, <1>2
<1>3. CASE UNCHANGED service
  BY <1>2, <1>3
<1>4. ASSUME NEW d \in Client, d # c,
             NEW s, service' = [service EXCEPT ![d] = s]
      PROVE  service'[c] = service[c]
  BY <1>1, <1>4
<1> DEFINE Keeps(s) == /\ s.popped = service[c].popped
                       /\ s.lossPossible = service[c].lossPossible
<1>a. ASSUME NEW s, service' = [service EXCEPT ![c] = s], Keeps(s)
      PROVE  /\ service'[c].popped = service[c].popped
             /\ service'[c].availability = "unavailable"
  <2>1. service'[c] = s
    BY <1>1, <1>a
  <2> QED BY <1>a, <2>1 DEF CInv, Good, Latch
<1>5. CASE Start(c) \/ KeyFound(c) \/ KeyFails(c) \/ StoreCreated(c)
  <2> DEFINE r == service[c]
  <2>1. CASE Start(c)
    <3>1. service' = [service EXCEPT ![c] = [r EXCEPT !.init = IF r.disposed THEN "off" ELSE "key"]]
      BY <2>1 DEF Start, Set
    <3>2. Keeps([r EXCEPT !.init = IF r.disposed THEN "off" ELSE "key"])
      BY <1>1 DEF Service
    <3> QED BY <1>a, <3>1, <3>2
  <2>2. CASE KeyFound(c)
    <3>1. \/ service' = [service EXCEPT ![c] = [r EXCEPT !.init = "off"]]
          \/ service' = [service EXCEPT ![c] = [r EXCEPT !.init = "factory"]]
      BY <2>2 DEF KeyFound, Set
    <3>2. Keeps([r EXCEPT !.init = "off"]) /\ Keeps([r EXCEPT !.init = "factory"])
      BY <1>1 DEF Service
    <3> QED BY <1>a, <3>1, <3>2
  <2>3. CASE KeyFails(c)
    <3>1. service' = [service EXCEPT ![c] = [r EXCEPT !.init = "failed"]]
      BY <2>3 DEF KeyFails, Set
    <3>2. Keeps([r EXCEPT !.init = "failed"])
      BY <1>1 DEF Service
    <3> QED BY <1>a, <3>1, <3>2
  <2>4. CASE StoreCreated(c)
    <3>1. \/ service' = [service EXCEPT ![c] = [r EXCEPT !.init = "off"]]
          \/ service' = [service EXCEPT ![c] = [r EXCEPT !.init = "done", !.cycle = "armed"]]
      BY <2>4 DEF StoreCreated, Set
    <3>2. Keeps([r EXCEPT !.init = "off"]) /\ Keeps([r EXCEPT !.init = "done", !.cycle = "armed"])
      BY <1>1 DEF Service
    <3> QED BY <1>a, <3>1, <3>2
  <2> QED BY <1>5, <2>1, <2>2, <2>3, <2>4
<1>6. CASE Close(c) \/ CollectorDisposed(c) \/ CycleJoined(c) \/ StoreClosed(c)
  <2> DEFINE r == service[c]
  <2>1. CASE Close(c)
    <3>1. PICK y, z, v :
            service' = [service EXCEPT ![c] =
              [r EXCEPT !.disposed = TRUE, !.cycle = y, !.closing = z, !.availability = v]]
      BY <2>1 DEF Close, Set
    <3>2. Keeps([r EXCEPT !.disposed = TRUE, !.cycle = y, !.closing = z, !.availability = v])
      BY <1>1 DEF Service
    <3> QED BY <1>a, <3>1, <3>2
  <2>2. CASE CollectorDisposed(c)
    <3>1. service' = [service EXCEPT ![c] = [r EXCEPT !.closing = "cycle", !.availability = "unavailable"]]
      BY <2>2 DEF CollectorDisposed, Set
    <3>2. Keeps([r EXCEPT !.closing = "cycle", !.availability = "unavailable"])
      BY <1>1 DEF Service
    <3> QED BY <1>a, <3>1, <3>2
  <2>3. CASE CycleJoined(c)
    <3>1. \/ service' = [service EXCEPT ![c] = [r EXCEPT !.closing = "store"]]
          \/ service' = [service EXCEPT ![c] = [r EXCEPT !.closing = "done"]]
      BY <2>3 DEF CycleJoined, Set
    <3>2. Keeps([r EXCEPT !.closing = "store"]) /\ Keeps([r EXCEPT !.closing = "done"])
      BY <1>1 DEF Service
    <3> QED BY <1>a, <3>1, <3>2
  <2>4. CASE StoreClosed(c)
    <3>1. service' = [service EXCEPT ![c] = [r EXCEPT !.closing = "done"]]
      BY <2>4 DEF StoreClosed, Set
    <3>2. Keeps([r EXCEPT !.closing = "done"])
      BY <1>1 DEF Service
    <3> QED BY <1>a, <3>1, <3>2
  <2> QED BY <1>6, <2>1, <2>2, <2>3, <2>4
<1>7. CASE Cycle(c) \/ Snapshot(c) \/ CycleEnds(c)
  <2> DEFINE r == service[c]
  <2>1. CASE Cycle(c)
    <3>1. service' = [service EXCEPT ![c] = [r EXCEPT !.cycle = "rest", !.asked = None]]
      BY <1>1, <2>1 DEF Cycle, Set, Rest
    <3>2. Keeps([r EXCEPT !.cycle = "rest", !.asked = None])
      BY <1>1 DEF Service
    <3> QED BY <1>a, <3>1, <3>2
  <2>2. CASE Snapshot(c)
    <3>1. PICK q : service' = [service EXCEPT ![c] = [r EXCEPT !.asked = q]]
      BY <2>2 DEF Snapshot, Set
    <3>2. Keeps([r EXCEPT !.asked = q])
      BY <1>1 DEF Service
    <3> QED BY <1>a, <3>1, <3>2
  <2>3. CASE CycleEnds(c)
    <3>1. PICK y : service' = [service EXCEPT ![c] = [r EXCEPT !.cycle = y, !.asked = None]]
      BY <2>3 DEF CycleEnds, Set
    <3>2. Keeps([r EXCEPT !.cycle = y, !.asked = None])
      BY <1>1 DEF Service
    <3> QED BY <1>a, <3>1, <3>2
  <2> QED BY <1>7, <2>1, <2>2, <2>3
<1>8. CASE Remote(c) \/ Background(c)
  BY <1>3, <1>8 DEF Remote, Background, cvars
<1>9. ~(Dequeued(c) \/ DequeueFails(c) \/ Ingested(c))
  BY <1>1 DEF Dequeued, DequeueFails, Ingested
<1>10. ASSUME NEW d \in Client, d # c,
              \/ Start(d) \/ KeyFound(d) \/ KeyFails(d) \/ StoreCreated(d)
              \/ Close(d) \/ CollectorDisposed(d) \/ CycleJoined(d) \/ StoreClosed(d)
              \/ Remote(d) \/ Cycle(d) \/ Dequeued(d) \/ DequeueFails(d) \/ Ingested(d)
              \/ Snapshot(d) \/ CycleEnds(d) \/ Background(d)
       PROVE  service'[c] = service[c]
  <2>1. \/ UNCHANGED service
        \/ \E s : service' = [service EXCEPT ![d] = s]
    BY <1>10 DEF Start, KeyFound, KeyFails, StoreCreated, Close, CollectorDisposed, CycleJoined,
         StoreClosed, Remote, Cycle, Dequeued, DequeueFails, Ingested, Snapshot, CycleEnds,
         Background, Set, Ingest, cvars
  <2> QED BY <1>4, <1>10, <2>1
<1> QED
  <2>1. CASE UNCHANGED vars
    BY <1>3, <2>1 DEF vars
  <2>2. CASE Next
    BY <1>2, <1>5, <1>6, <1>7, <1>8, <1>9, <1>10, <2>2 DEF Next
  <2> QED BY <2>1, <2>2

(* After a failed write an instance receives nothing more and stays           *)
(* unavailable, whatever its service, its worker and the others do.           *)
THEOREM LatchKept == Spec => LatchHolds
<1>1. CInv /\ CInv' /\ [Next]_vars =>
        \A c \in Client : service[c].lossPossible > 0 =>
          /\ service'[c].popped = service[c].popped
          /\ service'[c].availability = "unavailable"
  BY LatchStep
<1> QED BY <1>1, CollectorInductive, PTL DEF Spec, LatchHolds
=============================================================================
