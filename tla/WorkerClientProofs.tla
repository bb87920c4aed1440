------------------------- MODULE WorkerClientProofs -------------------------
(***************************************************************************)
(* Proofs about WorkerClient: the type invariant and its safety properties,*)
(* for any number of clients, any requests and any pending limit.          *)
(***************************************************************************)
EXTENDS WorkerClient, TLAPS

(* How the message handlers may change a client: they take no message of the *)
(* worker, leave its thread alone and turn no request into a success.        *)
Quiet(r, s) ==
  /\ s \in ClientState
  /\ s.worker = r.worker /\ s.replies = r.replies
  /\ s.state \notin {"none", "crashed"}
  /\ \A q \in Request : s.outcome[q] = "ok" => r.outcome[q] = "ok"

LEMMA RejectAllQuiet ==
  ASSUME NEW r \in ClientState, r.state \notin {"none", "crashed"}
  PROVE  Quiet(r, RejectAll(r))
<1> DEFINE o == [q \in Request |-> IF r.outcome[q] = "waiting" THEN "error" ELSE r.outcome[q]]
<1>1. /\ o \in [Request -> {"none", "waiting", "ok", "error"}]
      /\ \A q \in Request : o[q] = "ok" => r.outcome[q] = "ok"
  BY DEF ClientState
<1>2. RejectAll(r) = [r EXCEPT !.outcome = o, !.outbox = <<>>]
  BY DEF RejectAll
<1>3. <<>> \in Seq(Request)
  OBVIOUS
<1> HIDE DEF o
<1> QED BY <1>1, <1>2, <1>3 DEF Quiet, ClientState

LEMMA FailQuiet ==
  ASSUME NEW r \in ClientState, r.state \notin {"none", "crashed"}
  PROVE  Quiet(r, Fail(r))
<1>1. CASE r.state \in {"failed", "closed"}
  BY <1>1 DEF Fail, Quiet
<1>2. CASE r.state \notin {"failed", "closed"}
  <2> DEFINE s == [r EXCEPT !.failed = TRUE, !.state = "failed",
                            !.ready = IF @ = "unsettled" THEN "rejected" ELSE @]
  <2>1. /\ s \in ClientState
        /\ s.worker = r.worker /\ s.replies = r.replies /\ s.outcome = r.outcome
        /\ s.state \notin {"none", "crashed"}
    BY DEF ClientState
  <2>2. Fail(r) = RejectAll(s)
    BY <1>2 DEF Fail
  <2> HIDE DEF s
  <2> QED BY <2>1, <2>2, RejectAllQuiet DEF Quiet
<1> QED BY <1>1, <1>2

LEMMA FinishQuiet ==
  ASSUME NEW r \in ClientState
  PROVE  Quiet(r, Finish(r))
<1> DEFINE s == [r EXCEPT !.state = "closed", !.close = "terminate"]
<1>1. /\ s \in ClientState
      /\ s.worker = r.worker /\ s.replies = r.replies /\ s.outcome = r.outcome
      /\ s.state \notin {"none", "crashed"}
  BY DEF ClientState
<1>2. Finish(r) = RejectAll(s)
  BY DEF Finish
<1> HIDE DEF s
<1> QED BY <1>1, <1>2, RejectAllQuiet DEF Quiet

LEMMA AskCloseQuiet ==
  ASSUME NEW c \in Client, NEW r \in ClientState, r.state \notin {"none", "crashed"}
  PROVE  Quiet(r, AskClose(c, r))
<1>1. CASE r.failed
  BY <1>1, FinishQuiet DEF AskClose
<1>2. CASE ~r.failed
  <2>1. c \in Request
    BY DEF Request
  <2> DEFINE o == [r.outcome EXCEPT ![c] = "waiting"]
             i == Append(r.inbox, c)
  <2>2. /\ o \in [Request -> {"none", "waiting", "ok", "error"}]
        /\ \A q \in Request : o[q] = "ok" => r.outcome[q] = "ok"
    BY <2>1 DEF ClientState
  <2>3. i \in Seq(Request)
    BY <2>1 DEF ClientState
  <2>4. AskClose(c, r) = [r EXCEPT !.outcome = o, !.inbox = i, !.close = "answer"]
    BY <1>2 DEF AskClose
  <2> DEFINE s == [r EXCEPT !.outcome = o, !.inbox = i, !.close = "answer"]
  <2> HIDE DEF o, i
  <2>5. s \in ClientState
    BY <2>2, <2>3 DEF ClientState
  <2>6. /\ s.outcome = o /\ s.worker = r.worker /\ s.replies = r.replies
        /\ s.state = r.state
    BY DEF ClientState
  <2> HIDE DEF s
  <2>7. Quiet(r, s)
    BY <2>2, <2>5, <2>6 DEF Quiet
  <2> QED BY <2>4, <2>7 DEF s
<1> QED BY <1>1, <1>2

LEMMA ResumeQuiet ==
  ASSUME NEW c \in Client, NEW r \in ClientState, r.state \notin {"none", "crashed"}
  PROVE  Quiet(r, Resume(c, r))
<1>1. CASE r.close = "ready" /\ r.ready = "rejected"
  BY <1>1, FinishQuiet DEF Resume
<1>2. CASE r.close \in {"ready", "drain"} /\ r.ready = "resolved"
  <2>1. CASE Pending(r) = {}
    BY <1>2, <2>1, AskCloseQuiet DEF Resume
  <2>2. CASE Pending(r) # {}
    <3>1. Quiet(r, [r EXCEPT !.close = "drain"])
      BY DEF Quiet, ClientState
    <3> QED BY <1>2, <2>2, <3>1 DEF Resume
  <2> QED BY <2>1, <2>2
<1>3. CASE r.close = "answer" /\ r.outcome[c] # "waiting"
  BY <1>3, FinishQuiet DEF Resume
<1>4. CASE Resume(c, r) = r
  BY <1>4 DEF Quiet
<1>5. CASE /\ ~(r.close = "ready" /\ r.ready = "rejected")
            /\ ~(r.close \in {"ready", "drain"} /\ r.ready = "resolved")
            /\ ~(r.close = "answer" /\ r.outcome[c] # "waiting")
  <2>1. Resume(c, r) = r
    BY <1>5 DEF Resume
  <2> QED BY <1>4, <2>1
<1> QED BY <1>1, <1>2, <1>3, <1>5

-----------------------------------------------------------------------------
(* Request q was answered with success: its caller knows or will. *)
Told(r, q) ==
  \/ r.outcome[q] = "ok"
  \/ \E i \in 1..Len(r.replies) : r.replies[i] = Answer(q)

(* What holds of one client with the leases l and the stored requests st.  An  *)
(* answered request is stored; the answer to a close request was the last act *)
(* of a worker that had given the lease back.                                *)
Safe(c, r, l, st) ==
  /\ r.state \in {"none", "crashed"} => r = [NoClient EXCEPT !.state = r.state]
  /\ \A q \in Request : Told(r, q) => <<c, q>> \in st
  /\ Told(r, c) => r.worker \in {"ended", "gone"} /\ l[TargetOf[c]] # c
  /\ r.worker = "open" => l[TargetOf[c]] = c

IInv ==
  /\ ClientTypeOK
  /\ \A c \in Client : Safe(c, client[c], lease, stored)

LEMMA QuietSafe ==
  ASSUME NEW c \in Client, NEW r, NEW s, NEW l, NEW st,
         Quiet(r, s), Safe(c, r, l, st)
  PROVE  Safe(c, s, l, st)
<1>1. c \in Request
  BY DEF Request
<1>2. \A q \in Request : Told(s, q) => Told(r, q)
  BY DEF Quiet, Told
<1> QED BY <1>1, <1>2 DEF Quiet, Safe

(* A step that changes one client only. *)
LEMMA LocalStep ==
  ASSUME IInv, NEW c \in Client, NEW s \in ClientState,
         client' = [client EXCEPT ![c] = s], UNCHANGED <<lease, stored>>,
         Safe(c, s, lease, stored)
  PROVE  IInv'
<1>1. ClientTypeOK'
  BY DEF IInv, ClientTypeOK
<1>2. ASSUME NEW d \in Client PROVE Safe(d, client'[d], lease, stored)
  <2>1. CASE d = c
    BY <2>1 DEF IInv, ClientTypeOK
  <2>2. CASE d # c
    BY <2>2 DEF IInv, ClientTypeOK
  <2> QED BY <2>1, <2>2
<1> QED BY <1>1, <1>2 DEF IInv

(* A handler whose step is an Update. *)
LEMMA UpdateStep ==
  ASSUME IInv, NEW c \in Client, NEW s \in ClientState, s.state \notin {"none", "crashed"},
         Update(c, s), UNCHANGED <<lease, stored>>, Safe(c, s, lease, stored)
  PROVE  IInv'
<1>1. Quiet(s, Resume(c, s))
  BY ResumeQuiet
<1>2. Resume(c, s) \in ClientState /\ Safe(c, Resume(c, s), lease, stored)
  BY <1>1, QuietSafe DEF Quiet
<1> QED BY <1>2, LocalStep DEF Update

LEMMA QuietUpdate ==
  ASSUME IInv, NEW c \in Client, NEW s, Quiet(client[c], s),
         Update(c, s), UNCHANGED <<lease, stored>>
  PROVE  IInv'
<1>1. s \in ClientState /\ s.state \notin {"none", "crashed"} /\ Safe(c, s, lease, stored)
  BY QuietSafe DEF IInv, Quiet
<1> QED BY <1>1, UpdateStep

LEMMA QuietStep ==
  ASSUME IInv, NEW c \in Client, NEW s, Quiet(client[c], s),
         client' = [client EXCEPT ![c] = s], UNCHANGED <<lease, stored>>
  PROVE  IInv'
<1>1. s \in ClientState /\ Safe(c, s, lease, stored)
  BY QuietSafe DEF IInv, Quiet
<1> QED BY <1>1, LocalStep

-----------------------------------------------------------------------------
LEMMA NoClientSafe ==
  ASSUME NEW c \in Client, NEW l, NEW st
  PROVE  NoClient \in ClientState /\ Safe(c, NoClient, l, st)
<1>1. NoClient \in ClientState
  BY DEF NoClient, ClientState
<1>2. \A q \in Request : ~Told(NoClient, q)
  BY DEF NoClient, Told
<1>3. c \in Request
  BY DEF Request
<1> QED BY <1>1, <1>2, <1>3 DEF Safe, NoClient

LEMMA InitIInv == ClientInit => IInv
BY NoClientSafe DEF ClientInit, IInv, ClientTypeOK

LEMMA WithoutType ==
  ASSUME NEW q, NEW s \in Seq(Request)
  PROVE  Without(s, q) \in Seq(Request)
<1>1. CASE \E k \in 1..Len(s) : s[k] = q
  <2> DEFINE k == CHOOSE k \in 1..Len(s) : s[k] = q
  <2>1. k \in 1..Len(s)
    BY <1>1
  <2>2. Without(s, q) = SubSeq(s, 1, k - 1) \o SubSeq(s, k + 1, Len(s))
    BY <1>1 DEF Without
  <2> HIDE DEF k
  <2>3. SubSeq(s, 1, k - 1) \in Seq(Request) /\ SubSeq(s, k + 1, Len(s)) \in Seq(Request)
    BY <2>1
  <2> QED BY <2>2, <2>3
<1>2. CASE ~\E k \in 1..Len(s) : s[k] = q
  BY <1>2 DEF Without
<1> QED BY <1>1, <1>2

(* Updates of a client. *)
LEMMA SameState ==
  ASSUME NEW r \in ClientState
  PROVE  [r EXCEPT !.state = r.state] = r
BY DEF ClientState

LEMMA StartedType ==
  ASSUME NEW r \in ClientState, NEW s,
         s = [r EXCEPT !.state = "starting", !.worker = "starting"]
  PROVE  /\ s \in ClientState /\ s.state = "starting" /\ s.worker = "starting"
         /\ s.outcome = r.outcome /\ s.replies = r.replies
BY DEF ClientState

LEMMA CreateIInv ==
  ASSUME IInv, NEW c \in Client, Create(c)
  PROVE  IInv'
<1> DEFINE s == [client[c] EXCEPT !.state = "starting", !.worker = "starting"]
<1>1. NoClient \in ClientState
  BY NoClientSafe
<1>2. client[c] = NoClient
  <2>1. [NoClient EXCEPT !.state = "none"] = NoClient
    <3>1. NoClient.state = "none"
      BY DEF NoClient
    <3> QED BY <1>1, <3>1, SameState
  <2>2. client[c].state = "none" /\ Safe(c, client[c], lease, stored)
    BY DEF IInv, Create
  <2> QED BY <2>1, <2>2 DEF Safe
<1>3. s \in ClientState
  BY <1>1, <1>2, StartedType
<1>4. s.state = "starting" /\ s.worker = "starting"
      /\ s.outcome = NoClient.outcome /\ s.replies = NoClient.replies
  BY <1>1, <1>2, StartedType
<1>5. s.state = "starting" /\ s.worker = "starting" /\ \A q \in Request : ~Told(s, q)
  <2> HIDE DEF s
  <2>1. NoClient.replies = <<>> /\ \A q \in Request : NoClient.outcome[q] = "none"
    BY DEF NoClient
  <2> QED BY <1>4, <2>1 DEF Told
<1>6. c \in Request
  BY DEF Request
<1>7. client' = [client EXCEPT ![c] = s]
  BY DEF Create, IInv, ClientTypeOK
<1> HIDE DEF s
<1>8. Safe(c, s, lease, stored)
  BY <1>5, <1>6 DEF Safe
<1> QED BY <1>3, <1>7, <1>8, LocalStep DEF Create

LEMMA SendIInv ==
  ASSUME IInv, NEW c \in Client, NEW q \in Request, Send(c, q)
  PROVE  IInv'
<1> DEFINE r == client[c]
           o(v) == [r.outcome EXCEPT ![q] = v]
<1>1. r \in ClientState /\ r.state \notin {"none", "crashed"} /\ r.outcome[q] = "none"
  BY DEF IInv, ClientTypeOK, Send
<1>2. ASSUME NEW v \in {"waiting", "error"}
      PROVE  /\ o(v) \in [Request -> {"none", "waiting", "ok", "error"}]
             /\ \A p \in Request : o(v)[p] = "ok" => r.outcome[p] = "ok"
  BY <1>1 DEF ClientState
<1>3. Append(r.inbox, q) \in Seq(Request) /\ Append(r.outbox, q) \in Seq(Request)
  BY <1>1 DEF ClientState
<1>4. \/ Requested(r, q) = [r EXCEPT !.outcome = o("error")]
      \/ Requested(r, q) = [r EXCEPT !.outcome = o("waiting"), !.inbox = Append(r.inbox, q)]
      \/ Requested(r, q) = [r EXCEPT !.outcome = o("waiting"), !.outbox = Append(r.outbox, q)]
  BY DEF Requested
<1>5. client' = [client EXCEPT ![c] = Requested(r, q)]
  BY DEF Send
<1> HIDE DEF o, r
<1>6. ASSUME Requested(r, q) = [r EXCEPT !.outcome = o("error")]
      PROVE  Quiet(r, Requested(r, q))
  <2> DEFINE s == [r EXCEPT !.outcome = o("error")]
  <2>1. s \in ClientState
    BY <1>1, <1>2, <1>3 DEF ClientState
  <2>2. /\ s.outcome = o("error") /\ s.worker = r.worker /\ s.replies = r.replies
        /\ s.state = r.state
    BY <1>1 DEF ClientState
  <2> HIDE DEF s
  <2>3. Quiet(r, s)
    BY <1>1, <1>2, <2>1, <2>2 DEF Quiet
  <2> QED BY <1>6, <2>3 DEF s
<1>7. ASSUME Requested(r, q) = [r EXCEPT !.outcome = o("waiting"), !.inbox = Append(r.inbox, q)]
      PROVE  Quiet(r, Requested(r, q))
  <2> DEFINE s == [r EXCEPT !.outcome = o("waiting"), !.inbox = Append(r.inbox, q)]
  <2>1. s \in ClientState
    BY <1>1, <1>2, <1>3 DEF ClientState
  <2>2. /\ s.outcome = o("waiting") /\ s.worker = r.worker /\ s.replies = r.replies
        /\ s.state = r.state
    BY <1>1 DEF ClientState
  <2> HIDE DEF s
  <2>3. Quiet(r, s)
    BY <1>1, <1>2, <2>1, <2>2 DEF Quiet
  <2> QED BY <1>7, <2>3 DEF s
<1>8. ASSUME Requested(r, q) = [r EXCEPT !.outcome = o("waiting"), !.outbox = Append(r.outbox, q)]
      PROVE  Quiet(r, Requested(r, q))
  <2> DEFINE s == [r EXCEPT !.outcome = o("waiting"), !.outbox = Append(r.outbox, q)]
  <2>1. s \in ClientState
    BY <1>1, <1>2, <1>3 DEF ClientState
  <2>2. /\ s.outcome = o("waiting") /\ s.worker = r.worker /\ s.replies = r.replies
        /\ s.state = r.state
    BY <1>1 DEF ClientState
  <2> HIDE DEF s
  <2>3. Quiet(r, s)
    BY <1>1, <1>2, <2>1, <2>2 DEF Quiet
  <2> QED BY <1>8, <2>3 DEF s
<1>9. Quiet(r, Requested(r, q))
  BY <1>4, <1>6, <1>7, <1>8
<1> QED BY <1>5, <1>9, QuietStep DEF Send, r

LEMMA TimesOutIInv ==
  ASSUME IInv, NEW c \in Client, NEW q \in Request, TimesOut(c, q)
  PROVE  IInv'
<1> DEFINE r == client[c]
           o == [r.outcome EXCEPT ![q] = "error"]
           b == Without(r.outbox, q)
           s == [r EXCEPT !.outcome = o, !.outbox = b]
<1>1. r \in ClientState /\ r.outcome[q] = "waiting" /\ r.state \notin {"none", "crashed"}
  BY DEF IInv, ClientTypeOK, TimesOut, Safe, NoClient
<1>2. /\ o \in [Request -> {"none", "waiting", "ok", "error"}]
      /\ \A p \in Request : o[p] = "ok" => r.outcome[p] = "ok"
  BY <1>1 DEF ClientState
<1>3. b \in Seq(Request)
  BY <1>1, WithoutType DEF ClientState
<1>4. Update(c, s) /\ UNCHANGED <<lease, stored>>
  BY DEF TimesOut
<1>5. Quiet(r, s)
  <2> HIDE DEF r, o, b
  <2> QED BY <1>1, <1>2, <1>3 DEF Quiet, ClientState
<1> HIDE DEF s
<1> QED BY <1>4, <1>5, QuietUpdate

LEMMA ReadyTimesOutIInv ==
  ASSUME IInv, NEW c \in Client, ReadyTimesOut(c)
  PROVE  IInv'
<1>1. client[c] \in ClientState /\ client[c].state \notin {"none", "crashed"}
  BY DEF IInv, ClientTypeOK, ReadyTimesOut
<1>2. Quiet(client[c], Fail(client[c]))
  BY <1>1, FailQuiet
<1> QED BY <1>2, QuietUpdate DEF ReadyTimesOut

LEMMA CloseClientIInv ==
  ASSUME IInv, NEW c \in Client, CloseClient(c)
  PROVE  IInv'
<1>1. client[c] \in ClientState /\ client[c].state \notin {"none", "crashed"}
  BY DEF IInv, ClientTypeOK, CloseClient
<1>2. CASE client[c].close = "no"
  <2>1. Quiet(client[c], Closed(client[c]))
    BY <1>1 DEF Closed, Quiet, ClientState
  <2> QED BY <1>2, <2>1, QuietUpdate DEF CloseClient
<1>3. CASE client[c].close # "no"
  <2>1. UNCHANGED wvars
    BY <1>3 DEF CloseClient, wvars
  <2> QED BY <2>1 DEF wvars, IInv, ClientTypeOK
<1> QED BY <1>2, <1>3

(* A handler that reports no more successes than there were. *)
LEMMA ToldSafe ==
  ASSUME NEW c \in Client, NEW r, NEW s, NEW l, NEW st,
         Safe(c, r, l, st), s.state \notin {"none", "crashed"}, s.worker = r.worker,
         \A q \in Request : Told(s, q) => Told(r, q)
  PROVE  Safe(c, s, l, st)
<1>1. c \in Request
  BY DEF Request
<1> QED BY <1>1 DEF Safe

LEMMA ReceiveIInv ==
  ASSUME IInv, NEW c \in Client, Receive(c)
  PROVE  IInv'
<1> DEFINE r == client[c]
           m == Head(r.replies)
           t == [r EXCEPT !.replies = Tail(@)]
           s == Received(t, m)
<1>1. r \in ClientState /\ r.replies # <<>> /\ Safe(c, r, lease, stored)
  BY DEF IInv, ClientTypeOK, Receive
<1>2. r.state \notin {"none", "crashed"}
  BY <1>1 DEF Safe, NoClient
<1>3. /\ r.replies \in Seq(Message)
      /\ m \in Message /\ m = r.replies[1] /\ 1 \in 1..Len(r.replies)
      /\ Tail(r.replies) \in Seq(Message)
      /\ \A i \in 1..Len(Tail(r.replies)) :
           i + 1 \in 1..Len(r.replies) /\ Tail(r.replies)[i] = r.replies[i + 1]
  BY <1>1 DEF ClientState
<1>4. /\ t \in ClientState /\ t.state \notin {"none", "crashed"} /\ t.worker = r.worker
      /\ t.outcome = r.outcome /\ t.replies = Tail(r.replies)
  BY <1>1, <1>2, <1>3 DEF ClientState
<1>5. \A q \in Request : Told(t, q) => Told(r, q)
  BY <1>3, <1>4 DEF Told
<1>6. Update(c, s) /\ UNCHANGED <<lease, stored>>
  BY DEF Receive
<1>7. Safe(c, t, lease, stored)
  BY <1>1, <1>4, <1>5, ToldSafe
<1> HIDE DEF t, m, r
<1>8. s \in ClientState /\ s.state \notin {"none", "crashed"} /\ Safe(c, s, lease, stored)
  <2>1. CASE m.type = "ready" /\ t.state \in {"starting", "closing"}
    <3> DEFINE b == t.inbox \o t.outbox
               a == IF t.state = "starting" THEN "ready" ELSE t.state
    <3>1. b \in Seq(Request) /\ <<>> \in Seq(Request) /\ a \in {"ready", "closing"}
      BY <1>4, <2>1 DEF ClientState
    <3>2. s = [t EXCEPT !.state = a, !.ready = "resolved", !.inbox = b, !.outbox = <<>>]
      BY <2>1 DEF Received
    <3> HIDE DEF a, b, s
    <3>3. Quiet(t, s)
      BY <1>4, <3>1, <3>2 DEF Quiet, ClientState
    <3> QED BY <1>7, <3>3, QuietSafe DEF Quiet
  <2>2. CASE m.type = "ready" /\ t.state \notin {"starting", "closing"}
    BY <1>4, <1>7, <2>2 DEF Received
  <2>3. CASE m.type = "fatal"
    <3>1. s = Fail(t)
      BY <2>3 DEF Received
    <3> HIDE DEF s
    <3>2. Quiet(t, s)
      BY <1>4, <3>1, FailQuiet
    <3> QED BY <1>7, <3>2, QuietSafe DEF Quiet
  <2>4. CASE m.type \in {"ok", "error"}
    <3>1. CASE t.outcome[m.of] = "waiting"
      <4> DEFINE o == [t.outcome EXCEPT ![m.of] = m.type]
      <4>1. s = [t EXCEPT !.outcome = o]
        BY <2>4, <3>1 DEF Received
      <4>2. o \in [Request -> {"none", "waiting", "ok", "error"}]
        BY <1>4, <2>4 DEF ClientState
      <4>3. \A q \in Request : o[q] = "ok" => t.outcome[q] = "ok" \/ m = Answer(q)
        BY <1>3, <1>4, <2>4 DEF ClientState, Message, Answer
      <4> HIDE DEF o, s
      <4>4. /\ s \in ClientState /\ s.state \notin {"none", "crashed"} /\ s.worker = r.worker
            /\ s.replies = t.replies /\ s.outcome = o
        BY <1>4, <4>1, <4>2 DEF ClientState
      <4>5. \A q \in Request : m = Answer(q) => Told(r, q)
        BY <1>3 DEF Told
      <4>6. \A q \in Request : Told(s, q) => Told(t, q) \/ m = Answer(q)
        BY <4>3, <4>4 DEF Told
      <4> QED BY <1>1, <1>5, <4>4, <4>5, <4>6, ToldSafe
    <3>2. CASE t.outcome[m.of] # "waiting"
      BY <1>4, <1>7, <2>4, <3>2 DEF Received
    <3> QED BY <3>1, <3>2
  <2> QED BY <1>3, <2>1, <2>2, <2>3, <2>4 DEF Message
<1> HIDE DEF s
<1> QED BY <1>6, <1>8, UpdateStep

LEMMA ExitedIInv ==
  ASSUME IInv, NEW c \in Client, Exited(c)
  PROVE  IInv'
<1> DEFINE r == [client[c] EXCEPT !.worker = "gone"]
<1>1. client[c] \in ClientState /\ Safe(c, client[c], lease, stored)
  BY DEF IInv, ClientTypeOK
<1>2. client[c].worker \in {"ended", "dead"} /\ client[c].state \notin {"none", "crashed"}
  BY <1>1 DEF Exited, Safe, NoClient
<1>3. /\ r \in ClientState /\ r.state \notin {"none", "crashed"} /\ r.worker = "gone"
      /\ r.outcome = client[c].outcome /\ r.replies = client[c].replies
  BY <1>1, <1>2 DEF ClientState
<1>4. (Update(c, Fail(r)) \/ Update(c, r)) /\ UNCHANGED <<lease, stored>>
  BY DEF Exited
<1> HIDE DEF r
<1>5. c \in Request /\ \A q \in Request : Told(r, q) => Told(client[c], q)
  BY <1>3 DEF Told, Request
<1>6. Safe(c, r, lease, stored)
  BY <1>1, <1>2, <1>3, <1>5 DEF Safe
<1>7. Quiet(r, Fail(r))
  BY <1>3, FailQuiet
<1>8. Fail(r) \in ClientState /\ Fail(r).state \notin {"none", "crashed"} /\ Safe(c, Fail(r), lease, stored)
  BY <1>6, <1>7, QuietSafe DEF Quiet
<1> QED BY <1>3, <1>4, <1>6, <1>8, UpdateStep

LEMMA TerminatedIInv ==
  ASSUME IInv, NEW c \in Client, Terminated(c)
  PROVE  IInv'
<1> DEFINE s == [client[c] EXCEPT !.worker = "gone", !.inbox = <<>>,
                                  !.replies = <<>>, !.close = "done"]
<1>1. client[c] \in ClientState /\ Safe(c, client[c], lease, stored)
  BY DEF IInv, ClientTypeOK
<1>2. client[c].state \notin {"none", "crashed"}
  BY <1>1 DEF Terminated, Safe, NoClient
<1>3. <<>> \in Seq(Request) /\ <<>> \in Seq(Message)
  OBVIOUS
<1>4. /\ s \in ClientState /\ s.state \notin {"none", "crashed"} /\ s.worker = "gone"
      /\ s.outcome = client[c].outcome /\ s.replies = <<>>
  BY <1>1, <1>2, <1>3 DEF ClientState
<1>5. client' = [client EXCEPT ![c] = s]
  BY DEF Terminated, IInv, ClientTypeOK
<1> HIDE DEF s
<1>6. c \in Request /\ \A q \in Request : Told(s, q) => Told(client[c], q)
  BY <1>4 DEF Told, Request
<1>7. Safe(c, s, lease, stored)
  BY <1>1, <1>4, <1>6 DEF Safe
<1> QED BY <1>4, <1>5, <1>7, LocalStep DEF Terminated

-----------------------------------------------------------------------------
LEMMA PostsTold ==
  ASSUME ClientTypeOK, NEW c \in Client, NEW m \in Message
  PROVE  /\ Posts(c, m) \in ClientState
         /\ Posts(c, m).state = client[c].state
         /\ Posts(c, m).worker = client[c].worker
         /\ Posts(c, m).inbox = client[c].inbox
         /\ Posts(c, m).outcome = client[c].outcome
         /\ \A q \in Request : Told(Posts(c, m), q) => Told(client[c], q) \/ m = Answer(q)
<1> DEFINE r == client[c]
           b == Append(r.replies, m)
<1>1. r \in ClientState
  BY DEF ClientTypeOK
<1>2. /\ b \in Seq(Message)
      /\ \A i \in 1..Len(b) : b[i] = m \/ (i \in 1..Len(r.replies) /\ b[i] = r.replies[i])
  BY <1>1 DEF ClientState
<1>3. Posts(c, m) = [r EXCEPT !.replies = b]
  BY DEF Posts
<1> HIDE DEF r, b
<1>4. /\ Posts(c, m) \in ClientState
      /\ Posts(c, m).state = r.state /\ Posts(c, m).worker = r.worker
      /\ Posts(c, m).inbox = r.inbox /\ Posts(c, m).outcome = r.outcome
      /\ Posts(c, m).replies = b
  BY <1>1, <1>2, <1>3 DEF ClientState
<1>5. ASSUME NEW q \in Request, Told(Posts(c, m), q)
      PROVE  Told(r, q) \/ m = Answer(q)
  BY <1>2, <1>4, <1>5 DEF Told
<1> QED BY <1>4, <1>5 DEF r

LEMMA OpensIInv ==
  ASSUME IInv, NEW c \in Client, Opens(c)
  PROVE  IInv'
<1> DEFINE p == Posts(c, Ready)
           s == [p EXCEPT !.worker = "open"]
<1>1. /\ client[c].worker = "starting" /\ lease[TargetOf[c]] = None /\ stored' = stored
      /\ lease' = [lease EXCEPT ![TargetOf[c]] = c]
      /\ client' = [client EXCEPT ![c] = s] /\ ClientTypeOK
      /\ c \in Request /\ None \notin Client /\ TargetOf \in [Client -> Target]
  BY ConstAssumption DEF Opens, IInv, Request, LeaseOf
<1>a. lease' \in [Target -> Client \cup {None}] /\ lease'[TargetOf[c]] = c
  BY <1>1 DEF ClientTypeOK
<1>b. \A d \in Client : d # c =>
        lease'[TargetOf[d]] \in {c, lease[TargetOf[d]]} /\ (lease[TargetOf[d]] = d => lease'[TargetOf[d]] = d)
  BY <1>1 DEF ClientTypeOK
<1>2. Ready \in Message /\ \A q \in Request : Ready # Answer(q)
  BY DEF Ready, Message, Answer
<1>3. /\ p \in ClientState /\ p.state = client[c].state /\ p.worker = client[c].worker
      /\ p.outcome = client[c].outcome
      /\ \A q \in Request : Told(p, q) => Told(client[c], q)
  BY <1>1, <1>2, PostsTold
<1> HIDE DEF p
<1>4. /\ s \in ClientState /\ s.state = p.state /\ s.worker = "open"
      /\ s.outcome = p.outcome /\ s.replies = p.replies
  BY <1>3 DEF ClientState
<1>5. \A q \in Request : Told(s, q) => Told(client[c], q)
  BY <1>3, <1>4 DEF Told
<1> HIDE DEF s
<1>6. client[c].state \notin {"none", "crashed"} /\ ~Told(client[c], c)
  BY <1>1 DEF IInv, Safe, NoClient
<1>7. Safe(c, s, lease', stored')
  BY <1>1, <1>a, <1>3, <1>4, <1>5, <1>6 DEF Safe, IInv
<1>8. ASSUME NEW d \in Client, d # c
      PROVE  Safe(d, client[d], lease', stored')
  <2>1. Safe(d, client[d], lease, stored)
    BY DEF IInv
  <2> QED BY <1>1, <1>b, <1>8, <2>1 DEF Safe
<1>9. ClientTypeOK'
  BY <1>1, <1>a, <1>4 DEF ClientTypeOK
<1>10. \A d \in Client : client'[d] = IF d = c THEN s ELSE client[d]
  BY <1>1 DEF ClientTypeOK
<1> QED BY <1>7, <1>8, <1>9, <1>10 DEF IInv

LEMMA OpenFailsIInv ==
  ASSUME IInv, NEW c \in Client, OpenFails(c)
  PROVE  IInv'
<1> DEFINE p == Posts(c, Fatal)
           s == [p EXCEPT !.worker = "ended"]
<1>1. /\ client[c].worker = "starting" /\ UNCHANGED <<lease, stored>>
      /\ client' = [client EXCEPT ![c] = s] /\ ClientTypeOK /\ c \in Request
  BY DEF OpenFails, IInv, Request
<1>2. Fatal \in Message /\ \A q \in Request : Fatal # Answer(q)
  BY DEF Fatal, Message, Answer
<1>3. /\ p \in ClientState /\ p.state = client[c].state /\ p.outcome = client[c].outcome
      /\ \A q \in Request : Told(p, q) => Told(client[c], q)
  BY <1>1, <1>2, PostsTold
<1> HIDE DEF p
<1>4. /\ s \in ClientState /\ s.state = p.state /\ s.worker = "ended"
      /\ s.outcome = p.outcome /\ s.replies = p.replies
  BY <1>3 DEF ClientState
<1>5. \A q \in Request : Told(s, q) => Told(client[c], q)
  BY <1>3, <1>4 DEF Told
<1> HIDE DEF s
<1>6. client[c].state \notin {"none", "crashed"} /\ ~Told(client[c], c)
  BY <1>1 DEF IInv, Safe, NoClient
<1>7. Safe(c, s, lease, stored)
  BY <1>1, <1>3, <1>4, <1>5, <1>6 DEF Safe, IInv
<1> QED BY <1>1, <1>4, <1>7, LocalStep

LEMMA DispatchIInv ==
  ASSUME IInv, NEW c \in Client, Dispatch(c)
  PROVE  IInv'
<1> DEFINE q == Head(client[c].inbox)
           r(m) == [Posts(c, m) EXCEPT !.inbox = Tail(@)]
<1>1. /\ client[c] \in ClientState /\ Safe(c, client[c], lease, stored) /\ ClientTypeOK
      /\ client[c].worker = "open" /\ client[c].inbox # <<>>
      /\ c \in Request /\ None \notin Client /\ TargetOf \in [Client -> Target]
  BY ConstAssumption DEF IInv, ClientTypeOK, Dispatch, Request
<1>2. q \in Request /\ Tail(client[c].inbox) \in Seq(Request)
  BY <1>1 DEF ClientState
<1>3. client[c].state \notin {"none", "crashed"} /\ lease[TargetOf[c]] = c /\ ~Told(client[c], c)
  BY <1>1 DEF Safe, NoClient
<1>4. /\ Answer(q) \in Message /\ Refuse(q) \in Message
      /\ \A p \in Request : (Answer(q) = Answer(p) => p = q) /\ Refuse(q) # Answer(p)
  BY <1>2 DEF Answer, Refuse, Message
<1>5. ASSUME NEW m \in Message
      PROVE  /\ r(m) \in ClientState /\ r(m).state \notin {"none", "crashed"} /\ r(m).worker = "open"
             /\ \A p \in Request : Told(r(m), p) => Told(client[c], p) \/ m = Answer(p)
  <2> DEFINE p == Posts(c, m)
  <2>1. /\ p \in ClientState /\ p.state = client[c].state /\ p.worker = client[c].worker
        /\ p.inbox = client[c].inbox
        /\ \A n \in Request : Told(p, n) => Told(client[c], n) \/ m = Answer(n)
    BY <1>1, PostsTold
  <2> HIDE DEF p
  <2> DEFINE s == [p EXCEPT !.inbox = Tail(@)]
  <2>2. /\ s \in ClientState /\ s.state = p.state /\ s.worker = p.worker
        /\ s.replies = p.replies /\ s.outcome = p.outcome
    BY <1>2, <2>1 DEF ClientState
  <2>3. r(m) = s
    BY DEF p
  <2> HIDE DEF s, r
  <2>4. \A n \in Request : Told(s, n) => Told(p, n)
    BY <2>2 DEF Told
  <2> QED BY <1>1, <1>3, <2>1, <2>2, <2>3, <2>4
<1>6. CASE /\ client' = [client EXCEPT ![c] = r(Refuse(q))]
           /\ UNCHANGED <<lease, stored>>
  <2> DEFINE s == r(Refuse(q))
  <2>1. /\ s \in ClientState /\ s.state \notin {"none", "crashed"} /\ s.worker = "open"
        /\ \A p \in Request : Told(s, p) => Told(client[c], p)
    BY <1>4, <1>5
  <2> HIDE DEF s
  <2>2. Safe(c, s, lease, stored)
    BY <1>1, <1>3, <2>1 DEF Safe
  <2>3. client' = [client EXCEPT ![c] = s]
    BY <1>6 DEF s
  <2> QED BY <1>6, <2>1, <2>2, <2>3, LocalStep
<1>7. CASE /\ stored' = stored \cup {<<c, q>>}
           /\ client' = [client EXCEPT ![c] =
                IF q = c THEN [r(Answer(q)) EXCEPT !.worker = "ended"] ELSE r(Answer(q))]
           /\ lease' = IF q = c THEN [lease EXCEPT ![TargetOf[c]] = None] ELSE lease
  <2> DEFINE t == r(Answer(q))
             s == IF q = c THEN [t EXCEPT !.worker = "ended"] ELSE t
  <2>1. /\ t \in ClientState /\ t.state \notin {"none", "crashed"} /\ t.worker = "open"
        /\ \A p \in Request : Told(t, p) => Told(client[c], p) \/ p = q
    BY <1>4, <1>5
  <2>2. client' = [client EXCEPT ![c] = s]
    BY <1>7
  <2> HIDE DEF t
  <2>3. /\ s \in ClientState /\ s.state \notin {"none", "crashed"}
        /\ s.replies = t.replies /\ s.outcome = t.outcome
        /\ s.worker = IF q = c THEN "ended" ELSE "open"
    BY <2>1 DEF ClientState
  <2>4. \A p \in Request : Told(s, p) => Told(client[c], p) \/ p = q
    BY <2>1, <2>3 DEF Told
  <2> HIDE DEF s, q
  <2>a. /\ lease' \in [Target -> Client \cup {None}]
        /\ lease'[TargetOf[c]] = IF q = c THEN None ELSE c
    BY <1>1, <1>3, <1>7 DEF ClientTypeOK
  <2>b. \A d \in Client : d # c =>
          /\ lease'[TargetOf[d]] \in {None, lease[TargetOf[d]]}
          /\ lease[TargetOf[d]] = d => lease'[TargetOf[d]] = d
    BY <1>1, <1>3, <1>7 DEF ClientTypeOK
  <2>5. Safe(c, s, lease', stored')
    BY <1>1, <1>7, <2>a, <2>3, <2>4 DEF Safe
  <2>6. ASSUME NEW d \in Client, d # c
        PROVE  Safe(d, client[d], lease', stored')
    <3>1. Safe(d, client[d], lease, stored)
      BY DEF IInv
    <3> QED BY <1>1, <1>7, <2>b, <2>6, <3>1 DEF Safe
  <2>7. ClientTypeOK'
    <3>1. stored' \subseteq Client \X Request
      BY <1>1, <1>2, <1>7 DEF ClientTypeOK
    <3> QED BY <1>1, <2>a, <2>2, <2>3, <3>1 DEF ClientTypeOK
  <2>8. \A d \in Client : client'[d] = IF d = c THEN s ELSE client[d]
    BY <1>1, <2>2 DEF ClientTypeOK
  <2> QED BY <2>5, <2>6, <2>7, <2>8 DEF IInv
<1> QED BY <1>6, <1>7 DEF Dispatch

LEMMA DiesIInv ==
  ASSUME IInv, NEW c \in Client, Dies(c)
  PROVE  IInv'
<1> DEFINE s == [client[c] EXCEPT !.worker = "dead"]
<1>1. client[c] \in ClientState /\ Safe(c, client[c], lease, stored) /\ c \in Request
  BY DEF IInv, ClientTypeOK, Request
<1>2. client[c].state \notin {"none", "crashed"} /\ ~Told(client[c], c)
  BY <1>1 DEF Dies, Safe, NoClient
<1>3. /\ s \in ClientState /\ s.state = client[c].state /\ s.worker = "dead"
      /\ s.outcome = client[c].outcome /\ s.replies = client[c].replies
  BY <1>1 DEF ClientState
<1>4. client' = [client EXCEPT ![c] = s]
  BY DEF Dies, IInv, ClientTypeOK
<1> HIDE DEF s
<1>5. \A q \in Request : Told(s, q) => Told(client[c], q)
  BY <1>3 DEF Told
<1>6. Safe(c, s, lease, stored)
  BY <1>1, <1>2, <1>3, <1>5 DEF Safe
<1> QED BY <1>3, <1>4, <1>6, LocalStep DEF Dies

LEMMA CrashIInv ==
  ASSUME IInv, NEW c \in Client, Crash(c)
  PROVE  IInv'
<1> DEFINE s == [NoClient EXCEPT !.state = "crashed"]
<1>1. /\ s \in ClientState /\ s.state = "crashed" /\ s.worker = "none"
      /\ s = [NoClient EXCEPT !.state = s.state]
  BY NoClientSafe DEF ClientState, NoClient
<1>2. c \in Request /\ \A q \in Request : ~Told(s, q)
  BY DEF Told, NoClient, Request
<1>3. client' = [client EXCEPT ![c] = s]
  BY DEF Crash
<1> HIDE DEF s
<1>4. Safe(c, s, lease, stored)
  BY <1>1, <1>2 DEF Safe
<1> QED BY <1>1, <1>3, <1>4, LocalStep DEF Crash

LEMMA NextIInv ==
  ASSUME IInv, [ClientNext]_wvars
  PROVE  IInv'
<1>1. CASE UNCHANGED wvars
  BY <1>1 DEF wvars, IInv, ClientTypeOK
<1>2. ASSUME NEW c \in Client,
             Event(c) \/ Create(c) \/ CloseClient(c) \/ Crash(c)
             \/ \E q \in Operation : Send(c, q)
      PROVE  IInv'
  <2>1. CASE Event(c)
    BY <2>1, OpensIInv, OpenFailsIInv, DispatchIInv, DiesIInv, ReceiveIInv, ExitedIInv,
       TerminatedIInv, ReadyTimesOutIInv, TimesOutIInv DEF Event, WorkerStep
  <2>2. CASE \E q \in Operation : Send(c, q)
    BY <2>2, SendIInv DEF Request
  <2> QED BY <1>2, <2>1, <2>2, CreateIInv, CloseClientIInv, CrashIInv
<1> QED BY <1>1, <1>2 DEF ClientNext

THEOREM Inductive == ClientSpec => []IInv
BY InitIInv, NextIInv, PTL DEF ClientSpec

(* Any number of clients, requests and timeouts keep the types. *)
THEOREM TypeCorrect == ClientSpec => []ClientTypeOK
BY Inductive, PTL DEF IInv

LEMMA EngineHolds == IInv => EngineHoldsLease
BY DEF IInv, Safe, EngineHoldsLease, LeaseOf

(* For any number of clients and targets on one database, an engine that      *)
(* serves requests holds the lease of its target.                            *)
THEOREM LeaseHeld == ClientSpec => []EngineHoldsLease
BY Inductive, EngineHolds, PTL

LEMMA Answered == IInv => AnsweredIsStored
BY DEF IInv, Safe, Told, AnsweredIsStored

(* A request that its caller was told to have succeeded is in the database. *)
THEOREM SuccessIsStored == ClientSpec => []AnsweredIsStored
BY Inductive, Answered, PTL

LEMMA CloseFrees == IInv => CloseFreesLease
BY DEF IInv, Safe, Told, CloseFreesLease, Request, LeaseOf

(* A close request is answered only by a worker that gave its lease back, and *)
(* that client never holds it again.                                         *)
THEOREM CloseFreed == ClientSpec => []CloseFreesLease
BY Inductive, CloseFrees, PTL
=============================================================================
