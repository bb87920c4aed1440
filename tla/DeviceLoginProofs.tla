-------------------------- MODULE DeviceLoginProofs --------------------------
(***************************************************************************)
(* Proofs about DeviceLogin, for any number of start calls.                *)
(*                                                                         *)
(* Every helper of the manager takes a sound operation to a sound one that *)
(* Evolves from it: it keeps its manager, runs no new process, and keeps a *)
(* verdict.  Good says that the managers and the operations agree, which   *)
(* such changes and StartOn preserve; the invariant adds that a call which *)
(* has not started anything yet has left no trace.                         *)
(***************************************************************************)
EXTENDS DeviceLogin, TLAPS

Sound(r) ==
  /\ r \in Operation
  /\ r.child = "running" => r.terminal = FALSE
  /\ r.child \in {"terminating", "exited", "abandoned"} => r.terminal = TRUE
  /\ r.child # "none" /\ r.terminal = FALSE => r.timer # "none"

Evolves(r, s) ==
  /\ s.manager = r.manager
  /\ r.child # "none" => s.child # "none"
  /\ s.child = "running" => r.child = "running"
  /\ r.terminal = TRUE => s.terminal = TRUE
  /\ r.ready # "unsettled" => s.ready = r.ready
  /\ r.terminal = TRUE /\ r.ready # "unsettled" => s.state = r.state

Started == {r \in Operation : Sound(r) /\ r.child # "none"}

(* One change of one operation. *)
Step(r, s) == s \in Started /\ Evolves(r, s)

LEMMA EvolvesTransitive ==
  ASSUME NEW r, NEW s, NEW t, Evolves(r, s), Evolves(s, t)
  PROVE  Evolves(r, t)
BY DEF Evolves

LEMMA StepReflexive ==
  ASSUME NEW r \in Started
  PROVE  Step(r, r)
BY DEF Step, Evolves

LEMMA StepTransitive ==
  ASSUME NEW r, NEW s, NEW t, Step(r, s), Step(s, t)
  PROVE  Step(r, t)
BY EvolvesTransitive DEF Step

(* What Ended does to an operation that is not terminal. *)
LEMMA EndedStep ==
  ASSUME NEW r \in Started, r.terminal = FALSE, NEW state \in Final
  PROVE  /\ Step(r, Ended(r, state))
         /\ Ended(r, state).child # "running"
         /\ Ended(r, state).terminal = TRUE
<1> DEFINE e == [r EXCEPT !.state = state, !.terminal = TRUE, !.timer = "none"]
           j == [e EXCEPT !.ready = IF e.ready = "unsettled" THEN "rejected" ELSE e.ready]
           t == [j EXCEPT !.child = IF j.child = "running" THEN "terminating" ELSE j.child]
<1>1. Ended(r, state) = t
  BY DEF Ended, Terminated, Rejected
<1>2. /\ r \in Operation
      /\ state \in States
  BY DEF Started, States, Final
<1>3. /\ e \in Operation
      /\ e.state = state /\ e.terminal = TRUE /\ e.timer = "none"
      /\ e.child = r.child /\ e.manager = r.manager /\ e.ready = r.ready
  BY <1>2 DEF Operation
<1> HIDE DEF e
<1>4. /\ j \in Operation
      /\ j.terminal = TRUE
      /\ j.child = r.child /\ j.manager = r.manager
      /\ j.ready = IF e.ready = "unsettled" THEN "rejected" ELSE e.ready
  BY <1>3 DEF Operation
<1> HIDE DEF j
<1>5. /\ t \in Operation
      /\ t.terminal = TRUE /\ t.manager = j.manager /\ t.ready = j.ready
      /\ t.child = IF j.child = "running" THEN "terminating" ELSE j.child
  BY <1>4 DEF Operation
<1> HIDE DEF t
<1> QED
  BY <1>1, <1>3, <1>4, <1>5 DEF Step, Started, Sound, Evolves

LEMMA FailedStep ==
  ASSUME NEW r \in Started, NEW state \in Final
  PROVE  Step(r, Failed(r, state))
BY EndedStep, StepReflexive DEF Failed, Started, Operation

(* A ready event; it sets a timer while the operation is not terminal. *)
LEMMA ShownStep ==
  ASSUME NEW r \in Started
  PROVE  Step(r, Shown(r))
<1>1. CASE r.ready # "unsettled"
  BY <1>1, StepReflexive DEF Shown
<1>2. CASE r.ready = "unsettled"
  <2> DEFINE e == [r EXCEPT !.state = "pending", !.ready = "resolved"]
             s == [e EXCEPT !.timer = IF e.terminal THEN e.timer ELSE "expiry"]
  <2>1. Shown(r) = s
    BY <1>2 DEF Shown, Scheduled
  <2>2. r \in Operation
    BY DEF Started
  <2>3. /\ e \in Operation
        /\ e.ready = "resolved" /\ e.terminal = r.terminal /\ e.timer = r.timer
        /\ e.child = r.child /\ e.manager = r.manager
    BY <2>2 DEF Operation, States
  <2> HIDE DEF e
  <2>4. /\ s \in Operation
        /\ s.ready = e.ready /\ s.terminal = e.terminal /\ s.child = e.child
        /\ s.manager = e.manager
        /\ s.terminal = FALSE => s.timer # "none"
    BY <2>3 DEF Operation
  <2> HIDE DEF s
  <2> QED
    BY <1>2, <2>1, <2>3, <2>4 DEF Step, Started, Sound, Evolves
<1> QED
  BY <1>1, <1>2

LEMMA ToldStep ==
  ASSUME NEW r \in Started, NEW state \in Verdicts
  PROVE  Step(r, Told(r, state))
<1>1. CASE r.terminal = TRUE
  BY <1>1, StepReflexive DEF Told
<1>2. CASE r.terminal = FALSE /\ state # "success"
  BY <1>2, EndedStep DEF Told, Final
<1>3. CASE r.terminal = FALSE /\ state = "success"
  <2> DEFINE e == [r EXCEPT !.state = state, !.terminal = TRUE, !.timer = "none"]
             t == [e EXCEPT !.child = IF e.child = "running" THEN "terminating" ELSE e.child]
  <2>1. Told(r, state) = t
    BY <1>3 DEF Told, Terminated
  <2>2. r \in Operation /\ state \in States
    BY DEF Started, States, Final
  <2>3. /\ e \in Operation
        /\ e.terminal = TRUE
        /\ e.child = r.child /\ e.manager = r.manager /\ e.ready = r.ready
    BY <2>2 DEF Operation
  <2> HIDE DEF e
  <2>4. /\ t \in Operation
        /\ t.terminal = TRUE /\ t.manager = e.manager /\ t.ready = e.ready
        /\ t.child = IF e.child = "running" THEN "terminating" ELSE e.child
    BY <2>3 DEF Operation
  <2> HIDE DEF t
  <2> QED
    BY <1>3, <2>1, <2>3, <2>4 DEF Step, Started, Sound, Evolves
<1> QED
  BY <1>1, <1>2, <1>3 DEF Started, Operation

LEMMA LineStep ==
  ASSUME NEW r \in Started, NEW line
  PROVE  Step(r, Line(r, line))
<1>1. CASE line \in Fields
  <2> DEFINE f == [r EXCEPT !.fields = @ \cup {line}]
  <2>1. Step(r, f)
    <3>1. r \in Operation
      BY DEF Started
    <3>2. /\ f \in Operation
          /\ f.state = r.state /\ f.ready = r.ready /\ f.terminal = r.terminal
          /\ f.timer = r.timer /\ f.child = r.child /\ f.manager = r.manager
      BY <1>1, <3>1 DEF Operation
    <3> HIDE DEF f
    <3> QED
      BY <3>2 DEF Step, Started, Sound, Evolves
  <2>2. Step(f, Shown(f))
    BY <2>1, ShownStep DEF Step
  <2>3. Line(r, line) \in {f, Shown(f)}
    BY <1>1 DEF Line
  <2> QED
    BY <2>1, <2>2, <2>3, StepTransitive
<1>2. CASE line \notin Fields /\ line \in Verdicts
  BY <1>2, ToldStep DEF Line
<1>3. CASE line \notin Fields /\ line \notin Verdicts
  BY <1>3, StepReflexive DEF Line
<1> QED
  BY <1>1, <1>2, <1>3

LEMMA ChunkStep ==
  ASSUME NEW r \in Started, NEW l1, NEW l2
  PROVE  Step(r, Chunk(r, l1, l2))
<1>1. Step(r, Line(r, l1))
  BY LineStep
<1>2. Step(Line(r, l1), Line(Line(r, l1), l2))
  BY <1>1, LineStep DEF Step
<1>3. Step(r, Failed(r, "failed"))
  BY FailedStep DEF Final, Verdicts
<1> QED
  BY <1>1, <1>2, <1>3, StepTransitive DEF Chunk

-----------------------------------------------------------------------------
(* Managers and operations that agree *)

Owned(ms, ls) ==
  \A m \in Call : ms[m].operation # None =>
    /\ ls[ms[m].operation].child # "none"
    /\ ls[ms[m].operation].manager = m

Reachable(ms, ls) ==
  \A o \in Call : ls[o].child = "running" =>
    /\ ms[ls[o].manager].operation = o
    /\ ms[ls[o].manager].disposed = FALSE

Good(ms, ls) ==
  /\ ms \in [Call -> Manager]
  /\ \A o \in Call : Sound(ls[o])
  /\ \A o \in Call : ls[o].child # "none" => ls[o].manager \in Call
  /\ \A o \in Call : ls[o].child = "none" => ls[o] = NoLogin
  /\ Owned(ms, ls)
  /\ Reachable(ms, ls)

(* Every operation is as it was or one step further. *)
Moves(ls, new) ==
  /\ DOMAIN new = Call /\ new = [o \in Call |-> new[o]]
  /\ \A o \in Call : new[o] = ls[o] \/ (ls[o] \in Started /\ Step(ls[o], new[o]))

LEMMA GoodMoves ==
  ASSUME NEW ms, NEW ls, NEW new, Good(ms, ls), Moves(ls, new)
  PROVE  Good(ms, new)
<1>1. \A o \in Call : Sound(new[o])
  BY DEF Good, Moves, Step, Started
<1>2. \A o \in Call : /\ new[o].manager = ls[o].manager
                      /\ ls[o].child # "none" => new[o].child # "none"
                      /\ new[o].child # "none" => ls[o].child # "none"
                      /\ new[o].child = "running" => ls[o].child = "running"
  BY DEF Moves, Step, Evolves, Started
<1>3. \A o \in Call : new[o].child # "none" => new[o].manager \in Call
  BY <1>2 DEF Good
<1>6. \A o \in Call : new[o].child = "none" => new[o] = NoLogin
  BY DEF Good, Moves, Step, Started
<1>4. Owned(ms, new)
  <2> SUFFICES ASSUME NEW m \in Call, ms[m].operation # None
               PROVE  /\ new[ms[m].operation].child # "none"
                      /\ new[ms[m].operation].manager = m
    BY DEF Owned
  <2>1. ms[m].operation \in Call
    BY DEF Good, Manager
  <2> QED
    BY <1>2, <2>1 DEF Good, Owned
<1>5. Reachable(ms, new)
  BY <1>2 DEF Good, Reachable
<1> QED
  BY <1>1, <1>3, <1>4, <1>5, <1>6 DEF Good

(* A manager whose operation does not run may be disposed. *)
LEMMA GoodDisposed ==
  ASSUME NEW ms, NEW ls, Good(ms, ls), NEW m \in Call,
         ms[m].operation # None => ls[ms[m].operation].child # "running"
  PROVE  Good([ms EXCEPT ![m].disposed = TRUE], ls)
<1> DEFINE new == [ms EXCEPT ![m].disposed = TRUE]
<1>1. /\ new \in [Call -> Manager]
      /\ \A x \in Call : new[x].operation = ms[x].operation
      /\ \A x \in Call \ {m} : new[x] = ms[x]
  BY DEF Good, Manager
<1> HIDE DEF new
<1>2. Owned(new, ls)
  BY <1>1 DEF Good, Owned
<1>3. Reachable(new, ls)
  <2> SUFFICES ASSUME NEW o \in Call, ls[o].child = "running"
               PROVE  /\ new[ls[o].manager].operation = o
                      /\ new[ls[o].manager].disposed = FALSE
    BY DEF Reachable
  <2>1. ls[o].manager \in Call
    BY DEF Good
  <2>2. ms[ls[o].manager].operation = o
    BY DEF Good, Reachable
  <2>3. ls[o].manager # m
    BY <2>2, ConstAssumption
  <2> QED
    BY <1>1, <2>1, <2>2, <2>3 DEF Good, Reachable
<1> QED
  BY <1>1, <1>2, <1>3 DEF Good, new

LEMMA NewLoginSound ==
  ASSUME NEW m \in Call
  PROVE  /\ Spawned(m) \in Started
         /\ Spawned(m).manager = m
         /\ Spawned(m).terminal = FALSE
<1> DEFINE r == [NoLogin EXCEPT !.manager = m, !.child = "running", !.timer = "startup"]
<1>1. /\ r \in Operation
      /\ r.manager = m /\ r.child = "running" /\ r.timer = "startup"
      /\ r.terminal = FALSE
  BY DEF NoLogin, Operation, States, Fields
<1> HIDE DEF r
<1>2. Spawned(m) = r
  BY DEF Spawned, r
<1> QED
  BY <1>1, <1>2 DEF Started, Sound

(* start() of a manager, for a call that has started nothing before. *)
LEMMA StartOnGood ==
  ASSUME NEW ms, NEW ls, Good(ms, ls), NEW c \in Call, NEW m \in Call,
         DOMAIN ls = Call, ls = [o \in Call |-> ls[o]],
         ls[c] = NoLogin,
         pc \in [Call -> {"idle", "disposing", "starting", "done"}],
         StartOn(c, m, ms, ls)
  PROVE  /\ Good(manager', login')
         /\ DOMAIN login' = Call /\ login' = [o \in Call |-> login'[o]]
         /\ \A x \in Call \ {c} : login'[x] = ls[x]
         /\ \A x \in Call \ {m} : manager'[x] = ms[x]
         /\ \E s \in {"starting", "done"} : pc' = [pc EXCEPT ![c] = s]
<1>1. CASE manager' = ms /\ login' = ls /\ Goto(c, "done")
  BY <1>1 DEF Goto
<1>2. CASE /\ ~ms[m].disposed
           /\ ms[m].operation # None => ls[ms[m].operation].terminal
           /\ manager' = [ms EXCEPT ![m].operation = c]
           /\ \E r \in {Spawned(m),
                        [Failed(Spawned(m), "failed") EXCEPT !.timer = "startup"]} :
                login' = [ls EXCEPT ![c] = r]
           /\ Goto(c, "starting")
  <2>1. /\ manager' \in [Call -> Manager]
        /\ manager'[m].operation = c /\ manager'[m].disposed = FALSE
        /\ \A x \in Call \ {m} : manager'[x] = ms[x]
    BY <1>2 DEF Good, Manager
  <2>2. PICK r : /\ r \in Started
                 /\ r.manager = m
                 /\ login' = [ls EXCEPT ![c] = r]
    <3>1. CASE login' = [ls EXCEPT ![c] = Spawned(m)]
      BY <3>1, NewLoginSound
    <3>2. CASE login' = [ls EXCEPT ![c] = [Failed(Spawned(m), "failed") EXCEPT !.timer = "startup"]]
      <4> DEFINE f == Failed(Spawned(m), "failed")
                 r == [f EXCEPT !.timer = "startup"]
      <4>1. /\ f \in Started /\ f.manager = m /\ f.terminal = TRUE
        <5> DEFINE n == Spawned(m)
        <5>1. /\ n \in Started /\ n.manager = m /\ n.terminal = FALSE
              /\ "failed" \in Final
          BY NewLoginSound DEF Final, Verdicts
        <5>2. f = Ended(n, "failed")
          BY <5>1 DEF Failed
        <5> HIDE DEF n, f
        <5> QED
          BY <5>1, <5>2, EndedStep DEF Step, Evolves
      <4> HIDE DEF f
      <4>2. /\ r \in Operation
            /\ r.terminal = f.terminal /\ r.child = f.child /\ r.manager = f.manager
        BY <4>1 DEF Started, Operation
      <4>3. login' = [ls EXCEPT ![c] = r]
        BY <3>2 DEF f
      <4> HIDE DEF r
      <4>4. r \in Started
        BY <4>1, <4>2 DEF Started, Sound
      <4> QED
        BY <4>1, <4>2, <4>3, <4>4
    <3> QED
      BY <1>2, <3>1, <3>2
  <2>3. /\ DOMAIN login' = Call
        /\ login' = [o \in Call |-> login'[o]]
        /\ login'[c] = r
        /\ \A x \in Call \ {c} : login'[x] = ls[x]
    BY <2>2
  <2>4. ls[c].child = "none"
    BY DEF NoLogin
  <2>5. /\ \A o \in Call : Sound(login'[o])
        /\ \A o \in Call : login'[o].child # "none" => login'[o].manager \in Call
        /\ \A o \in Call : login'[o].child = "none" => login'[o] = NoLogin
    BY <2>2, <2>3 DEF Good, Started
  <2>6. Owned(manager', login')
    <3> SUFFICES ASSUME NEW x \in Call, manager'[x].operation # None
                 PROVE  /\ login'[manager'[x].operation].child # "none"
                        /\ login'[manager'[x].operation].manager = x
      BY DEF Owned
    <3>1. CASE x = m
      BY <2>1, <2>2, <2>3, <3>1 DEF Started
    <3>2. CASE x # m
      <4>1. /\ manager'[x].operation = ms[x].operation
            /\ ms[x].operation \in Call
        BY <2>1, <3>2 DEF Good, Manager
      <4>2. ms[x].operation # c
        BY <2>4, <4>1 DEF Good, Owned
      <4> QED
        BY <2>3, <4>1, <4>2 DEF Good, Owned
    <3> QED
      BY <3>1, <3>2
  <2>7. Reachable(manager', login')
    <3> SUFFICES ASSUME NEW o \in Call, login'[o].child = "running"
                 PROVE  /\ manager'[login'[o].manager].operation = o
                        /\ manager'[login'[o].manager].disposed = FALSE
      BY DEF Reachable
    <3>1. CASE o = c
      BY <2>1, <2>2, <2>3, <3>1
    <3>2. CASE o # c
      <4>1. /\ login'[o] = ls[o]
            /\ ls[o].manager \in Call
            /\ ms[ls[o].manager].operation = o
            /\ ms[ls[o].manager].disposed = FALSE
            /\ ls[o].terminal = FALSE
        BY <2>3, <3>2 DEF Good, Reachable, Sound
      <4>2. ls[o].manager # m
        BY <1>2, <4>1, ConstAssumption
      <4> QED
        BY <2>1, <4>1, <4>2
    <3> QED
      BY <3>1, <3>2
  <2> QED
    BY <1>2, <2>1, <2>3, <2>5, <2>6, <2>7 DEF Good, Goto
<1> QED
  BY <1>1, <1>2 DEF StartOn

-----------------------------------------------------------------------------
(* What the calls do to the operations before they start one *)

LEMMA CancelledStep ==
  ASSUME NEW r \in Started
  PROVE  Step(r, Cancelled(r)) /\ Cancelled(r).child # "running"
<1>1. CASE r.terminal = TRUE
  <2> DEFINE t == [r EXCEPT !.child = IF r.child = "running" THEN "terminating" ELSE r.child]
  <2>1. Cancelled(r) = t
    BY <1>1 DEF Cancelled, Terminated
  <2>2. /\ t \in Operation
        /\ t.child = IF r.child = "running" THEN "terminating" ELSE r.child
        /\ t.terminal = r.terminal /\ t.manager = r.manager
        /\ t.ready = r.ready /\ t.state = r.state
    BY DEF Started, Operation
  <2> HIDE DEF t
  <2> QED
    BY <1>1, <2>1, <2>2 DEF Step, Started, Sound, Evolves
<1>2. CASE r.terminal = FALSE
  <2> DEFINE e == Ended(r, "cancelled")
             t == [e EXCEPT !.timer = r.timer]
  <2>1. Cancelled(r) = t
    BY <1>2 DEF Cancelled
  <2>2. Step(r, e) /\ e.child # "running" /\ e.terminal = TRUE
    BY <1>2, EndedStep DEF Final, Verdicts
  <2> HIDE DEF e
  <2>3. /\ t \in Operation
        /\ t.child = e.child /\ t.terminal = e.terminal /\ t.manager = e.manager
        /\ t.ready = e.ready /\ t.state = e.state
    BY <2>2 DEF Step, Started, Operation
  <2> HIDE DEF t
  <2> QED
    BY <1>2, <2>1, <2>2, <2>3 DEF Step, Started, Sound, Evolves
<1> QED
  BY <1>1, <1>2 DEF Started, Operation

Typed(ls) == DOMAIN ls = Call /\ ls = [o \in Call |-> ls[o]]

LEMMA MoveOne ==
  ASSUME NEW ls, Typed(ls), NEW o \in Call, NEW r,
         ls[o] \in Started, Step(ls[o], r)
  PROVE  Moves(ls, [ls EXCEPT ![o] = r])
BY DEF Moves, Typed

LEMMA MovesReflexive ==
  ASSUME NEW ls, Typed(ls)
  PROVE  Moves(ls, ls)
BY DEF Moves, Typed

LEMMA MovesTransitive ==
  ASSUME NEW ls, NEW new, NEW newer, Moves(ls, new), Moves(new, newer)
  PROVE  Moves(ls, newer)
<1> SUFFICES ASSUME NEW o \in Call
             PROVE  newer[o] = ls[o] \/ (ls[o] \in Started /\ Step(ls[o], newer[o]))
  BY DEF Moves
<1> QED
  BY StepTransitive DEF Moves, Step

(* An operation a manager points at has been started. *)
LEMMA CurrentStarted ==
  ASSUME NEW ms, NEW ls, Good(ms, ls), NEW m \in Call, ms[m].operation # None
  PROVE  ms[m].operation \in Call /\ ls[ms[m].operation] \in Started
<1>1. ms[m].operation \in Call
  BY DEF Good, Manager
<1> QED
  BY <1>1 DEF Good, Owned, Started, Sound

LEMMA LookedMoves ==
  ASSUME Good(manager, login), Typed(login), NEW m \in Call \cup {None},
         NEW looked \in Looked(m)
  PROVE  Moves(login, looked)
<1>1. CASE m = None \/ Current(m) = None
  BY <1>1, MovesReflexive DEF Looked
<1>2. CASE m # None /\ Current(m) # None
  <2>1. /\ Current(m) \in Call
        /\ login[Current(m)] \in Started
    BY <1>2, CurrentStarted DEF Current
  <2>2. PICK r \in Expiring(login[Current(m)]) : looked = [login EXCEPT ![Current(m)] = r]
    BY <1>2 DEF Looked
  <2>3. Step(login[Current(m)], r)
    BY <2>1, <2>2, StepReflexive, FailedStep DEF Expiring, Final, Verdicts
  <2> QED
    BY <2>1, <2>2, <2>3, MoveOne
<1> QED
  BY <1>1, <1>2

LEMMA DisposingMoves ==
  ASSUME NEW ls, Good(manager, ls), Typed(ls), NEW m \in Call
  PROVE  /\ Moves(ls, Disposing(m, ls))
         /\ Current(m) # None => Disposing(m, ls)[Current(m)].child # "running"
<1>1. CASE Current(m) = None
  BY <1>1, MovesReflexive DEF Disposing
<1>2. CASE Current(m) # None
  <2>1. /\ Current(m) \in Call
        /\ ls[Current(m)] \in Started
    BY <1>2, CurrentStarted DEF Current
  <2>2. Disposing(m, ls) = [ls EXCEPT ![Current(m)] = Cancelled(ls[Current(m)])]
    BY <1>2 DEF Disposing
  <2>3. Moves(ls, Disposing(m, ls))
    <3> DEFINE r == Cancelled(ls[Current(m)])
    <3>1. Step(ls[Current(m)], r)
      BY <2>1, CancelledStep
    <3>2. Disposing(m, ls) = [ls EXCEPT ![Current(m)] = r]
      BY <2>2
    <3> HIDE DEF r
    <3> QED
      <4> DEFINE o == Current(m)
      <4>1. /\ o \in Call /\ ls[o] \in Started /\ Step(ls[o], r)
            /\ Disposing(m, ls) = [ls EXCEPT ![o] = r]
        BY <2>1, <3>1, <3>2
      <4> HIDE DEF o
      <4> QED
        BY <4>1 DEF Moves, Typed
  <2>4. Disposing(m, ls)[Current(m)] = Cancelled(ls[Current(m)])
    BY <2>1, <2>2 DEF Typed
  <2> QED
    BY <2>1, <2>3, <2>4, CancelledStep
<1> QED
  BY <1>1, <1>2

LEMMA SweptMoves ==
  ASSUME Good(manager, login), NEW m, Joined(m)
  PROVE  Moves(login, Swept(m))
<1> SUFFICES ASSUME NEW o \in Call
             PROVE  \/ Swept(m)[o] = login[o]
                    \/ login[o] \in Started /\ Step(login[o], Swept(m)[o])
  BY DEF Moves, Swept
<1>1. CASE Current(m) # o
  BY <1>1 DEF Swept
<1>2. CASE Current(m) = o
  <2> DEFINE t == [login[o] EXCEPT !.timer = "none"]
  <2>1. Swept(m)[o] = t
    BY <1>2 DEF Swept
  <2>2. Sound(login[o]) /\ login[o].child \in {"exited", "abandoned"}
    BY <1>2 DEF Good, Joined, Settled
  <2>3. /\ t \in Operation
        /\ t.child = login[o].child /\ t.terminal = login[o].terminal
        /\ t.manager = login[o].manager
        /\ t.ready = login[o].ready /\ t.state = login[o].state
    BY <2>2 DEF Sound, Operation
  <2> HIDE DEF t
  <2> QED
    BY <2>1, <2>2, <2>3 DEF Step, Started, Sound, Evolves
<1> QED
  BY <1>1, <1>2

-----------------------------------------------------------------------------
(* The inductive invariant *)

(* A call that has not started anything yet has left no trace. *)
Fresh ==
  \A c \in Call : pc[c] \in {"idle", "disposing"} =>
    slot # c /\ manager[c] = NewManager /\ login[c] = NoLogin

IInv == TypeOK /\ Good(manager, login) /\ Fresh

(* What FirstVerdictKept says of one step. *)
Kept == \A o \in Call : login[o].terminal = TRUE /\ login[o].ready # "unsettled" =>
          login'[o].state = login[o].state

LEMMA TypedLogin ==
  ASSUME TypeOK
  PROVE  Typed(login)
BY DEF TypeOK, Typed

LEMMA NoLoginKept ==
  ASSUME NEW ls, NEW new, Moves(ls, new), NEW c \in Call, ls[c] = NoLogin
  PROVE  new[c] = NoLogin
BY DEF Moves, Started, NoLogin

LEMMA GoodTyped ==
  ASSUME NEW ms, NEW ls, Good(ms, ls), Typed(ls)
  PROVE  ms \in [Call -> Manager] /\ ls \in [Call -> Operation]
BY DEF Good, Sound, Typed

LEMMA MovesKeeps ==
  ASSUME Moves(login, login')
  PROVE  Kept
BY DEF Moves, Step, Evolves, Kept

(* A step that starts no operation. *)
LEMMA QuietStep ==
  ASSUME IInv, Moves(login, login'), Good(manager', login'),
         slot' \in {slot, None},
         \A c \in Call : manager'[c] = manager[c] \/ slot = c,
         pc' = pc \/ \E c \in Call, s \in {"disposing", "starting", "done"} :
                       /\ pc' = [pc EXCEPT ![c] = s]
                       /\ s = "disposing" => pc[c] \in {"idle", "disposing"},
         joining' \in [Call -> Call \cup {None}],
         unloading' \in {"no", "joining", "done"},
         retired' \in Call \cup {None}
  PROVE  IInv' /\ Kept
<1>1. Typed(login')
  BY DEF Moves, Typed
<1>2. /\ pc' \in [Call -> {"idle", "disposing", "starting", "done"}]
      /\ \A c \in Call : pc'[c] \in {"idle", "disposing"} => pc[c] \in {"idle", "disposing"}
  BY DEF IInv, TypeOK
<1>3. TypeOK'
  BY <1>1, <1>2, GoodTyped DEF IInv, TypeOK
<1>4. Fresh'
  <2> SUFFICES ASSUME NEW c \in Call, pc'[c] \in {"idle", "disposing"}
               PROVE  slot' # c /\ manager'[c] = NewManager /\ login'[c] = NoLogin
    BY DEF Fresh
  <2>1. slot # c /\ manager[c] = NewManager /\ login[c] = NoLogin
    BY <1>2 DEF IInv, Fresh
  <2> QED
    BY <2>1, NoLoginKept, ConstAssumption
<1> QED
  BY <1>3, <1>4, MovesKeeps DEF IInv

(* A step in which call c starts, on a manager m that no other fresh call may *)
(* create.                                                                   *)
LEMMA StartingStep ==
  ASSUME IInv, NEW c \in Call, pc[c] \in {"idle", "disposing"},
         NEW ms, NEW ls, NEW m \in Call,
         Moves(login, ls), Good(ms, ls),
         \A x \in Call : ms[x] = manager[x] \/ slot = x,
         m = c \/ m = slot,
         slot' \in {slot, c},
         StartOn(c, m, ms, ls),
         joining' = joining, unloading' = unloading, retired' = retired
  PROVE  IInv' /\ Kept
<1>1. slot # c /\ manager[c] = NewManager /\ login[c] = NoLogin
  BY DEF IInv, Fresh
<1>2. ls[c] = NoLogin
  BY <1>1, NoLoginKept
<1>3. Typed(ls)
  BY DEF Moves, Typed
<1>4. /\ Good(manager', login')
      /\ Typed(login')
      /\ \A x \in Call \ {c} : login'[x] = ls[x]
      /\ \A x \in Call \ {m} : manager'[x] = ms[x]
      /\ \E s \in {"starting", "done"} : pc' = [pc EXCEPT ![c] = s]
  BY <1>2, <1>3, StartOnGood DEF IInv, TypeOK, Typed
<1>5. /\ pc' \in [Call -> {"idle", "disposing", "starting", "done"}]
      /\ \A d \in Call : pc'[d] \in {"idle", "disposing"} =>
           d # c /\ pc[d] \in {"idle", "disposing"}
  BY <1>4 DEF IInv, TypeOK
<1>6. TypeOK'
  BY <1>4, <1>5, GoodTyped DEF IInv, TypeOK
<1>7. Fresh'
  <2> SUFFICES ASSUME NEW d \in Call, pc'[d] \in {"idle", "disposing"}
               PROVE  slot' # d /\ manager'[d] = NewManager /\ login'[d] = NoLogin
    BY DEF Fresh
  <2>1. d # c /\ slot # d /\ manager[d] = NewManager /\ login[d] = NoLogin
    BY <1>5 DEF IInv, Fresh
  <2>2. ls[d] = NoLogin
    BY <2>1, NoLoginKept
  <2> QED
    BY <1>4, <2>1, <2>2
<1>8. Kept
  <2> SUFFICES ASSUME NEW o \in Call, login[o].terminal = TRUE, login[o].ready # "unsettled"
               PROVE  login'[o].state = login[o].state
    BY DEF Kept
  <2>1. o # c
    BY <1>1 DEF NoLogin
  <2> QED
    BY <1>4, <2>1 DEF Moves, Step, Evolves
<1> QED
  BY <1>4, <1>6, <1>7, <1>8 DEF IInv

-----------------------------------------------------------------------------
(* Every action *)

LEMMA InitIInv ==
  ASSUME Init
  PROVE  IInv
<1>1. /\ NoLogin \in Operation /\ NoLogin.child = "none"
      /\ NewManager \in Manager
      /\ NewManager.operation = None /\ NewManager.disposed = FALSE
  BY DEF NoLogin, Operation, States, Fields, NewManager, Manager
<1>2. TypeOK
  BY <1>1 DEF Init, TypeOK
<1>3. Good(manager, login)
  BY <1>1 DEF Init, Good, Sound, Owned, Reachable
<1>4. Fresh
  BY ConstAssumption DEF Init, Fresh
<1> QED
  BY <1>2, <1>3, <1>4 DEF IInv

LEMMA StartInv ==
  ASSUME IInv, NEW c \in Call, Start(c)
  PROVE  IInv' /\ Kept
<1> DEFINE kept(ls) == slot # None /\ Current(slot) # None
           swept(ls) == IF slot = None \/ manager[slot].disposed
                          THEN ls ELSE Disposing(slot, ls)
           managers == IF slot = None THEN manager
                       ELSE [manager EXCEPT ![slot].disposed = TRUE]
<1>1. PICK looked \in Looked(slot) :
        \/ /\ slot # None
           /\ StartOn(c, slot, manager, looked) /\ UNCHANGED <<slot, joining>>
        \/ Create(c, managers, swept(looked)) /\ UNCHANGED joining
        \/ /\ slot # None /\ manager[slot].disposed = FALSE
           /\ manager' = managers
           /\ login' = swept(looked)
           /\ joining' = [joining EXCEPT ![c] = slot]
           /\ Goto(c, "disposing")
           /\ UNCHANGED slot
  BY DEF Start, IInv, TypeOK, Manager
<1>2. /\ Good(manager, login) /\ Typed(login) /\ slot \in Call \cup {None}
      /\ pc[c] = "idle" /\ unloading' = unloading /\ retired' = retired
  BY TypedLogin DEF IInv, TypeOK, Start
<1>3. /\ Moves(login, looked) /\ Good(manager, looked) /\ Typed(looked)
  BY <1>1, <1>2, LookedMoves, GoodMoves DEF Moves, Typed
<1>4. Moves(login, swept(looked)) /\ Good(manager, swept(looked))
  BY <1>2, <1>3, DisposingMoves, GoodMoves, MovesTransitive, MovesReflexive
<1>5. Good(managers, swept(looked))
  <2>1. CASE slot = None
    BY <1>4, <2>1
  <2>2. CASE slot # None
    <3> DEFINE ls == swept(looked)
    <3>1. manager[slot].operation # None => ls[manager[slot].operation].child # "running"
      <4>1. CASE manager[slot].disposed = FALSE
        BY <1>2, <1>3, <2>2, <4>1, DisposingMoves DEF Current
      <4>2. CASE manager[slot].disposed = TRUE
        BY <1>2, <1>3, <1>4, <2>2, <4>2, CurrentStarted
           DEF Good, Reachable, Owned, Manager
      <4> QED
        BY <1>2, <2>2, <4>1, <4>2 DEF Good, Manager
    <3>2. Good(manager, ls) /\ slot \in Call
      BY <1>2, <1>4, <2>2
    <3> HIDE DEF ls
    <3>3. Good([manager EXCEPT ![slot].disposed = TRUE], ls)
      BY <3>1, <3>2, GoodDisposed
    <3> QED
      BY <2>2, <3>3 DEF ls
  <2> QED
    BY <2>1, <2>2
<1>6. \A x \in Call : managers[x] = manager[x] \/ slot = x
  BY <1>2 DEF Good
<1>7. CASE /\ slot # None
           /\ StartOn(c, slot, manager, looked) /\ UNCHANGED <<slot, joining>>
  BY <1>2, <1>3, <1>7, StartingStep
<1> HIDE DEF managers, swept
<1>8. CASE Create(c, managers, swept(looked)) /\ UNCHANGED joining
  BY <1>2, <1>4, <1>5, <1>6, <1>8, StartingStep DEF Create
<1>9. CASE /\ slot # None
           /\ manager' = managers
           /\ login' = swept(looked)
           /\ joining' = [joining EXCEPT ![c] = slot]
           /\ Goto(c, "disposing")
           /\ UNCHANGED slot
  <2>1. joining' \in [Call -> Call \cup {None}]
    BY <1>2, <1>9 DEF IInv, TypeOK
  <2>2. /\ Moves(login, login') /\ Good(manager', login')
        /\ slot' \in {slot, None}
        /\ \A x \in Call : manager'[x] = manager[x] \/ slot = x
        /\ pc' = [pc EXCEPT ![c] = "disposing"]
    BY <1>4, <1>5, <1>6, <1>9 DEF Goto
  <2> QED
    BY <1>2, <2>1, <2>2, QuietStep DEF IInv, TypeOK
<1> QED
  BY <1>1, <1>7, <1>8, <1>9 DEF managers, swept

LEMMA ReplaceInv ==
  ASSUME IInv, NEW c \in Call, Replace(c)
  PROVE  IInv' /\ Kept
<1>1. /\ pc[c] = "disposing"
      /\ StartOn(c, c, manager, Swept(joining[c])) /\ slot' = c
      /\ UNCHANGED <<joining, unloading, retired>>
      /\ Joined(joining[c])
  BY DEF Replace, Create
<1>2. Moves(login, Swept(joining[c])) /\ Good(manager, Swept(joining[c]))
  BY <1>1, SweptMoves, GoodMoves DEF IInv
<1> QED
  BY <1>1, <1>2, StartingStep

LEMMA StartReturnsInv ==
  ASSUME IInv, NEW c \in Call, StartReturns(c)
  PROVE  IInv' /\ Kept
<1>1. Typed(login) /\ Sound(login[c]) /\ Good(manager, login)
  BY TypedLogin DEF IInv, Good
<1>2. Moves(login, login')
  <2>1. CASE login' = login
    BY <1>1, <2>1, MovesReflexive
  <2>2. CASE /\ login[c].ready = "resolved" /\ login[c].terminal = FALSE
             /\ login' = [login EXCEPT ![c] = Scheduled([login[c] EXCEPT !.state = "pending"])]
    <3> DEFINE r == login[c]
               e == [r EXCEPT !.state = "pending"]
               t == [e EXCEPT !.timer = "expiry"]
    <3>1. /\ Sound(r) /\ r \in Operation
          /\ r.child \in {"none", "running"}
          /\ r.terminal = FALSE /\ r.ready = "resolved"
      BY <1>1, <2>2 DEF Sound, Operation
    <3>2. r.child = "running"
      BY <1>1, <2>2, <3>1 DEF Good, NoLogin
    <3> HIDE DEF r
    <3>3. /\ e \in Operation
          /\ e.child = r.child /\ e.terminal = FALSE /\ e.manager = r.manager
          /\ e.ready = r.ready
      BY <3>1 DEF Operation, States
    <3>4. Scheduled(e) = t
      BY <3>3 DEF Scheduled
    <3> HIDE DEF e
    <3>5. /\ t \in Operation
          /\ t.child = e.child /\ t.terminal = FALSE /\ t.manager = e.manager
          /\ t.ready = e.ready /\ t.timer = "expiry"
      BY <3>3 DEF Operation
    <3> HIDE DEF t
    <3>6. r \in Started /\ Step(r, t)
      BY <3>1, <3>2, <3>3, <3>5 DEF Step, Started, Sound, Evolves
    <3>7. login' = [login EXCEPT ![c] = t]
      BY <2>2, <3>4 DEF r, e
    <3>8. login[c] \in Started /\ Step(login[c], t)
      BY <3>6 DEF r
    <3> QED
      BY <1>1, <3>7, <3>8 DEF Moves, Typed
  <2> QED
    BY <1>1, <2>1, <2>2 DEF StartReturns, Sound, Operation
<1>3. Good(manager', login')
  BY <1>1, <1>2, GoodMoves DEF StartReturns
<1> QED
  BY <1>2, <1>3, QuietStep DEF StartReturns, Goto, IInv, TypeOK

LEMMA StatusInv ==
  ASSUME IInv, Status
  PROVE  IInv' /\ Kept
<1>1. Good(manager, login) /\ Typed(login) /\ slot \in Call \cup {None}
  BY TypedLogin DEF IInv, TypeOK
<1>2. Moves(login, login')
  BY <1>1, LookedMoves DEF Status
<1>3. Good(manager', login')
  BY <1>1, <1>2, GoodMoves DEF Status
<1> QED
  BY <1>2, <1>3, QuietStep DEF Status, IInv, TypeOK

(* One operation goes one step; nothing else changes. *)
LEMMA BecomesInv ==
  ASSUME IInv, NEW o \in Call, NEW r,
         login[o] \in Started, Step(login[o], r), Becomes(o, r)
  PROVE  IInv' /\ Kept
<1>1. Good(manager, login) /\ Typed(login)
  BY TypedLogin DEF IInv
<1>2. Moves(login, login')
  BY <1>1 DEF Becomes, Moves, Typed
<1>3. Good(manager', login')
  BY <1>1, <1>2, GoodMoves DEF Becomes
<1> QED
  BY <1>2, <1>3, QuietStep DEF Becomes, IInv, TypeOK

LEMMA CancelInv ==
  ASSUME IInv, Cancel
  PROVE  IInv' /\ Kept
<1> DEFINE o == Current(slot)
           r == Ended(login[o], "cancelled")
<1>1. slot \in Call /\ o # None /\ Good(manager, login)
  BY DEF Cancel, IInv, TypeOK
<1>2. o \in Call /\ login[o] \in Started
  BY <1>1, CurrentStarted DEF Current
<1>3. Becomes(o, r)
  BY DEF Cancel, Becomes
<1>4. login[o].terminal = FALSE /\ "cancelled" \in Final
  BY <1>2 DEF Cancel, Started, Operation, Final, Verdicts
<1> HIDE DEF o
<1>5. Step(login[o], r)
  BY <1>2, <1>4, EndedStep
<1> HIDE DEF r
<1> QED
  BY <1>2, <1>3, <1>5, BecomesInv

LEMMA UnloadInv ==
  ASSUME IInv, Unload
  PROVE  IInv' /\ Kept
<1>1. Good(manager, login) /\ Typed(login) /\ slot \in Call
  BY TypedLogin DEF IInv, TypeOK, Unload
<1>2. /\ Moves(login, login')
      /\ manager[slot].operation # None => login'[manager[slot].operation].child # "running"
  BY <1>1, DisposingMoves DEF Unload, Current
<1>3. Good(manager, login')
  BY <1>1, <1>2, GoodMoves
<1>4. Good(manager', login')
  <2> DEFINE ls == login'
  <2>1. /\ Good(manager, ls)
        /\ manager[slot].operation # None => ls[manager[slot].operation].child # "running"
    BY <1>2, <1>3
  <2> HIDE DEF ls
  <2>2. Good([manager EXCEPT ![slot].disposed = TRUE], ls)
    BY <1>1, <2>1, GoodDisposed
  <2> QED
    BY <2>2 DEF ls, Unload
<1>5. \A c \in Call : manager'[c] = manager[c] \/ slot = c
  BY <1>1 DEF Unload, Good
<1> QED
  BY <1>1, <1>2, <1>4, <1>5, QuietStep DEF Unload, IInv, TypeOK

LEMMA UnloadedInv ==
  ASSUME IInv, UnloadAtOnce \/ Unloaded
  PROVE  IInv' /\ Kept
<1>1. Good(manager, login) /\ Typed(login)
  BY TypedLogin DEF IInv
<1>2. Moves(login, login')
  BY <1>1, MovesReflexive, SweptMoves DEF UnloadAtOnce, Unloaded
<1>3. Good(manager', login')
  BY <1>1, <1>2, GoodMoves DEF UnloadAtOnce, Unloaded
<1> QED
  BY <1>2, <1>3, QuietStep DEF UnloadAtOnce, Unloaded, IInv, TypeOK

(* An operation with a process has been started. *)
LEMMA ExistsStarted ==
  ASSUME IInv, NEW o \in Call, Exists(o)
  PROVE  login[o] \in Started
BY DEF IInv, Good, Sound, Started, Exists

LEMMA OutputInv ==
  ASSUME IInv, NEW o \in Call, Output(o)
  PROVE  IInv' /\ Kept
<1>1. PICK l1, l2 \in Prints : Becomes(o, Chunk(login[o], l1, l2))
  BY DEF Output
<1>2. login[o] \in Started
  BY ExistsStarted DEF Output
<1>3. Step(login[o], Chunk(login[o], l1, l2))
  BY <1>2, ChunkStep
<1> QED
  BY <1>1, <1>2, <1>3, BecomesInv

LEMMA OutputEndsInv ==
  ASSUME IInv, NEW o \in Call, OutputEnds(o)
  PROVE  IInv' /\ Kept
<1> DEFINE s(broken) == IF broken \/ login[o].ready = "unsettled"
                          THEN Failed(login[o], "failed") ELSE login[o]
<1>1. PICK broken \in BOOLEAN : Becomes(o, [s(broken) EXCEPT !.stream = "ended"])
  BY DEF OutputEnds
<1>2. login[o] \in Started
  BY ExistsStarted DEF OutputEnds
<1> DEFINE f == s(broken)
           r == [f EXCEPT !.stream = "ended"]
<1>3. Step(login[o], f)
  BY <1>2, FailedStep, StepReflexive DEF Final, Verdicts
<1>4. Becomes(o, r)
  BY <1>1
<1> HIDE DEF f
<1>5. /\ r \in Operation
      /\ r.child = f.child /\ r.terminal = f.terminal /\ r.timer = f.timer
      /\ r.manager = f.manager /\ r.ready = f.ready /\ r.state = f.state
  BY <1>3 DEF Step, Started, Operation
<1> HIDE DEF r
<1>6. Step(login[o], r)
  BY <1>3, <1>5 DEF Step, Started, Sound, Evolves
<1> QED
  BY <1>2, <1>4, <1>6, BecomesInv

LEMMA TimerFiresInv ==
  ASSUME IInv, NEW o \in Call, TimerFires(o)
  PROVE  IInv' /\ Kept
<1>1. PICK state \in Final : Becomes(o, Failed(login[o], state))
  BY DEF TimerFires, Final, Verdicts
<1>2. login[o] \in Started
  BY DEF TimerFires, IInv, Good, Sound, Started, NoLogin
<1>3. Step(login[o], Failed(login[o], state))
  BY <1>2, FailedStep
<1> QED
  BY <1>1, <1>2, <1>3, BecomesInv

(* The process is gone before the operation is told so. *)
LEMMA ChildExitsInv ==
  ASSUME IInv, NEW o \in Call, ChildExits(o)
  PROVE  IInv' /\ Kept
<1> DEFINE r == login[o]
           x == [r EXCEPT !.child = "exited"]
           t == Failed(x, "failed")
<1>1. r \in Started /\ Becomes(o, t)
  BY DEF ChildExits, IInv, Good, Sound, Started
<1> HIDE DEF r
<1>2. /\ x \in Operation /\ x.child = "exited"
      /\ x.terminal = r.terminal /\ x.manager = r.manager
      /\ x.ready = r.ready /\ x.state = r.state /\ x.timer = r.timer
  BY <1>1 DEF Started, Operation
<1> HIDE DEF x
<1>3. Step(r, t)
  <2>1. CASE x.terminal = TRUE
    BY <1>1, <1>2, <2>1 DEF Failed, Step, Started, Sound, Evolves
  <2>2. CASE x.terminal = FALSE
    <3> DEFINE e == [x EXCEPT !.state = "failed", !.terminal = TRUE, !.timer = "none"]
               j == [e EXCEPT !.ready = IF e.ready = "unsettled" THEN "rejected" ELSE e.ready]
               k == [j EXCEPT !.child = IF j.child = "running" THEN "terminating" ELSE j.child]
    <3>1. t = k
      BY <2>2 DEF Failed, Ended, Terminated, Rejected
    <3>2. /\ e \in Operation
          /\ e.terminal = TRUE /\ e.child = "exited" /\ e.manager = x.manager
          /\ e.ready = x.ready
      BY <1>2 DEF Operation, States, Final, Verdicts
    <3> HIDE DEF e
    <3>3. /\ j \in Operation
          /\ j.terminal = TRUE /\ j.child = "exited" /\ j.manager = e.manager
          /\ j.ready = IF e.ready = "unsettled" THEN "rejected" ELSE e.ready
      BY <3>2 DEF Operation
    <3> HIDE DEF j
    <3>4. /\ k \in Operation
          /\ k.terminal = TRUE /\ k.child = "exited" /\ k.manager = j.manager
          /\ k.ready = j.ready
      BY <3>3 DEF Operation
    <3> HIDE DEF k, t
    <3> QED
      BY <1>1, <1>2, <2>2, <3>1, <3>2, <3>3, <3>4 DEF Step, Started, Sound, Evolves
  <2> QED
    BY <1>2, <2>1, <2>2 DEF Operation
<1> HIDE DEF t
<1> QED
  BY <1>1, <1>3, BecomesInv DEF r

LEMMA JoinFailsInv ==
  ASSUME IInv, NEW o \in Call, JoinFails(o)
  PROVE  IInv' /\ Kept
<1> DEFINE r == login[o]
           x == [r EXCEPT !.child = "abandoned"]
<1>1. r \in Started /\ r.child = "terminating" /\ Becomes(o, x)
  BY DEF JoinFails, IInv, Good, Sound, Started
<1> HIDE DEF r
<1>2. /\ x \in Operation /\ x.child = "abandoned"
      /\ x.terminal = r.terminal /\ x.manager = r.manager
      /\ x.ready = r.ready /\ x.state = r.state
  BY <1>1 DEF Started, Operation
<1> HIDE DEF x
<1>3. Step(r, x)
  BY <1>1, <1>2 DEF Step, Started, Sound, Evolves
<1> QED
  BY <1>1, <1>3, BecomesInv DEF r

LEMMA StutterInv ==
  ASSUME IInv, UNCHANGED vars
  PROVE  IInv' /\ Kept
<1>1. Moves(login, login') /\ Good(manager', login')
  BY TypedLogin, MovesReflexive DEF IInv, vars
<1> QED
  BY <1>1, QuietStep DEF vars, IInv, TypeOK

LEMMA StepIInv ==
  ASSUME IInv, [Next]_vars
  PROVE  IInv' /\ Kept
<1>1. CASE Status
  BY <1>1, StatusInv
<1>2. CASE Cancel
  BY <1>2, CancelInv
<1>3. CASE Unload
  BY <1>3, UnloadInv
<1>4. CASE UnloadAtOnce \/ Unloaded
  BY <1>4, UnloadedInv
<1>5. ASSUME NEW c \in Call, Start(c)
      PROVE  IInv' /\ Kept
  BY <1>5, StartInv
<1>6. ASSUME NEW c \in Call, Replace(c)
      PROVE  IInv' /\ Kept
  BY <1>6, ReplaceInv
<1>7. ASSUME NEW c \in Call, StartReturns(c)
      PROVE  IInv' /\ Kept
  BY <1>7, StartReturnsInv
<1>8. ASSUME NEW c \in Call, Output(c)
      PROVE  IInv' /\ Kept
  BY <1>8, OutputInv
<1>9. ASSUME NEW c \in Call, OutputEnds(c)
      PROVE  IInv' /\ Kept
  BY <1>9, OutputEndsInv
<1>10. ASSUME NEW c \in Call, TimerFires(c)
       PROVE  IInv' /\ Kept
  BY <1>10, TimerFiresInv
<1>11. ASSUME NEW c \in Call, ChildExits(c)
       PROVE  IInv' /\ Kept
  BY <1>11, ChildExitsInv
<1>12. ASSUME NEW c \in Call, JoinFails(c)
       PROVE  IInv' /\ Kept
  BY <1>12, JoinFailsInv
<1>13. CASE UNCHANGED vars
  BY <1>13, StutterInv
<1> QED
  BY <1>1, <1>2, <1>3, <1>4, <1>5, <1>6, <1>7, <1>8, <1>9, <1>10, <1>11, <1>12, <1>13
  DEF Next

LEMMA Invariance == Spec => []IInv
<1>1. Init => IInv
  BY InitIInv
<1>2. IInv /\ [Next]_vars => IInv'
  BY StepIInv
<1> QED
  BY <1>1, <1>2, PTL DEF Spec

-----------------------------------------------------------------------------
(* The theorems *)

(* Every reachable state has the types TypeOK names. *)
THEOREM TypeCorrect == Spec => []TypeOK
<1>1. IInv => TypeOK
  BY DEF IInv
<1> QED
  BY <1>1, Invariance, PTL

(* A login process that was not told to end belongs to a login underway, the  *)
(* one cancel() and dispose() of its manager reach.                          *)
THEOREM LoginReachable == Spec => []RunningIsReachable
<1>1. IInv => RunningIsReachable
  <2> SUFFICES ASSUME IInv, NEW o \in Call, login[o].child = "running"
               PROVE  /\ ~login[o].terminal
                      /\ Current(login[o].manager) = o
                      /\ ~manager[login[o].manager].disposed
    BY DEF RunningIsReachable
  <2>1. Good(manager, login)
    BY DEF IInv
  <2> QED
    BY <2>1 DEF Good, Sound, Reachable, Current
<1> QED
  BY <1>1, Invariance, PTL

(* A login that is underway has a timer that will end it. *)
THEOREM LoginArmed == Spec => []ArmedUntilEnded
<1>1. IInv => ArmedUntilEnded
  BY DEF IInv, Good, Sound, Exists, ArmedUntilEnded, Operation
<1> QED
  BY <1>1, Invariance, PTL

(* The first of timeout, expiry, cancel(), dispose(), exit and verdict is the *)
(* one a login shows ever after.                                             *)
THEOREM VerdictKept == Spec => FirstVerdictKept
<1>1. IInv /\ [Next]_vars =>
        [\A o \in Call : login[o].terminal =>
           \/ login'[o].state = login[o].state
           \/ login[o].ready = "unsettled"]_vars
  <2> SUFFICES ASSUME IInv, [Next]_vars
               PROVE  \A o \in Call : login[o].terminal =>
                        \/ login'[o].state = login[o].state
                        \/ login[o].ready = "unsettled"
    OBVIOUS
  <2>1. Kept
    BY StepIInv
  <2> QED
    BY <2>1 DEF Kept, IInv, TypeOK, Operation
<1> QED
  BY <1>1, Invariance, PTL DEF Spec, FirstVerdictKept
=============================================================================
