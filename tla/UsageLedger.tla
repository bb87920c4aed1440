---------------------------- MODULE UsageLedger ----------------------------
(***************************************************************************)
(* What the analytics store promises about usage observations, without     *)
(* receipts, tables or maintenance batches: an observation that does not   *)
(* bear a later time than the clock is accepted at most once, ever, and    *)
(* nothing is promised of one dated in the future but that it is not       *)
(* accepted for a row it contradicts; a request is one row, the join of the*)
(* observations accepted for it in whatever order they came; rows older    *)
(* than the retention horizon may be forgotten, younger ones may not.  Its *)
(* price is the estimate of the pipeline for the joined request.           *)
(***************************************************************************)
EXTENDS UsagePricing

CONSTANT Observations

VARIABLES now,        \* the wall clock, which never goes back
          due,        \* every observation accepted when its time had come
          current,    \* the accepted observations whose row is still kept
          horizon,    \* rows older than this may have been forgotten
          rows        \* the request rows a reader sees

vars == <<now, due, current, horizon, rows>>

\* The value all known ones agree on, or the mark of the unknown.
Agreed(values, unknown) ==
  IF values \subseteq {unknown} THEN unknown
  ELSE CHOOSE v \in values : v # unknown

Join(parts) ==
  LET one  == CHOOSE o \in parts : TRUE
      who  == Agreed({o.who : o \in parts}, "")
      toks == Agreed({o.toks : o \in parts}, Null)
      dims == [d \in Dimensions |-> who]
  IN [req  |-> one.req, at |-> one.at, core |-> one.core,
      seen |-> {o.src : o \in parts}, who |-> who, toks |-> toks,
      price |-> estimatePricing(Rules, dims, one.at, 1, toks)]

\* Observations that can be parts of one row: two sources, no contradiction.
Compatible(parts) ==
  \A o, p \in parts :
    /\ o.at = p.at /\ o.core = p.core
    /\ o.src = p.src => o = p
    /\ o.who = p.who \/ "" \in {o.who, p.who}
    /\ o.toks = p.toks \/ Null \in {o.toks, p.toks}

PartsOf(r, obs) == {o \in obs : o.req = r}
RowsOf(obs)     == {Join(PartsOf(r, obs)) : r \in {o.req : o \in obs}}

Init ==
  /\ due = {} /\ current = {} /\ rows = {}
  /\ now = 0 /\ horizon = 0

\* Another observation of a source event that was accepted in its time can
\* only follow when it is later: its receipt has then outlived the retention.
Accept(o) ==
  /\ current' = current \cup {o}
  /\ due' = IF o.at <= now THEN due \cup {o} ELSE due
  /\ \A p \in due : p.src = o.src /\ p.key = o.key => p.at < o.at
  /\ Compatible(PartsOf(o.req, current) \cup {o})
  /\ rows' = RowsOf(current')
  /\ UNCHANGED <<now, horizon>>

Forget ==
  /\ horizon' \in Nat /\ horizon' >= horizon
  /\ current' \subseteq current
  /\ \A o \in current \ current' :
        o.at < horizon' /\ PartsOf(o.req, current') = {}
  /\ rows' = RowsOf(current')
  /\ UNCHANGED <<now, due>>

Tick ==
  /\ now' \in Nat /\ now' >= now
  /\ UNCHANGED <<due, current, horizon, rows>>

Next == Tick \/ Forget \/ \E o \in Observations : Accept(o)

Spec == Init /\ [][Next]_vars
=============================================================================
