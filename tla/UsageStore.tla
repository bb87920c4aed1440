----------------------------- MODULE UsageStore -----------------------------
(***************************************************************************)
(* The SQLite analytics store: receipts, request rows, rollup tables,      *)
(* snapshots, dead letters, retention (engine.ts), and the opening of its  *)
(* database (schema.ts).  Every operation of the engine is one immediate   *)
(* transaction, hence one action; the steps of an opening are separate     *)
(* because the process may die between them.                               *)
(*                                                                         *)
(* An observation is a record: key names the source event, the record      *)
(* itself stands for the payload fingerprint; who stands for the text      *)
(* dimensions ("" when unknown), toks for the nullable measurements, core  *)
(* for the fields two observations of a request must share.  Time is       *)
(* counted in hours of a short day; the wall clock never goes back, but    *)
(* what is ingested may bear any time, a future one too.                   *)
(***************************************************************************)
EXTENDS UsageProjection, FiniteSetsExt

CONSTANTS Observations,  \* request observations that may be delivered
          Readings,      \* quota and account health observations
          Letters,       \* dead-letter observations
          DayLen,        \* hours in a day
          RawDays,       \* RAW_DAYS
          RollupDays,    \* ROLLUP_DAYS
          MaxDelete,     \* rows one maintenance deletes from one table
          MaxTime,       \* bound: the last hour modelled
          MaxDead,       \* bound: dead letters recorded
          LastRestart    \* bound: the engine is not opened, closed or killed
                         \* after this hour

ASSUME RetentionAssumption ==
  /\ DayLen \in Nat \ {0} /\ RawDays \in Nat
  /\ RollupDays \in Nat /\ RollupDays >= RawDays
  /\ MaxTime \in Nat /\ MaxDelete \in Nat

VARIABLES now,       \* the wall clock
          phase,     \* of the engine: "closed", "migrate", "version", "lease", "open"
          file,      \* the database: tables, ledger row, user_version, lease
          receipts,  \* ingest_receipts
          raw,       \* raw_request_events
          hourly,    \* usage_hourly
          daily,     \* usage_daily
          snaps,     \* quota_snapshots and account_health_snapshots
          dead,      \* dead_letter_events
          state,     \* the counters of collector_state
          due, current, horizon   \* history: see UsageLedger

tables  == <<receipts, raw, hourly, daily, snaps, dead, state>>
history == <<due, current, horizon>>
vars    == <<now, phase, file, tables, history>>

Hours == 0..MaxTime
utcBucket(t, size) == t - (t % size)
Day(t) == utcBucket(t, DayLen)
Dims(who) == [d \in Dimensions |-> who]
RawCutoff    == Day(now) - RawDays * DayLen
(* Mutant of RollupCutoff: everything is kept as long as request rows.     *)
RollupCutoff_AsRaw == Day(now) - RawDays * DayLen

RollupCutoff == Day(now) - RollupDays * DayLen
OutsideRetention(t) == t < now - RollupDays * DayLen

Sources == {"gateway", "cpa_http_usage"}
Kinds   == {"quota_snapshot", "account_health_snapshot"}

\* What the validators of the storage let through (storage/validation.ts), up
\* to the last hour modelled.
ASSUME InputAssumption ==
  /\ \A o \in Observations : o.src \in Sources /\ o.at \in Hours /\ o.toks \in Nat \cup {Null}
  /\ \A q \in Readings : q.kind \in Kinds /\ q.at \in Hours
  /\ \A l \in Letters : l.src \in Sources \cup Kinds /\ l.at \in Hours
  /\ MaxDead \in Nat

Known(f(_)) == {f(o) : o \in Observations}

\* The columns of the tables.
CollectorState == [committed : Nat, dead : 0..MaxDead]
RawRow == [req : Known(LAMBDA o : o.req), at : Hours, core : Known(LAMBDA o : o.core),
           seen : (SUBSET Sources) \ {{}}, who : Known(LAMBDA o : o.who),
           toks : Known(LAMBDA o : o.toks),
           price : [rule : {r.id : r \in Rules} \cup {Null},
                    state : {"priced", "partial", "unpriced"}, known : Nat]]
UsageRow == [bucket : Hours, who : Known(LAMBDA o : o.who), requests : Nat, tokens : Nat,
             priced : Nat, known : Nat]
ReceiptRow == [kind : {"gateway_request", "cpa_http_usage"} \cup Kinds,
               key : {o.key : o \in Observations \cup Readings},
               payload : Observations \cup Readings, last : Hours]
LetterRow == [id : 1..MaxDead, src : Sources \cup Kinds,
              key : {o.key : o \in Observations \cup Readings \cup Letters},
              payload : Observations \cup Readings \cup Letters, at : Hours]

Init ==
  /\ now = 0 /\ phase = "closed"
  /\ file = [tables |-> FALSE, ledger |-> FALSE, version |-> 0, leased |-> FALSE]
  /\ receipts = {} /\ raw = {} /\ hourly = {} /\ daily = {}
  /\ snaps = {} /\ dead = {}
  /\ state = [committed |-> 0, dead |-> 0]
  /\ due = {} /\ current = {} /\ horizon = 0

-----------------------------------------------------------------------------
\* Opening: constructor, openAndMigrateDatabase, applyMigrations.

Open ==
  /\ phase = "closed" /\ now <= LastRestart
  /\ phase' = IF file.version > 1 THEN "closed"
              ELSE IF file.ledger THEN "version" ELSE "migrate"
  /\ UNCHANGED <<now, file, tables, history>>

\* BEGIN .. COMMIT of the migration; an error rolls all of it back.
Migrate ==
  /\ phase = "migrate"
  /\ \/ ~file.tables /\ phase' = "version"
        /\ file' = [file EXCEPT !.tables = TRUE, !.ledger = TRUE]
     \/ phase' = "closed" /\ UNCHANGED file
  /\ UNCHANGED <<now, tables, history>>

(* Mutant of SetVersion: the mark is one too high.                          *)
SetVersion_Newer ==
  /\ phase = "version"
  /\ phase' = "lease" /\ file' = [file EXCEPT !.version = 2]
  /\ UNCHANGED <<now, tables, history>>

SetVersion ==
  /\ phase = "version"
  /\ phase' = "lease" /\ file' = [file EXCEPT !.version = 1]
  /\ UNCHANGED <<now, tables, history>>

AcquireLease ==
  /\ phase = "lease"
  /\ phase' = IF file.leased THEN "closed" ELSE "open"
  /\ file' = [file EXCEPT !.leased = TRUE]
  /\ UNCHANGED <<now, tables, history>>

Close ==
  /\ phase = "open" /\ now <= LastRestart
  /\ phase' = "closed" /\ file' = [file EXCEPT !.leased = FALSE]
  /\ UNCHANGED <<now, tables, history>>

\* The process dies: what was committed stays, the lease included.
Crash ==
  /\ phase # "closed" /\ now <= LastRestart
  /\ phase' = "closed"
  /\ UNCHANGED <<now, file, tables, history>>

Tick ==
  /\ now < MaxTime
  /\ now' = now + 1
  /\ UNCHANGED <<phase, file, tables, history>>

-----------------------------------------------------------------------------
\* Receipts and dead letters.

ReceiptsOf(kind, key) == {r \in receipts : r.kind = kind /\ r.key = key}
Receipt(kind, o) == [kind |-> kind, key |-> o.key, payload |-> o, last |-> now]

insertReceipt(kind, o) == receipts' = receipts \cup {Receipt(kind, o)}
touchReceipt(kind, o) ==
  receipts' = (receipts \ ReceiptsOf(kind, o.key)) \cup {Receipt(kind, o)}

recordDeadLetter(src, key, payload, at) ==
  /\ state.dead < MaxDead
  /\ dead' = dead \cup {[id |-> state.dead + 1, src |-> src, key |-> key,
                         payload |-> payload, at |-> at]}
  /\ state' = [state EXCEPT !.dead = @ + 1]

\* A known source event: the same payload refreshes its receipt, another one
\* is a dead letter.
KnownEvent(kind, src, o) ==
  \E r \in ReceiptsOf(kind, o.key) :
    \/ /\ r.payload = o
       /\ touchReceipt(kind, o)
       /\ UNCHANGED <<dead, state>>
    \/ /\ r.payload # o
       /\ recordDeadLetter(src, o.key, o, now)
       /\ UNCHANGED receipts

-----------------------------------------------------------------------------
\* Request rows and the rollups rebuilt from them.

newRequest(o) == [req |-> o.req, at |-> o.at, core |-> o.core,
                  seen |-> {o.src}, who |-> o.who, toks |-> o.toks, price |-> Unpriced]

Conflicting(row, o) ==
  \/ o.src \in row.seen
  \/ row.at # o.at \/ row.core # o.core
  \/ row.who # "" /\ o.who # "" /\ row.who # o.who
  \/ row.toks # Null /\ o.toks # Null /\ row.toks # o.toks

mergeRequest(row, o) ==
  [row EXCEPT !.seen = @ \cup {o.src},
              !.who  = IF @ = "" THEN o.who ELSE @,
              !.toks = IF @ = Null THEN o.toks ELSE @]

\* A row is priced again whenever it is written; a request is one unit.
Priced(row) == [row EXCEPT !.price = applyPricing(Rules, Dims(row.who), row.at, 1, row.toks)]

\* One usage row per bucket and dimension value.
Aggregate(rows, size) ==
  {LET group == {r \in rows : utcBucket(r.at, size) = k[1] /\ r.who = k[2]}
   IN [bucket |-> k[1], who |-> k[2], requests |-> Cardinality(group),
       tokens |-> MapThenSumSet(LAMBDA r : IF r.toks = Null THEN 0 ELSE r.toks, group),
       priced |-> Cardinality({r \in group : r.price.state = "priced"}),
       known  |-> MapThenSumSet(LAMBDA r : r.price.known, group)]
   : k \in {<<utcBucket(r.at, size), r.who>> : r \in rows}}

InBucket(rows, size, b) == {r \in rows : utcBucket(r.at, size) = b}

(* Mutant of recomputeBuckets: groups whose rows moved away stay.           *)
recomputeBuckets_KeepGroups(table, rows, size, buckets) ==
  LET new == UNION {Aggregate(InBucket(rows, size, b), size) : b \in buckets}
  IN {u \in table : ~\E v \in new : v.bucket = u.bucket /\ v.who = u.who} \cup new

\* DELETE the buckets and INSERT what the remaining request rows add up to.
recomputeBuckets(table, rows, size, buckets) ==
  {u \in table : u.bucket \notin buckets}
    \cup UNION {Aggregate(InBucket(rows, size, b), size) : b \in buckets}

Kind(src) == IF src = "gateway" THEN "gateway_request" ELSE "cpa_http_usage"

ingestRequest(o) ==
  /\ phase = "open"
  /\ ~OutsideRetention(o.at)
  /\ UNCHANGED <<now, phase, file, snaps, horizon>>
  /\ \/ KnownEvent(Kind(o.src), o.src, o)
        /\ UNCHANGED <<raw, hourly, daily, due, current>>
     \/ /\ ReceiptsOf(Kind(o.src), o.key) = {}
        /\ insertReceipt(Kind(o.src), o)
        /\ \/ /\ \E row \in raw : row.req = o.req /\ Conflicting(row, o)
              /\ recordDeadLetter(o.src, o.key, o, now)
              /\ UNCHANGED <<raw, hourly, daily, due, current>>
           \/ /\ \A row \in raw : row.req = o.req => ~Conflicting(row, o)
              /\ LET previous == {row \in raw : row.req = o.req}
                     stored   == Priced(IF previous = {} THEN newRequest(o)
                                        ELSE mergeRequest(CHOOSE row \in previous : TRUE, o))
                     touched  == {row.at : row \in previous \cup {stored}}
                 IN /\ raw' = (raw \ previous) \cup {stored}
                    /\ hourly' = recomputeBuckets(hourly, raw', 1, touched)
                    /\ daily' = recomputeBuckets(daily, raw', DayLen, {Day(t) : t \in touched})
              /\ state' = [state EXCEPT !.committed = @ + 1]
              /\ due' = IF o.at <= now THEN due \cup {o} ELSE due
              /\ current' = current \cup {o}
              /\ UNCHANGED dead

\* ingestQuota and ingestAccountHealth.
ingestSnapshot(q) ==
  /\ phase = "open"
  /\ ~OutsideRetention(q.at)
  /\ \/ KnownEvent(q.kind, q.kind, q) /\ UNCHANGED snaps
     \/ /\ ReceiptsOf(q.kind, q.key) = {}
        /\ insertReceipt(q.kind, q)
        /\ snaps' = snaps \cup {q}
        /\ state' = [state EXCEPT !.committed = @ + 1]
        /\ UNCHANGED dead
  /\ UNCHANGED <<now, phase, file, raw, hourly, daily, history>>

\* Only the latest dead letter of the source event is compared.
ingestDeadLetter(l) ==
  /\ phase = "open"
  /\ l.at >= RawCutoff
  /\ LET earlier == {d \in dead : d.src = l.src /\ d.key = l.key}
     IN \A d \in earlier : (\A e \in earlier : e.id <= d.id) => d.payload # l
  /\ recordDeadLetter(l.src, l.key, l, l.at)
  /\ UNCHANGED <<now, phase, file, receipts, raw, hourly, daily, snaps, history>>

-----------------------------------------------------------------------------
\* Retention.

\* What deleteBatches may leave of a table: at most MaxDelete expired rows go,
\* and rows that have not expired stay.
deleteBatches(table, expired) ==
  LET n == IF Cardinality(expired) < MaxDelete THEN Cardinality(expired) ELSE MaxDelete
  IN {table \ gone : gone \in kSubset(n, expired)}

maintain ==
  /\ phase = "open"
  /\ raw' \in deleteBatches(raw, {r \in raw : r.at < RawCutoff})
  /\ dead' \in deleteBatches(dead, {d \in dead : d.at < RawCutoff})
  /\ hourly' \in deleteBatches(hourly, {u \in hourly : u.bucket < RollupCutoff})
  /\ daily' \in deleteBatches(daily, {u \in daily : u.bucket < RollupCutoff})
  /\ receipts' \in deleteBatches(receipts, {r \in receipts : r.last < RollupCutoff})
  /\ snaps' \in deleteBatches(snaps, {q \in snaps : q.at < RollupCutoff})
  /\ current' = {o \in current : \E row \in raw' : row.req = o.req}
  /\ horizon' = IF RawCutoff > horizon THEN RawCutoff ELSE horizon
  /\ UNCHANGED <<now, phase, file, state, due>>

Next ==
  \/ Open \/ Migrate \/ SetVersion \/ AcquireLease \/ Close \/ Crash \/ Tick
  \/ \E o \in Observations : ingestRequest(o)
  \/ \E q \in Readings : ingestSnapshot(q)
  \/ \E l \in Letters : ingestDeadLetter(l)
  \/ maintain

Spec == Init /\ [][Next]_vars

-----------------------------------------------------------------------------
\* Properties.

(* Every variable has its type: the tables hold rows of their columns.      *)
TypeOK ==
  /\ now \in Hours
  /\ phase \in {"closed", "migrate", "version", "lease", "open"}
  /\ file \in [tables : BOOLEAN, ledger : BOOLEAN, version : 0..1,
               leased : BOOLEAN]
  /\ receipts \subseteq ReceiptRow /\ raw \subseteq RawRow
  /\ hourly \subseteq UsageRow /\ daily \subseteq UsageRow
  /\ snaps \subseteq Readings
  /\ dead \subseteq LetterRow
  /\ state \in CollectorState
  /\ due \subseteq Observations /\ current \subseteq Observations
  /\ horizon \in Int

(* Where request rows are still all there, both rollup tables are what the  *)
(* rows add up to, through merges that move a request to another group,     *)
(* replays, conflicts and maintenance cut short by its batch limit.         *)
RollupMatchesRaw ==
  \A b \in {t \in Hours : t >= horizon} :
    /\ {u \in hourly : u.bucket = b} = Aggregate(InBucket(raw, 1, b), 1)
    /\ {u \in daily : u.bucket = b} = Aggregate(InBucket(raw, DayLen, b), DayLen)

(* The store implements UsageLedger: an observation accepted when its time  *)
(* had come is never accepted again, even after its receipt and its row     *)
(* were purged in whatever order, a request row is the join                 *)
(* of its observations in any order with the price that the matcher of the  *)
(* pipeline gives the join, and maintenance forgets nothing younger than    *)
(* its horizon.                                                             *)
Ledger == INSTANCE UsageLedger WITH rows <- raw
ImplementsLedger == Ledger!Spec

(* A usage record, an auth-files entry or a quota window that the client    *)
(* lets through becomes a row or a dead letter: nothing the projectors pass *)
(* on is refused by the validators of the storage, which would latch the    *)
(* collector.  Texts with a NUL are excepted: only the last stage knows     *)
(* them.  This does not depend on what the store holds, and is looked at    *)
(* while the database is being created.                                    *)
Plain(r) == \A k \in DOMAIN r : "nul" \in DOMAIN r[k] => ~r[k].nul
EveryRecordLands ==
  phase = "migrate" =>
    /\ \A r \in Records : Plain([k \in TextFields |-> r[k]]) => RecordLands(r)
    /\ \A f \in AuthFiles : Plain(f) => FileLands(f)
    /\ \A w \in Windows : WindowLands(w)

Requests(table, b) ==
  MapThenSumSet(LAMBDA u : u.requests, {u \in table : u.bucket = b})

(* Documented: both rollup tables keep their counts for the whole rollup    *)
(* retention, and a late record does not corrupt them.                      *)
RollupKeptForRetention ==
  [][\A b \in Hours : b >= RollupCutoff' =>
       Requests(daily', b) >= Requests(daily, b)]_vars

(* Documented: "Keeping receipts beyond the 30-day raw-detail window        *)
(* prevents a replay" (analytics-data-model.md), so that no observation or  *)
(* reading is committed a second time.  The code breaks this for one dated  *)
(* in the future: its receipt expires by the time it was received, while    *)
(* its own time is still within the retention.                              *)
CommittedOnce == state.committed <= Cardinality(Observations \cup Readings)

(* Documented: accountHealth returns the current state, hence a reading     *)
(* that the store was given is among its snapshots.  The code breaks this:  *)
(* the key of a reading has the time of the account's file, not its status, *)
(* so that another status of an untouched file counts as a conflict.        *)
HealthIsCurrent ==
  [][\A q \in Readings : q.kind = "account_health_snapshot" /\ ingestSnapshot(q) => q \in snaps']_vars
=============================================================================
