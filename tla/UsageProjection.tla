-------------------------- MODULE UsageProjection --------------------------
(***************************************************************************)
(* From what CPA answers to what the store takes: the client's parser, the *)
(* projectors of the pipeline and the validators of the storage each bound *)
(* the same fields by their own tables.                                    *)
(*                                                                         *)
(* A JSON value is a record: a string has its length, whether it holds a   *)
(* NUL, whether it has the form its field asks for (a date, a "sha256:"    *)
(* prefix) and the text it denotes; a number has its value and its grain   *)
(* ("one" for integers, "milli" for multiples of 1/1000).  Numbers beyond  *)
(* the largest safe integer are left out: every stage refuses them.        *)
(* Hashing keeps different texts different.                                *)
(***************************************************************************)
EXTENDS UsagePricing, Sequences

CONSTANTS Records,   \* records of the usage queue
          AuthFiles, \* entries of the auth-files listing
          Windows    \* windows of a quota answer

\* What JSON.parse may put in a field.
IsJson(f) ==
  /\ f.type \in {"absent", "other", "string", "number"}
  /\ f.type = "string" => f.len \in Nat /\ "nul" \in DOMAIN f /\ {f.nul, f.form} \subseteq BOOLEAN
  /\ f.type = "number" => f.n \in Int /\ f.grain \in {"one", "milli", "fine"}

Absent == [type |-> "absent"]
Present(f) == f.type # "absent"
validateBoundedString(f, max) == f.type = "string" /\ f.len \in 1..max
requireString(f, max, formed) == validateBoundedString(f, max) /\ (formed => f.form)
requireNumber(f, integer) == f.type = "number" /\ f.n >= 0 /\ (integer => f.grain = "one")

-----------------------------------------------------------------------------
\* Usage records.

TextFields == {"event", "timestamp", "provider", "model", "endpoint", "request", "account", "apiKey"}
NumberFields == {"latency", "tokens"}
FileFields == {"provider", "status", "account", "modtime"}
WindowFields == {"used", "seconds", "reset"}

ASSUME JsonAssumption ==
  /\ \A r \in Records : \A k \in TextFields \cup NumberFields : IsJson(r[k])
  /\ \A f \in AuthFiles : \A k \in FileFields : k \in DOMAIN f /\ IsJson(f[k])
  /\ \A w \in Windows : \A k \in WindowFields : IsJson(w[k])

ClientLimit(k) == IF k = "event" THEN 256 ELSE IF k = "timestamp" THEN 128 ELSE 512

\* What the client lets through.
parseUsageRecord(r) ==
  /\ \A k \in TextFields : Present(r[k]) => requireString(r[k], ClientLimit(k), k \in {"account", "apiKey"})
  /\ \A k \in NumberFields : Present(r[k]) => requireNumber(r[k], FALSE)

(* Mutant of MAX_DIMENSION_LENGTH: the limit of the client.                 *)
MAX_DIMENSION_LENGTH_Client == 512

MAX_DIMENSION_LENGTH == 128
identifier(f) == validateBoundedString(f, 256)
optionalDimension(f) == Present(f) => f.type = "string" /\ f.len <= MAX_DIMENSION_LENGTH
readNullableInteger(f) == Present(f) => requireNumber(f, TRUE)
readTimestamp(f) == requireString(f, 128, TRUE)

Dimensional == {"provider", "model", "endpoint"}
normalizeObservation(r) ==
  /\ \A k \in Dimensional : optionalDimension(r[k])
  /\ \A k \in NumberFields : readNullableInteger(r[k])
  /\ \A k \in {"account", "apiKey"} : Present(r[k]) => identifier(r[k])

\* The code of the dead letter a record becomes, "" for none.
problem(r) ==
  CASE ~Present(r.event)          -> "missing_event_id"
    [] ~identifier(r.event)       -> "invalid_event_id"
    [] ~Present(r.request)        -> "missing_request_id"
    [] ~identifier(r.request)     -> "invalid_request_id"
    [] ~readTimestamp(r.timestamp) -> "invalid_timestamp"
    [] ~normalizeObservation(r)   -> "invalid_field"
    [] OTHER                      -> ""

\* An identified letter has the key of its event, another one the key of its
\* content, so that two that look alike are one.
dimensionText(f) == IF Present(f) /\ optionalDimension(f) THEN f.text ELSE ""
deadLetter(r, now) ==
  LET code == problem(r)
      at   == IF readTimestamp(r.timestamp) THEN r.timestamp.text ELSE now
      safe == <<"dead-letter", at, code>> \o [k \in 1..3 |->
                 dimensionText(r[(<<"endpoint", "provider", "model">>)[k]])]
  IN [src |-> "cpa_http_usage", at |-> at, code |-> code,
      key |-> IF identifier(r.event) THEN <<"usage", r.event.text>> ELSE safe]

\* The store's who stands for the dimensions, toks for the measurements.
observation(r) ==
  [src |-> "cpa_http_usage", key |-> <<"usage", r.event.text>>, req |-> r.request.text,
   at |-> r.timestamp.text, core |-> IF r.failed THEN "error" ELSE "success",
   who |-> dimensionText(r.model), toks |-> IF Present(r.tokens) THEN r.tokens.n ELSE Null]

\* storage/validation.ts: the projector copies the texts and numbers it accepts.
MAX_BOUND_STRING == 256
boundedString(f) == f.type = "string" /\ f.len <= MAX_BOUND_STRING /\ ~f.nul
safeInteger(f) == requireNumber(f, TRUE)
validateRequestObservation(r) ==
  /\ \A k \in Dimensional : Present(r[k]) => boundedString(r[k])
  /\ \A k \in NumberFields : Present(r[k]) => safeInteger(r[k])

\* hash() throws on what it finds too long.
MAX_IDENTIFIER_LENGTH == 512
hashable(f) == Present(f) => f.len \in 1..MAX_IDENTIFIER_LENGTH

RecordLands(r) ==
  parseUsageRecord(r) =>
    /\ identifier(r.event) => hashable(r.event)
    /\ problem(r) = "" =>
         /\ \A k \in {"request", "account", "apiKey"} : hashable(r[k])
         /\ validateRequestObservation(r)

-----------------------------------------------------------------------------
\* Account health: one entry of the listing per account.

parseAuthFile(f) ==
  /\ requireString(f.provider, 128, FALSE) /\ requireString(f.status, 64, FALSE)
  /\ Present(f.account) => requireString(f.account, 256, TRUE)
  /\ Present(f.modtime) => requireString(f.modtime, 128, TRUE)

normalizeHealth(status) ==
  CASE status \in {"ready", "healthy"}        -> "healthy"
    [] status \in {"disabled", "unavailable"} -> "unavailable"
    [] status \in {"error", "failed"}         -> "degraded"
    [] OTHER                                  -> "unsupported"

\* The observation has the time of the file, and its key that time.
projectAccountHealth(f, now) ==
  LET account == IF Present(f.account) THEN f.account.text ELSE ""
      at      == IF Present(f.modtime) THEN f.modtime.text ELSE now
  IN [kind |-> "account_health_snapshot", at |-> at,
      key |-> <<"account-health", f.provider.text, account, at>>,
      value |-> normalizeHealth(f.status.text)]

validateAccountHealthObservation(f) == f.provider.len > 0 /\ boundedString(f.provider)
FileLands(f) == parseAuthFile(f) => validateAccountHealthObservation(f)

-----------------------------------------------------------------------------
\* Quota windows.  The client gives each the unit percent and the limit 100.

parseQuotaWindow(w) ==
  /\ requireNumber(w.used, FALSE) /\ w.used.n <= 100
  /\ requireNumber(w.seconds, TRUE) /\ w.seconds.n >= 1
  /\ requireNumber(w.reset, FALSE) /\ w.reset.grain # "fine"

projectQuota(w, kind, now) ==
  [kind |-> "quota_snapshot", at |-> now,
   key |-> <<"quota", "openai-codex", "", kind, now>>, value |-> w.used.n]

\* A percentage need not be an integer; the client's milliseconds are one.
safeQuotaNumber(n) == n >= 0
validateQuotaObservation(w) ==
  /\ safeQuotaNumber(w.used.n) /\ safeQuotaNumber(100 - w.used.n)
  /\ w.reset.n >= 0 /\ w.reset.grain \in {"one", "milli"}
WindowLands(w) == parseQuotaWindow(w) => validateQuotaObservation(w)
=============================================================================
