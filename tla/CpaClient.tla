------------------------------ MODULE CpaClient ------------------------------
(***************************************************************************)
(* The CPA management client (host/cpa-client): one HTTP exchange of one   *)
(* operation, from the resolution of its credential to the parsed answer,  *)
(* with the request timer and the caller's abort at any moment, and the    *)
(* server, whose usage queue is consumed by being read.                    *)
(*                                                                         *)
(* exch[x].st: "idle", "resolve" (awaiting the credential), "fetch",       *)
(* "body", "settled".  A reply is the first check it fails ("status",      *)
(* "type", "length", "bytes", "json") or "body" with its content.  The     *)
(* caller's signal is the caller's state: steps get it as `aborted`.       *)
(***************************************************************************)
EXTENDS ProviderPlan, FiniteSets

CONSTANTS Exchange,       \* ids of exchanges
          Count,          \* entries one read of the usage queue takes
          Faults,         \* replies the server may give besides a body
          LoopbackOrOptIn \* normalizeCpaBaseUrl accepts the base URL

ASSUME FaultsAssumption == Faults \subseteq {"status", "type", "length", "bytes", "json"}

VARIABLES exch,
          queue,    \* the server's usage queue: records, well formed or not
          popped    \* history: what the server took from the queue for an exchange

clientVars == <<exch, queue, popped>>

\* What an operation asks for ("selections" reads authStatus, too).
Operations == {"models", "authStatus", "selections", "quota", "usageQueue"}
credentialOf(operation) == IF operation = "models" THEN "proxy" ELSE "management"

Idle == [st |-> "idle", of |-> None, key |-> None, timedOut |-> FALSE, reply |-> None, res |-> None]
Opened(operation) == [Idle EXCEPT !.st = "resolve", !.of = operation]
\* The timer is cleared, and what came of the reply no longer matters.
Settled(e, res)   ==
  [e EXCEPT !.st = "settled", !.res = res, !.timedOut = FALSE,
            !.reply = IF @ = None THEN None ELSE [check |-> "read"]]
failed(code) == [ok |-> FALSE, val |-> code]
value(v)     == [ok |-> TRUE, val |-> v]

\* Every parser refuses the whole answer for one entry it does not accept.
normalizeAuthStatus(status) ==
  CASE status \in {"ready", "healthy"} -> "healthy"
    [] status \in {"disabled", "unavailable"} -> "unavailable"
    [] status \in {"error", "failed"} -> "unhealthy"
    [] OTHER -> "unknown"
parseAccountStatus(files) ==
  value([i \in DOMAIN files |-> [provider |-> files[i].provider,
                                 health   |-> normalizeAuthStatus(files[i].status)]])
parseQuotaSelections(files) ==
  value(SelectSeq(files, LAMBDA f : f.provider = "openai-codex"))
parseWhamQuota(windows) ==
  IF windows = {} \/ ~(windows \subseteq {"primary", "secondary"})
  THEN failed("invalid_shape") ELSE value(windows)
parseModels(list) ==
  IF \E i \in DOMAIN list : list[i].id = None THEN failed("invalid_shape") ELSE value(list)

(* Mutant of parseUsage: malformed records are skipped.                     *)
parseUsage_Skip(records) == value(SelectSeq(records, LAMBDA r : r = "good"))

parseUsage(records) ==
  IF \E i \in DOMAIN records : records[i] = "bad" THEN failed("invalid_shape") ELSE value(records)

parse(operation, body) ==
  CASE operation = "models" -> parseModels(body)
    [] operation = "authStatus" -> parseAccountStatus(body)
    [] operation = "selections" -> parseQuotaSelections(body)
    [] operation = "quota" -> parseWhamQuota(body)
    [] operation = "usageQueue" -> parseUsage(body)

ClientInit(records) ==
  /\ exch = [x \in Exchange |-> Idle]
  /\ queue = records /\ popped = [x \in Exchange |-> <<>>]

\* The head of fetchJson: a signal aborted already sends nothing.
Fetching(e, key, aborted) ==
  IF aborted THEN Settled(e, failed("aborted")) ELSE [e EXCEPT !.st = "fetch", !.key = key]

\* createCpaClientForOperation and the constructor: stored is the value of
\* the credential, or None.
Resolve(x, stored, aborted) ==
  /\ exch[x].st = "resolve"
  /\ exch' = [exch EXCEPT ![x] =
       IF stored = None THEN Settled(@, failed("credential"))
       ELSE IF ~LoopbackOrOptIn THEN Settled(@, failed("configuration"))
       ELSE Fetching(@, stored, aborted)]
  /\ UNCHANGED <<queue, popped>>

\* The second request of one client, with the key of the first.
Again(x, operation, aborted) ==
  /\ exch[x].st = "settled"
  /\ exch' = [exch EXCEPT ![x] = Fetching([Idle EXCEPT !.of = operation], @.key, aborted)]
  /\ UNCHANGED <<queue, popped>>

\* The server handles a request it has got: to read the queue is to change
\* it, even for a caller that gave up.
Serve(x, accepted, bodies) ==
  /\ exch[x].reply = None /\ exch[x].key # None
  /\ exch[x].st = "settled" => exch[x].of = "usageQueue"
  /\ IF ~accepted
     THEN exch' = [exch EXCEPT ![x].reply = [check |-> "status"]] /\ UNCHANGED <<queue, popped>>
     ELSE IF exch[x].of = "usageQueue"
     THEN LET n == IF Len(queue) < Count THEN Len(queue) ELSE Count
              took == SubSeq(queue, 1, n)
          IN  /\ queue' = SubSeq(queue, n + 1, Len(queue))
              /\ popped' = [popped EXCEPT ![x] = took]
              /\ exch' = [exch EXCEPT ![x].reply = [check |-> "body", body |-> took]]
     ELSE \E b \in bodies :
            /\ exch' = [exch EXCEPT ![x].reply = [check |-> "body", body |-> b]]
            /\ UNCHANGED <<queue, popped>>

\* The reply is cut, replaced or damaged on its way.
Garble(x) ==
  /\ exch[x].st = "fetch" /\ exch[x].reply # None /\ exch[x].reply.check = "body"
  /\ \E f \in Faults : exch' = [exch EXCEPT ![x].reply = [check |-> f]]
  /\ UNCHANGED <<queue, popped>>

\* fetchImpl resolves: the status, and the head of readResponseText.
Headers(x) ==
  /\ exch[x].st = "fetch" /\ exch[x].reply # None
  /\ exch' = [exch EXCEPT ![x] =
       CASE @.reply.check = "status" -> Settled(@, failed("http_status"))
         [] @.reply.check = "type"   -> Settled(@, failed("content_type"))
         [] @.reply.check = "length" -> Settled(@, failed("response_too_large"))
         [] OTHER -> [@ EXCEPT !.st = "body"]]
  /\ UNCHANGED <<queue, popped>>

\* The last chunk: the size, JSON.parse, and the parser of the operation.
Body(x) ==
  /\ exch[x].st = "body"
  /\ exch' = [exch EXCEPT ![x] =
       CASE @.reply.check = "bytes" -> Settled(@, failed("response_too_large"))
         [] @.reply.check = "json"  -> Settled(@, failed("invalid_json"))
         [] OTHER -> Settled(@, parse(@.of, @.reply.body))]
  /\ UNCHANGED <<queue, popped>>

Underway(x) == exch[x].st \in {"fetch", "body"}

(* Mutant of TimerFires: the timer is cleared when the headers are there.   *)
TimerFires_Fetch(x) ==
  /\ exch[x].st = "fetch" /\ ~exch[x].timedOut
  /\ exch' = [exch EXCEPT ![x].timedOut = TRUE]
  /\ UNCHANGED <<queue, popped>>

TimerFires(x) ==
  /\ Underway(x) /\ ~exch[x].timedOut
  /\ exch' = [exch EXCEPT ![x].timedOut = TRUE]
  /\ UNCHANGED <<queue, popped>>

\* fetch or a read rejects: the connection broke, or the controller aborted.
Rejects(x, aborted) ==
  /\ Underway(x)
  /\ exch' = [exch EXCEPT ![x] = Settled(@, failed(
                IF aborted THEN "aborted" ELSE IF @.timedOut THEN "timeout" ELSE "network"))]
  /\ UNCHANGED <<queue, popped>>

-----------------------------------------------------------------------------
\* What the client promises of an exchange, whatever happens on its way:
\* the parse of what the server answered, or one failure; nothing that the
\* server took from its queue is dropped from an answer that counts as one.
Failures == {failed(code) : code \in {"credential", "configuration", "aborted", "timeout", "network",
               "http_status", "content_type", "response_too_large", "invalid_json", "invalid_shape"}}
Promised(x, bodies) ==
  Failures \cup (IF exch[x].of = "usageQueue" THEN {value(popped[x])}
                 ELSE {r \in {parse(exch[x].of, b) : b \in bodies} : r.ok})

\* An exchange in one step, for callers that tell no failure from another.
Exchanged(x, stored, bodies) ==
  /\ exch[x].st = "resolve" /\ exch[x].of # "usageQueue"
  /\ \E res \in {r \in Promised(x, bodies) : r.ok} \cup {failed("network")} :
       /\ stored = None => ~res.ok
       /\ exch' = [exch EXCEPT ![x] = [Settled(@, res) EXCEPT !.key = stored]]
  /\ UNCHANGED <<queue, popped>>
=============================================================================
