---------------------------- MODULE MCUsageStore ----------------------------
(***************************************************************************)
(* Two requests of one day.  r1 is seen by the gateway (which does not     *)
(* know its dimensions) and by CPA; the gateway event may come again with  *)
(* another payload, which then contradicts what CPA says.  The day is the  *)
(* second one: what is delivered on the first is dated in the future, and  *)
(* loses its receipt before its own time is out of the retention.  The     *)
(* observations, readings and letters are what the projectors make of      *)
(* records; the seam between the client and the storage is tried with      *)
(* every record that differs in at most two fields from a good one.        *)
(***************************************************************************)
EXTENDS UsageStore

Text(len, form, text) == [type |-> "string", len |-> len, nul |-> FALSE, form |-> form, text |-> text]
Number(n, grain) == [type |-> "number", n |-> n, grain |-> grain]
Other == [type |-> "other"]

Record(event, request, at, who, toks) ==
  [event |-> Text(2, TRUE, event), timestamp |-> Text(24, TRUE, at), provider |-> Absent,
   model |-> Text(1, TRUE, who), endpoint |-> Absent, request |-> Text(2, TRUE, request),
   account |-> Absent, apiKey |-> Absent, latency |-> Absent, failed |-> FALSE,
   tokens |-> Number(toks, "one")]

GatewaySaw(who, at) ==
  [src |-> "gateway", key |-> <<"usage", "k1">>, req |-> "r1", at |-> at, core |-> "success",
   who |-> who, toks |-> Null]

Seen(at1, at2) ==
  {GatewaySaw("", at1), GatewaySaw("b", at1),
   observation(Record("k1", "r1", at1, "a", 3)), observation(Record("k2", "r2", at2, "a", 2))}

MCObservations   == Seen(3, 2)
LateObservations == Seen(1, 0)
\* One request, dated on the second day.
FutureObservations == {observation(Record("k2", "r2", 2, "a", 2))}

Good == Record("k3", "r3", 1, "a", 1)
Texts(t) == {Absent, Other} \cup {Text(n, form, t) : n \in {0, 1, 128, 129, 256, 257, 512, 513}, form \in BOOLEAN}
              \cup {[Text(5, TRUE, t) EXCEPT !.nul = TRUE]}
Numbers == {Absent, Other} \cup {Number(n, g) : n \in {-1, 0, 1, 100, 101}, g \in {"one", "milli", "fine"}}
ValuesOf(k) == IF k \in NumberFields THEN Numbers ELSE Texts(IF k = "timestamp" THEN 1 ELSE "a")

Changes == UNION {{<<k, v>> : v \in ValuesOf(k)} : k \in TextFields \cup NumberFields}
MCRecords == {[Good EXCEPT ![c[1]] = c[2], ![d[1]] = d[2]] : c, d \in Changes}

File(status) ==
  [provider |-> Text(5, TRUE, "codex"), status |-> Text(7, TRUE, status), account |-> Absent,
   modtime |-> Text(24, TRUE, 5)]
MCAuthFiles ==
  {[File("ready") EXCEPT !.provider = p, !.account = a, !.modtime = m]
     : p \in Texts("codex"), a \in Texts("a"), m \in Texts(5)}

Window(n) == [used |-> Number(n, "one"), seconds |-> Number(1, "one"), reset |-> Number(1, "one")]
MCWindows == [used : Numbers, seconds : Numbers, reset : Numbers]

MCReadings == {projectQuota(Window(1), "primary", 0)}
\* Two readings of one file whose account fell ill.
HealthReadings == {projectAccountHealth(File(s), 5) : s \in {"ready", "error"}}
MCLetters  == {deadLetter([Good EXCEPT !.request = Absent], 1)}

\* Everything costs something, and who = "a" has a price of its own.
Rule(id, who, unit, token) ==
  [id |-> id, dims |-> [d \in Dimensions |-> who], unit |-> unit, token |-> token,
   from |-> 0, to |-> Null]
MCRules == {Rule(1, "*", 5, Null), Rule(2, "a", Null, 4)}
=============================================================================
