----------------------------- MODULE MCGateway -----------------------------
EXTENDS GatewayPages, TLC

CONSTANTS m1, m2, f1, f2, Views

Root == [host |-> "loopback", path |-> "/"]
Own(models) ==
  [extra |-> FALSE, api |-> CPA_PROVIDER_API, base |-> [Root EXCEPT !.path = "/v1"], key |-> "PROXY",
   models |-> models]
Alien == [Own(<<>>) EXCEPT !.key = "OTHER"]
Extended == [Own(<<>>) EXCEPT !.extra = TRUE]

MCCatalogs == {<<[id |-> m1], [id |-> m2], [id |-> m1]>>, <<[id |-> m1]>>, <<[id |-> None]>>, <<>>}
MCWriterRoutes == {None, Alien, Extended, Own([m \in {m2} |-> [name |-> m2, image |-> TRUE]])}

PageCatalogs == {<<[id |-> m1], [id |-> m2]>>}
PageWriterRoutes == {Own([m \in {m2} |-> [name |-> m2, image |-> TRUE]])}

\* What happens beside each page; the last four scenes have no page.
MCBeside == [v \in Views |->
  CASE v = "settings" -> {}
    [] v = "models" -> {"write"}
    [] v = "writers" -> {"apply", "write"}
    [] v = "runtimes" -> {"install", "start", "stop", "restart", "exit", "accounts"}
    [] v = "remotes" -> {"status", "models", "apply"}
    [] v = "analytics" -> {"dequeue", "quota"}
    [] OTHER -> {}]

Absent == [r \in {"proxy", "management"} |-> None]
Present == [r \in {"proxy", "management"} |-> 0]

\* The settings at first: the writers' scene begins a revision earlier.
Plain == [rev |-> 1, user |-> None, base |-> None]
Configure == [Plain EXCEPT !.user = Own([m \in {m2} |-> [name |-> m2, image |-> TRUE]])]
Descriptors ==
  CASE view = "writers" -> {None} \cup
         {[d EXCEPT !.rev = 0] : d \in {Plain, Configure, [Plain EXCEPT !.base = Alien]}}
    [] view = "setup" -> {Plain}
    [] OTHER -> {Configure}

MCInit ==
  /\ view \in Views /\ page = None
  /\ \E desc \in Descriptors,
        mode \in (IF view = "runtimes" THEN {"managed", "external"} ELSE {"managed"}) :
       HostInit(desc, IF view = "runtimes" THEN Absent ELSE Present, mode,
                IF view \in {"setup", "runtimes"} THEN "stopped" ELSE "ready", view \notin {"setup", "runtimes"})
  /\ ClientInit(IF view = "analytics" THEN <<"good", "bad">> ELSE <<>>)

Spec == MCInit /\ [][Next]_vars
HostSpec == Spec /\ HostFairness
PageSpec == Spec /\ PageFairness
=============================================================================
