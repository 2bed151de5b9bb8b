------------------------------ MODULE Registry ------------------------------
(***************************************************************************)
(* The tables the application fills when it starts (preset news sources,   *)
(* preset tags, built-in metrics: main.py, services/preset_tags.py,        *)
(* services/crawler/preset_sources.py, services/builtin_metrics.py) and    *)
(* the handlers that change them and the open data sets between two starts *)
(* (api/v1).  Every handler checks with one statement and writes with      *)
(* another, so that two clients interleave; what the schema forbids is     *)
(* refused at the write.                                                   *)
(*                                                                         *)
(* A behaviour is about one of the tables ("part"); all are filled.        *)
(***************************************************************************)
EXTENDS Naturals, FiniteSets

CONSTANTS
    Clients,      \* whoever sends requests
    Names,        \* names of metrics
    Ratings,      \* what a metric is rated
    MaxRequests,  \* bound: requests of a behaviour
    MaxDeploys    \* bound: changes of the deployed code

VARIABLES
    part,       \* the table this behaviour is about
    at,         \* the process: "down", "tags" or "metrics" while it starts, "up"
    code,       \* the metrics of the two registries of the deployed code
    metrics,    \* name -> row of metric_definitions, or NoRow
    sources,    \* number of news sources that have the name of a preset
    tags,       \* names of the tags of a scenario: "preset" (built in) and "own"
    bindings,   \* rows of entity_tags of one entity
    copies,     \* rows of open_source_datasets with one url
    doing,      \* client -> what it has checked and not yet written
    failed,     \* history: a start failed
    rated,      \* history: names of the metrics that were rated
    shipped,    \* history: names of built-in metrics that a start has offered
    requests, deploys

vars == <<part, at, code, metrics, sources, tags, bindings, copies, doing, failed, rated, shipped,
          requests, deploys>>
tables == <<metrics, sources, tags, bindings, copies>>
deployment == <<part, code, shipped, deploys>>

Parts == {"metrics", "ratings", "sources", "tags", "copies"}
NoRow == [builtin |-> FALSE, active |-> FALSE, count |-> 0, num |-> 0, den |-> 0]
Exists(n) == metrics[n].den > 0
\* a row that nobody rated
Metric(builtin) == [builtin |-> builtin, active |-> TRUE, count |-> 0, num |-> 0, den |-> 1]
Idle == [op |-> "idle"]

Init ==
    /\ part \in Parts /\ at = "down" /\ code \in SUBSET Names
    /\ metrics = [n \in Names |-> NoRow] /\ sources = 0 /\ tags = {} /\ bindings = {} /\ copies = 0
    /\ doing = [c \in Clients |-> Idle] /\ failed = FALSE /\ rated = {} /\ shipped = {}
    /\ requests = 0 /\ deploys = 0

-----------------------------------------------------------------------------
\* lifespan: three steps, each with a commit of its own

\* the query wants one row or none; two make the start fail
InitPresetSources ==
    /\ at = "down"
    /\ IF sources > 1 THEN failed' = TRUE /\ UNCHANGED <<at, sources>>
       ELSE at' = "tags" /\ sources' = 1 /\ UNCHANGED failed
    /\ UNCHANGED <<deployment, metrics, tags, bindings, copies, doing, rated, requests>>

InitPresetTags ==
    /\ at = "tags" /\ at' = "metrics" /\ tags' = tags \cup {"preset"}
    /\ UNCHANGED <<deployment, metrics, sources, bindings, copies, doing, failed, rated, requests>>

\* mutant of Sync: a metric that comes back stays as it is
SyncInserts(n) ==
    CASE n \in code /\ ~Exists(n) -> Metric(TRUE)
      [] n \notin code /\ metrics[n].builtin -> [metrics[n] EXCEPT !.active = FALSE]
      [] OTHER -> metrics[n]
\* what the registry does not have any more is retired, what it has is offered; statistics stay
Sync(n) ==
    CASE n \in code /\ ~Exists(n) -> Metric(TRUE)
      [] n \in code /\ Exists(n) -> [metrics[n] EXCEPT !.active = TRUE]
      [] n \notin code /\ metrics[n].builtin -> [metrics[n] EXCEPT !.active = FALSE]
      [] OTHER -> metrics[n]
SyncBuiltinMetrics ==
    /\ at = "metrics" /\ at' = "up" /\ metrics' = [n \in Names |-> Sync(n)]
    /\ shipped' = shipped \cup code
    /\ UNCHANGED <<part, code, deploys, sources, tags, bindings, copies, doing, failed, rated, requests>>

\* the process ends, in a start too; requests under way are gone
Stop ==
    /\ at # "down" /\ at' = "down" /\ doing' = [c \in Clients |-> Idle]
    /\ UNCHANGED <<deployment, tables, failed, rated, requests>>

Deploy ==
    /\ at = "down" /\ deploys < MaxDeploys /\ deploys' = deploys + 1
    /\ code' \in SUBSET Names
    /\ UNCHANGED <<part, shipped, at, tables, doing, failed, rated, requests>>

-----------------------------------------------------------------------------
\* requests: Check(c, r) is the read, Write(c, r) the commit

Check(c, p, r) ==
    /\ at = "up" /\ part = p /\ doing[c] = Idle /\ requests < MaxRequests
    /\ doing' = [doing EXCEPT ![c] = r] /\ requests' = requests + 1
    /\ UNCHANGED <<deployment, at, tables, failed, rated>>
At(c, op) ==
    /\ doing[c].op = op /\ doing' = [doing EXCEPT ![c] = Idle]
    /\ UNCHANGED <<deployment, at, failed, requests>>

\* 400 where the name is there
CheckMetric(c) == \E n \in Names : ~Exists(n) /\ Check(c, "metrics", [op |-> "metric", name |-> n])
\* the name is unique in the schema
CreateMetric(c) ==
    /\ At(c, "metric")
    /\ LET n == doing[c].name IN
         metrics' = IF Exists(n) THEN metrics ELSE [metrics EXCEPT ![n] = Metric(FALSE)]
    /\ UNCHANGED <<sources, tags, bindings, copies, rated>>

ReadMetric(c) ==
    \E n \in Names, r \in Ratings :
      Exists(n) /\ Check(c, "ratings", [op |-> "rate", name |-> n, row |-> metrics[n], rating |-> r])
\* mean and number from what was read; a column whose value does not change is not written
RateMetric(c) ==
    /\ At(c, "rate")
    /\ LET n == doing[c].name row == doing[c].row
           count == row.count + 1
           num == row.num * row.count + doing[c].rating * row.den
           den == row.den * count
           same == row.count > 0 /\ num * row.den = row.num * den
       IN /\ metrics' = [metrics EXCEPT ![n].count = count,
                                        ![n].num = IF same THEN @ ELSE num, ![n].den = IF same THEN @ ELSE den]
          /\ rated' = rated \cup {n}
    /\ UNCHANGED <<sources, tags, bindings, copies>>

\* the connection is tested, the name is not looked up; a change of the name is no different
CheckSource(c) == sources < 3 /\ Check(c, "sources", [op |-> "source"])
CreateSource(c) ==
    /\ At(c, "source") /\ sources' = sources + 1
    /\ UNCHANGED <<metrics, tags, bindings, copies, rated>>
DeleteSource(c) ==
    /\ at = "up" /\ part = "sources" /\ sources > 0 /\ sources' = sources - 1
    /\ UNCHANGED <<deployment, at, metrics, tags, bindings, copies, doing, failed, rated, requests>>

CheckTag(c) == "own" \notin tags /\ Check(c, "tags", [op |-> "tag"])
\* name and scenario are unique in the schema
CreateTag(c) ==
    /\ At(c, "tag") /\ tags' = tags \cup {"own"} /\ UNCHANGED <<metrics, sources, bindings, copies, rated>>
\* the foreign key deletes the bindings; what is built in stays
DeleteTag(c) ==
    /\ at = "up" /\ part = "tags" /\ "own" \in tags /\ tags' = tags \ {"own"}
    /\ bindings' = {b \in bindings : b.tag # "own"}
    /\ UNCHANGED <<deployment, at, metrics, sources, copies, doing, failed, rated, requests>>

Bound(t) == {b \in bindings : b.tag = t}
\* 404 without the tag, 400 where it is bound, 500 where it is bound twice
CheckBinding(c) ==
    \E t \in tags : Bound(t) = {} /\ Check(c, "tags", [op |-> "bind", list |-> <<t>>, old |-> {}, id |-> requests])
ReadBindings(c) ==
    \E t \in tags, u \in tags : \E list \in {<<>>, <<t>>, <<t, u>>} :
      Check(c, "tags", [op |-> "bind", list |-> list, old |-> bindings, id |-> requests])
\* the bindings that were read go, those of the list come, a tag that is named twice comes
\* twice; a tag that is gone refuses all of it
WriteBindings(c) ==
    /\ At(c, "bind")
    /\ LET r == doing[c]
           new == {[tag |-> r.list[i], id |-> <<r.id, i>>] : i \in DOMAIN r.list}
       IN bindings' = IF \E b \in new : b.tag \notin tags THEN bindings ELSE (bindings \ r.old) \cup new
    /\ UNCHANGED <<metrics, sources, tags, copies, rated>>
\* the query wants one row: a tag that is bound twice can not be unbound
UnbindTag(c) ==
    \E t \in tags :
      /\ at = "up" /\ part = "tags" /\ Cardinality(Bound(t)) = 1 /\ bindings' = bindings \ Bound(t)
      /\ UNCHANGED <<deployment, at, metrics, sources, tags, copies, doing, failed, rated, requests>>

\* an import looks the url up, a data set that is created by hand does not
CheckCopy(c) ==
    \E looked \in BOOLEAN : (looked => copies = 0) /\ copies < 3 /\ Check(c, "copies", [op |-> "copy"])
CreateCopy(c) ==
    /\ At(c, "copy") /\ copies' = copies + 1 /\ UNCHANGED <<metrics, sources, tags, bindings, rated>>
DeleteCopy(c) ==
    /\ at = "up" /\ part = "copies" /\ copies > 0 /\ copies' = copies - 1
    /\ UNCHANGED <<deployment, at, metrics, sources, tags, bindings, doing, failed, rated, requests>>

Startup == InitPresetSources \/ InitPresetTags \/ SyncBuiltinMetrics \/ Stop \/ Deploy
Handle(c) ==
    \/ CheckMetric(c) \/ CreateMetric(c) \/ ReadMetric(c) \/ RateMetric(c)
    \/ CheckSource(c) \/ CreateSource(c) \/ DeleteSource(c)
    \/ CheckTag(c) \/ CreateTag(c) \/ DeleteTag(c)
    \/ CheckBinding(c) \/ ReadBindings(c) \/ WriteBindings(c) \/ UnbindTag(c)
    \/ CheckCopy(c) \/ CreateCopy(c) \/ DeleteCopy(c)

Next == Startup \/ \E c \in Clients : Handle(c)
Spec == Init /\ [][Next]_vars

-----------------------------------------------------------------------------
\* While the application is up, the market of metrics offers what the registries of its code
\* have and nothing built in that they do not have, whatever was deployed, created or rated
\* before (builtin_metrics.py:82, "can be repeated"); what was rated keeps its statistics; and
\* no binding is of a tag that is gone.
OfferedIsRegistry ==
    /\ at = "up" => \A n \in Names :
         /\ n \in code => metrics[n].active
         /\ n \notin code /\ metrics[n].builtin => ~metrics[n].active
    /\ \A n \in rated : metrics[n].count > 0
    /\ \A b \in bindings : b.tag \in tags

-----------------------------------------------------------------------------
\* promised and not kept (README, section 6): each fails as the only invariant of Services.cfg

\* A start never fails over what earlier requests stored (preset_sources.py:399, "check
\* whether it exists").
StartsAgain == ~failed
\* A tag is bound to an entity once (models/metric.py:112).
BoundOnce == \A t \in tags : Cardinality(Bound(t)) < 2
\* A metric that is not built in any more is not offered (builtin_metrics.py:130).
RetiredIsNotOffered == at = "up" => \A n \in shipped \ code : ~metrics[n].active
\* The mean is one that so many ratings can have (metrics.py:223, "updates mean and number");
\* four requests show it.
MeanIsOfItsRatings ==
    \A n \in Names : metrics[n].count > 0 =>
      (metrics[n].num * metrics[n].count) % metrics[n].den = 0
=============================================================================
