------------------------------ MODULE Catalog -------------------------------
(***************************************************************************)
(* The reads of backend/app/catalog/service.py and of the chat's tools on  *)
(* top of them: bike pages, coverage, comparisons and lookups, while the   *)
(* pipeline stores facts.                                                  *)
(*                                                                         *)
(* A read is one request or tool call: several queries in one session at   *)
(* READ COMMITTED, each of which sees what is committed by then.  Reads    *)
(* change nothing, so one reader stands for all of them.  The pipeline is  *)
(* its contract, ResearchContract, with the one step more that racing      *)
(* requests can take.  Every tier of a fact is read and shown alike, so a  *)
(* fact stands for its rows; an unknown bike or key is refused before any  *)
(* of this.                                                                *)
(***************************************************************************)
EXTENDS Lookup

CONSTANTS
    Facts,          \* a spec key or an insight topic of one bike
    Seeded,         \* facts the catalog starts with
    BikeOf, KeyOf,  \* the bike and the key of each fact
    Topics,         \* the keys that are insight topics, or were when one was stored
    RetiredTopics,  \* the ones that left INSIGHT_TOPICS
    Core,           \* the keys coverage counts: CORE_SPEC_KEYS and INSIGHT_TOPICS
    Reciprocal,     \* the spec keys in L/100km
    KeyFilters      \* `keys` parameters of a comparison, AllKeys for none

VARIABLES
    answer, known,  \* see ResearchContract
    zeros,          \* known facts with a stored 0
    read            \* what the reader is doing

vars == <<answer, known, zeros, read>>

Pipeline == INSTANCE ResearchContract

Systems == {"metric", "imperial", "mixed"}

AllKeys == {KeyOf[f] : f \in Facts}

ASSUME CatalogAssumption ==
    /\ BikeOf \in [Facts -> Variants]
    /\ Seeded \subseteq Facts
    /\ KeyFilters \subseteq SUBSET AllKeys
    /\ RetiredTopics \subseteq Topics /\ RetiredTopics \cap Core = {}

Query(kind, bike) == [kind |-> kind, bike |-> bike]

Idle == [op |-> "none", bikes |-> <<>>, keys |-> {}, system |-> "metric", plan |-> <<>>,
         specs |-> {}, insights |-> {}, present |-> {}, pending |-> {},
         before |-> {}, text |-> <<>>, market |-> "", list |-> <<>>,
         outcome |-> "idle"]

Init ==
    /\ Pipeline!Init
    /\ zeros = {}
    /\ read = Idle

-----------------------------------------------------------------------------
(* The pipeline *)

\* A step of the contract; a value found for a reciprocal key may be 0.  Nobody may
\* ask about a retired topic, and no run stores anything for one.
Research ==
    /\ Pipeline!Next
    /\ \A f \in Facts : KeyOf[f] \in RetiredTopics => answer'[f] = answer[f]
    /\ zeros' \in SUBSET {f \in known' : KeyOf[f] \in Reciprocal}
    /\ \A f \in Facts : (f \in zeros) # (f \in zeros') =>
          answer[f] = "researching" /\ answer'[f] = "found"
    /\ UNCHANGED read

\* A request that had loaded an expired failure reopens a task settled meanwhile.
Reopen(f) ==
    /\ answer[f] \in {"found", "memoized", "never"}
    /\ answer' = [answer EXCEPT ![f] = "researching"]
    /\ UNCHANGED <<known, zeros, read>>

-----------------------------------------------------------------------------
(* What a read asks for *)

\* Mutant of Coverage: pending research is asked for before the stored facts.
CoveragePendingFirst(b) == <<Query("pending", b), Query("spec keys", b), Query("topics", b)>>

\* data_coverage
Coverage(b) == <<Query("spec keys", b), Query("topics", b), Query("pending", b)>>

\* Mutant of PagePlan: the page computes its coverage first.
PagePlanCoverageFirst(b) == Coverage(b) \o <<Query("specs", b), Query("insights", b)>>

\* get_bike_detail
PagePlan(b) == <<Query("specs", b), Query("insights", b)>> \o Coverage(b)

\* The chat's get_specs without keys.
SpecsPlan(b) == <<Query("specs", b)>> \o Coverage(b)

\* compare; with one bike it is get_specs alone, as its endpoint has it, or the chat's
\* with keys.
ComparePlan(bikes) == [i \in DOMAIN bikes |-> Query("specs", bikes[i])]

Plan(op, bikes) ==
    CASE op = "page"      -> PagePlan(bikes[1])
      [] op = "get_specs" -> SpecsPlan(bikes[1])
      [] op = "coverage"  -> Coverage(bikes[1])
      [] op = "compare"   -> ComparePlan(bikes)

\* compare wants its bikes all different and takes keys; coverage has no values and
\* so no units.
Legal(op, bikes, keys, system) ==
    /\ keys # AllKeys => op = "compare"
    /\ op = "coverage" => system = "metric"
    /\ IF op = "compare" THEN IsInjective(bikes) ELSE Len(bikes) = 1

Begin(op, bikes, keys, system) ==
    /\ read = Idle
    /\ Legal(op, bikes, keys, system)
    /\ read' = [Idle EXCEPT !.op = op, !.bikes = bikes, !.keys = keys, !.system = system,
                            !.plan = Plan(op, bikes), !.before = known,
                            !.outcome = "reading"]
    /\ UNCHANGED <<answer, known, zeros>>

-----------------------------------------------------------------------------
(* The queries *)

Asks(kind) ==
    /\ read.plan # <<>>
    /\ Head(read.plan).kind = kind

\* Mutant of Selected: a fact counts as stored once it was asked about.
SelectedAsked(keys) ==
    {f \in Facts : /\ BikeOf[f] = Head(read.plan).bike /\ KeyOf[f] \in keys
                   /\ answer[f] # "unasked"}

\* The stored facts of the query's bike that it selects.
Selected(keys) ==
    {f \in known : BikeOf[f] = Head(read.plan).bike /\ KeyOf[f] \in keys}

\* The read has the answer of one query; after the last one it is answered.
Advance(record) ==
    /\ read' = [record EXCEPT !.plan = Tail(read.plan),
                              !.outcome = IF Len(read.plan) = 1 THEN "answered" ELSE @]
    /\ UNCHANGED <<answer, known, zeros>>

\* units.display_unit and units.convert: only imperial shows miles per gallon, and
\* there is no such value for 0 L/100km.
Unshowable(f) == f \in zeros /\ read.system = "imperial"

\* get_specs
ReadSpecs ==
    LET rows == Selected(read.keys \ Topics) IN
    /\ Asks("specs")
    /\ \A f \in rows : ~Unshowable(f)
    /\ Advance([read EXCEPT !.specs = @ \cup rows])

\* get_insights
ReadInsights ==
    /\ Asks("insights")
    /\ Selected(RetiredTopics) = {}
    /\ Advance([read EXCEPT !.insights = Selected(Topics)])

\* One such row, or one insight whose topic INSIGHT_TOPICS.index does not find, and
\* the whole read fails with an unexpected exception.
ReadBreaks ==
    /\ \/ Asks("specs") /\ \E f \in Selected(read.keys \ Topics) : Unshowable(f)
       \/ Asks("insights") /\ Selected(RetiredTopics) # {}
    /\ read' = [read EXCEPT !.plan = <<>>, !.outcome = "failed"]
    /\ UNCHANGED <<answer, known, zeros>>

\* The two queries of data_coverage for what is stored.
ReadPresent ==
    \/ /\ Asks("spec keys")
       /\ Advance([read EXCEPT !.present = @ \cup Selected(AllKeys \ Topics)])
    \/ /\ Asks("topics")
       /\ Advance([read EXCEPT !.present = @ \cup Selected(Topics)])

\* pending_research_for_bike
ReadPending ==
    /\ Asks("pending")
    /\ Advance([read EXCEPT !.pending =
          {f \in Facts : BikeOf[f] = Head(read.plan).bike /\ answer[f] = "researching"}])

\* resolve_bike, one query without an order; the tool picks or asks.
LookUp(query, market, scan) ==
    /\ read = Idle
    /\ scan \in SetToSeqs(Candidates(query, market))
    /\ read' = [Idle EXCEPT !.op = "lookup", !.text = query, !.market = market,
                            !.list = Listed(query, scan), !.outcome = "answered"]
    /\ UNCHANGED <<answer, known, zeros>>

\* The answer is sent and the session closed.
Close ==
    /\ read.outcome \in {"answered", "failed"}
    /\ read' = Idle
    /\ UNCHANGED <<answer, known, zeros>>

-----------------------------------------------------------------------------

\* Bikes that have facts, up to two of them: a bound.
BikeLists ==
    LET bikes == {BikeOf[f] : f \in Facts} IN
    {<<v>> : v \in bikes} \cup {<<v, w>> : v \in bikes, w \in bikes}

Markets == {MarketOf[v] : v \in Variants}

Next ==
    \/ Research
    \/ \E f \in Facts : Reopen(f)
    \/ \E op \in {"page", "get_specs", "coverage", "compare"}, bikes \in BikeLists,
          keys \in KeyFilters, system \in Systems : Begin(op, bikes, keys, system)
    \/ ReadSpecs \/ ReadBreaks \/ ReadInsights \/ ReadPresent \/ ReadPending
    \/ Close
    \/ \E query \in Queries, market \in Markets :
          \E scan \in SetToSeqs(Candidates(query, market)) : LookUp(query, market, scan)

Spec == Init /\ [][Next]_vars

-----------------------------------------------------------------------------
(* Properties *)

ReadType ==
    [op : {"none", "page", "get_specs", "coverage", "compare", "lookup"},
     bikes : Seq(Variants), keys : SUBSET AllKeys, system : Systems,
     plan : Seq([kind : {"specs", "insights", "spec keys", "topics", "pending"},
                 bike : Variants]),
     specs : SUBSET Facts, insights : SUBSET Facts, present : SUBSET Facts,
     pending : SUBSET Facts, before : SUBSET Facts, text : Queries \cup {<<>>},
     market : Markets \cup {""}, list : Seq(Variants),
     outcome : {"idle", "reading", "answered", "failed"}]

\* The shape of every variable; only what is stored is shown.
TypeOK ==
    /\ zeros \subseteq known
    /\ read \in ReadType
    /\ read.specs \cup read.insights \cup read.present \subseteq known

HasCoverage == read.op \in {"page", "get_specs", "coverage"}

\* core_specs_missing and insight_topics_missing
Missing(r) ==
    {f \in Facts : BikeOf[f] = r.bikes[1] /\ KeyOf[f] \in Core} \ r.present

Shown == read.specs \cup read.insights

\* The facts an answer has to show: those its operation covers.
InScope(f) ==
    /\ \E i \in DOMAIN read.bikes : BikeOf[f] = read.bikes[i]
    /\ KeyOf[f] \in read.keys
    /\ \/ read.op = "page"
       \/ read.op \in {"get_specs", "compare"} /\ KeyOf[f] \notin Topics

\* However the pipeline commits between its queries, an answer shows every fact in
\* its scope that was stored when it began, and lists none as missing that it shows
\* (service.py:246-253, tools.py:110-116).
EveryFactPlaced ==
    read.outcome = "answered" /\ read.op # "lookup" =>
        /\ \A f \in read.before : InScope(f) => f \in Shown
        /\ HasCoverage => Shown \cap Missing(read) = {}

\* A core fact that an answer calls missing and not pending is not being researched
\* when the answer is complete, and was not stored when it began: whoever asks for it
\* then starts no second search, though a run may have found it in between
\* (service.py:130-144).
GapsNotResearched ==
    [][read.outcome = "reading" /\ read'.outcome = "answered" /\ HasCoverage =>
          \A f \in Missing(read') \ read'.pending :
             answer[f] # "researching" /\ f \notin read.before]_vars

\* A lookup is decided by the catalog, not by the order in which the rows come: its
\* list is in the order of confidence, year and id, nobody it leaves out comes before
\* an entry, and a bike is picked for the user only if every other candidate is behind
\* by the gap (service.py:97-108, tools.py:84-93).
LookupDecided ==
    read.op = "lookup" =>
        LET candidates == Candidates(read.text, read.market)
            list == read.list
        IN
        /\ \A i, j \in DOMAIN list : i < j => Precedes(read.text, list[i], list[j])
        /\ \A i \in DOMAIN list, v \in candidates :
              (\A j \in DOMAIN list : list[j] # v) => Precedes(read.text, list[i], v)
        /\ \A v \in Picked(read.text, list) : \A w \in candidates \ {v} :
              Confidence[read.text][v] - Confidence[read.text][w] >= Percent(read.text, 15)

=============================================================================
