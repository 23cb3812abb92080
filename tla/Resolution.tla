----------------------------- MODULE Resolution -----------------------------
(***************************************************************************)
(* What one run of backend/app/research/runner.py makes of the findings of *)
(* a search: which candidates count (unit conversion, source tiers), when  *)
(* sources of one tier conflict, which value each tier stores through the  *)
(* catalog's upserts, and how every task of the batch is settled.  Module  *)
(* Research has this step as Resolve, with any outcome for each task, and  *)
(* as Unexpected when it raises.                                           *)
(*                                                                         *)
(* A value is an integer, exact where the code has a float: a number, or   *)
(* the code of a text with Blank for one that strips to nothing.  An       *)
(* insight finding is a claim too, its summary as the text and with as     *)
(* many urls as it cites; a spec finding cites one.                        *)
(***************************************************************************)
EXTENDS Integers, Sequences, FiniteSets, FiniteSetsExt

CONSTANTS
    Numbers, Texts,     \* spec keys of the registry, by value_type
    Retired,            \* spec keys of old tasks that left the registry
    Topics,             \* insight topics, those of old tasks included
    RetiredTopics,      \* the ones that left INSIGHT_TOPICS
    Urls, SiteOf,       \* pages, and what tiering says of each one's site
    Factor,             \* a linear conversion, to canonical units
    Reciprocal,         \* the constant of the reciprocal conversion
    TolNum, TolDen,     \* settings.research_conflict_tolerance
    Claims,             \* findings a provider may report
    MaxFindings,        \* bound: findings of one search
    Batches,            \* batches of due tasks
    Catalogs            \* what the catalog may hold before the run

Facts == Numbers \cup Texts \cup Retired \cup Topics

Specs == Facts \ Topics

\* The tiers a site can have, best first (SOURCE_TIER_PRIORITY).
Tiers == {"official", "tested", "community"}

Priority == [official |-> 1, tested |-> 2, community |-> 3]

Blank == 0

ASSUME SitesAssumption == SiteOf \in [Urls -> Tiers \cup {"invalid"}] /\ "none" \notin Urls

ASSUME ToleranceAssumption == TolNum \in Nat /\ TolDen \in Nat \ {0}

ASSUME ConversionAssumption == Factor \in Int /\ Reciprocal \in Nat

\* Nobody reports a negative consumption, the one unit that is a reciprocal.
ASSUME ClaimsAssumption ==
    \A x \in Claims :
        /\ x.urls \subseteq Urls
        /\ x.fact \in Specs => \E u \in Urls : x.urls = {u}
        /\ x.value \in Int
        /\ x.unit \in {"canonical", "linear", "reciprocal", "unknown"}
        /\ x.unit = "reciprocal" => x.value \in Nat

ASSUME RunAssumption ==
    /\ Topics \cap (Numbers \cup Texts \cup Retired) = {} /\ Numbers \cap Retired = {}
    /\ RetiredTopics \subseteq Topics
    /\ MaxFindings \in Nat
    /\ Batches \subseteq SUBSET Facts
    /\ \A c \in Catalogs : \A f \in Specs, t \in Tiers : c[f][t].url \in Urls \cup {"none"}

NoValue == [value |-> Blank, url |-> "none"]

NoInsight == [summary |-> Blank, source |-> "none", urls |-> {}]

VARIABLES
    findings,   \* the provider's answer
    batch,      \* the claimed tasks
    stored,     \* spec_values: the value and the page of each key and tier
    insight,    \* insights: one per topic
    outcome,    \* how each task is settled; "open" before that
    result,     \* the tier of result_spec_value_id, or "none"
    pc          \* the run is resolving, committed or ended by an exception

vars == <<findings, batch, stored, insight, outcome, result, pc>>

-----------------------------------------------------------------------------
(* Candidates *)

\* The urls is_valid_source_url accepts.
ValidUrls(x) == {u \in x.urls : SiteOf[u] # "invalid"}

TierOf(x) == SiteOf[CHOOSE u \in x.urls : TRUE]

\* units.convert; a value the reciprocal pair cannot take is Raises' business.
Converted(x) ==
    CASE x.unit = "canonical"  -> x.value
      [] x.unit = "linear"     -> x.value * Factor
      [] x.unit = "reciprocal" -> Reciprocal \div x.value

\* _canonical_value: a number in a unit that can be converted, or a text.
HasValue(f, x) ==
    IF f \in Numbers THEN x.numeric /\ x.unit # "unknown"
                     ELSE ~x.numeric /\ x.value # Blank

Canonical(f, x) == IF f \in Numbers THEN Converted(x) ELSE x.value

\* Mutant of Candidates: findings for other keys are not left out.
CandidatesOfAnyKey(f, seq) ==
    {i \in DOMAIN seq : ValidUrls(seq[i]) # {} /\ HasValue(f, seq[i])}

\* _normalized_candidates, as positions in the list of findings.
Candidates(f, seq) ==
    {i \in DOMAIN seq : seq[i].fact = f /\ ValidUrls(seq[i]) # {} /\ HasValue(f, seq[i])}

\* units.convert(0, ...) over the reciprocal pair is an error the run does not
\* catch: it looks only for units it does not know.
Raises(f, seq) ==
    \E i \in Candidates(f, seq) :
        f \in Numbers /\ seq[i].unit = "reciprocal" /\ seq[i].value = 0

\* by_tier
Group(f, seq, t) == {i \in Candidates(f, seq) : TierOf(seq[i]) = t}

-----------------------------------------------------------------------------
(* Conflicts and the value that is kept *)

AbsOf(n) == IF n < 0 THEN -n ELSE n

\* The sum of a group, which the code divides by its size for the mean.
Total(f, seq, S) == MapThenSumSet(LAMBDA i : Canonical(f, seq[i]), S)

\* Mutant of Conflicts: the spread is that of the first and the last value found.
ConflictsUnordered(f, seq, S) ==
    LET value(i) == Canonical(f, seq[i])
        spread == AbsOf(value(Max(S)) - value(Min(S)))
    IN  /\ f \in Numbers
        /\ S # {}
        /\ spread * Cardinality(S) * TolDen > TolNum * AbsOf(Total(f, seq, S))

\* _conflicts: the spread exceeds the tolerated share of the mean (any spread
\* does when the mean is zero).  Texts never conflict.
Conflicts(f, seq, S) ==
    LET value(i) == Canonical(f, seq[i])
        values == {value(i) : i \in S}
    IN  /\ f \in Numbers
        /\ S # {}
        /\ (Max(values) - Min(values)) * Cardinality(S) * TolDen > TolNum * AbsOf(Total(f, seq, S))

\* The place of a candidate in the group sorted by value; sorted() is stable.
Rank(f, seq, S, i) ==
    Cardinality({j \in S : \/ Canonical(f, seq[j]) < Canonical(f, seq[i])
                           \/ Canonical(f, seq[j]) = Canonical(f, seq[i]) /\ j < i})

\* Mutant of Chosen: the first number found is kept, as for texts.
ChosenFirst(f, seq, S) == Min(S)

\* The median number of an agreeing group, the first of its texts.
Chosen(f, seq, S) ==
    IF f \in Numbers
      THEN CHOOSE i \in S : Rank(f, seq, S, i) = Cardinality(S) \div 2
      ELSE Min(S)

BestTier(f, seq) ==
    CHOOSE t \in Tiers :
        /\ Group(f, seq, t) # {}
        /\ \A u \in Tiers : Group(f, seq, u) # {} => Priority[t] <= Priority[u]

\* _memoize_missing
Missing(f, fs) ==
    IF f \in fs.notApplicable THEN "not_applicable"
    ELSE IF fs.release THEN "not_released_yet"
    ELSE "no_reliable_source"

\* Mutant of SpecOutcome: what the provider calls not applicable is not looked at.
SpecOutcomeTrusting(f, fs) ==
    IF f \in Retired \/ f \in fs.notApplicable THEN "not_applicable"
    ELSE IF Candidates(f, fs.seq) = {} THEN Missing(f, fs)
    ELSE IF Conflicts(f, fs.seq, Group(f, fs.seq, BestTier(f, fs.seq)))
      THEN "unresolved_conflict"
    ELSE "found"

\* _resolve_spec_task.  The best tier is written when it does not conflict, so the
\* no_reliable_source at the end of the code is never reached.
SpecOutcome(f, fs) ==
    IF f \in Retired THEN "not_applicable"
    ELSE IF Candidates(f, fs.seq) = {} THEN Missing(f, fs)
    ELSE IF Conflicts(f, fs.seq, Group(f, fs.seq, BestTier(f, fs.seq)))
      THEN "unresolved_conflict"
    ELSE "found"

\* What is upserted for a found key: a value for every tier that agrees.
Kept(f, seq, t) ==
    LET i == Chosen(f, seq, Group(f, seq, t)) IN
    [value |-> Canonical(f, seq[i]), url |-> CHOOSE u \in seq[i].urls : TRUE]

Written(f, fs) == {t \in Tiers : /\ Group(f, fs.seq, t) # {}
                                 /\ ~Conflicts(f, fs.seq, Group(f, fs.seq, t))}

-----------------------------------------------------------------------------
(* Insights *)

\* _best_insight_candidate: the first summary with a source that can be verified.
Summaries(f, seq) ==
    {i \in DOMAIN seq : seq[i].fact = f /\ seq[i].value # Blank /\ ValidUrls(seq[i]) # {}}

\* Mutant of InsightKept: every cited url is kept.
InsightKeptWithAllUrls(f, seq) ==
    LET x == seq[Min(Summaries(f, seq))] IN
    [summary |-> x.value, urls |-> x.urls,
     source |-> IF \E u \in x.urls : SiteOf[u] = "tested" THEN "tested" ELSE "community"]

\* _resolve_insight_task and upsert_insight: a tested page among the verified ones
\* makes it tested; an official one counts no more than the community's.
InsightKept(f, seq) ==
    LET x == seq[Min(Summaries(f, seq))] IN
    [summary |-> x.value, urls |-> ValidUrls(x),
     source |-> IF \E u \in ValidUrls(x) : SiteOf[u] = "tested"
                  THEN "tested" ELSE "community"]

\* _resolve_insight_task.  upsert_insight takes no topic that left INSIGHT_TOPICS: its
\* CatalogValidationError drops the summary, however well it is sourced.
InsightOutcome(f, fs) ==
    IF Summaries(f, fs.seq) = {} THEN Missing(f, fs)
    ELSE IF f \in RetiredTopics THEN "no_reliable_source"
    ELSE "found"

-----------------------------------------------------------------------------

Outcome(f, fs) == IF f \in Topics THEN InsightOutcome(f, fs) ELSE SpecOutcome(f, fs)

\* A run has claimed a batch and holds fs.
Begun(fs) ==
    /\ findings = fs
    /\ batch \in Batches
    /\ stored \in Catalogs
    /\ insight = [f \in Topics |-> NoInsight]
    /\ outcome = [f \in Facts |-> "open"]
    /\ result = [f \in Facts |-> "none"]
    /\ pc = "resolving"

\* A provider calls at most one fact not applicable (a bound: facts are settled
\* one by one).
Init ==
    \E n \in 0..MaxFindings, na \in {{}} \cup {{f} : f \in Facts}, release \in BOOLEAN :
       \E seq \in [1..n -> Claims] :
          Begun([seq |-> seq, notApplicable |-> na, release |-> release])

\* The end of run_bike_research: every task of the batch, one commit.
Resolve ==
    LET found == {f \in batch : Outcome(f, findings) = "found"} IN
    /\ pc = "resolving"
    /\ \A f \in batch : ~Raises(f, findings.seq)
    /\ outcome' = [f \in Facts |-> IF f \in batch THEN Outcome(f, findings) ELSE outcome[f]]
    /\ stored' = [f \in Specs |-> [t \in Tiers |->
            IF f \in found /\ t \in Written(f, findings)
              THEN Kept(f, findings.seq, t) ELSE stored[f][t]]]
    /\ insight' = [f \in Topics |->
            IF f \in found THEN InsightKept(f, findings.seq) ELSE insight[f]]
    /\ result' = [f \in Facts |->
            IF f \in found \ Topics THEN BestTier(f, findings.seq) ELSE result[f]]
    /\ pc' = "committed"
    /\ UNCHANGED <<findings, batch>>

\* Mutant of Abort: the tasks that were resolved before the exception are committed.
AbortPartway ==
    /\ pc = "resolving"
    /\ \E f \in batch : Raises(f, findings.seq)
    /\ outcome' = [f \in Facts |-> IF f \in batch /\ ~Raises(f, findings.seq)
                                     THEN Outcome(f, findings) ELSE outcome[f]]
    /\ pc' = "ended"
    /\ UNCHANGED <<findings, batch, stored, insight, result>>

\* The exception leaves the run: nothing it had resolved is committed.
Abort ==
    /\ pc = "resolving"
    /\ \E f \in batch : Raises(f, findings.seq)
    /\ pc' = "ended"
    /\ UNCHANGED <<findings, batch, stored, insight, outcome, result>>

Next == Resolve \/ Abort

Spec == Init /\ [][Next]_vars

-----------------------------------------------------------------------------
(* What the settlement is to the rest of the program *)

\* As Research reads a row; a fact that does not apply has no date to be asked again.
Answer(f) ==
    CASE outcome[f] = "open"           -> IF f \in batch THEN "researching" ELSE "unasked"
      [] outcome[f] = "found"          -> "found"
      [] outcome[f] = "not_applicable" -> "never"
      [] OTHER                         -> "memoized"

\* What data_coverage finds present.
Known == {f \in Specs : \E t \in Tiers : stored[f][t] # NoValue}
         \cup {f \in Topics : insight[f] # NoInsight}

Contract == INSTANCE ResearchContract
    WITH answer <- [f \in Facts |-> Answer(f)], known <- Known, Seeded <- {}

-----------------------------------------------------------------------------
(* Properties *)

\* The shape of every variable.
TypeOK ==
    /\ batch \subseteq Facts
    /\ outcome \in [Facts -> {"open", "found", "not_applicable", "not_released_yet",
                              "no_reliable_source", "unresolved_conflict"}]
    /\ result \in [Facts -> Tiers \cup {"none"}]
    /\ \A f \in Specs, t \in Tiers : stored[f][t].url \in Urls \cup {"none"}
    /\ \A f \in Topics : insight[f].source \in {"none", "tested", "community"}
    /\ pc \in {"resolving", "committed", "ended"}

\* The claims about a number that a page of the given tier makes, converted.
Says(f, seq, t) ==
    {i \in DOMAIN seq : /\ seq[i].fact = f /\ seq[i].numeric /\ seq[i].unit # "unknown"
                        /\ \E u \in seq[i].urls : SiteOf[u] = t}

\* Two claims differ by more than the tolerated share of the mean of all of them.
Disagree(f, seq, S) ==
    \E i, j \in S :
        Cardinality(S) * TolDen * (Converted(seq[i]) - Converted(seq[j]))
            > TolNum * AbsOf(Total(f, seq, S))

Committed == pc = "committed"

\* A number is found only if all the claims of the best tier that makes any agree,
\* and flagged as a conflict only if they do not; what lower tiers say changes
\* neither (runner.py:163-182).
BestTierDecides ==
    Committed => \A f \in batch \cap Numbers, t \in Tiers :
        /\ Says(f, findings.seq, t) # {}
        /\ \A u \in Tiers : Priority[u] < Priority[t] => Says(f, findings.seq, u) = {}
        => LET conflict == Disagree(f, findings.seq, Says(f, findings.seq, t)) IN
           /\ outcome[f] = "unresolved_conflict" <=> conflict
           /\ outcome[f] = "found" <=> ~conflict
           /\ outcome[f] = "found" => result[f] = t

\* The order in which the provider lists its findings decides neither the outcome
\* of a number nor the value any tier stores (runner.py:249-253).
OrderIrrelevant ==
    Committed => \A f \in batch \cap Numbers :
        LET n == Len(findings.seq) IN
        \A p \in {q \in [1..n -> 1..n] : \A i, j \in 1..n : q[i] = q[j] => i = j} :
            LET other == [findings EXCEPT !.seq = [i \in 1..n |-> findings.seq[p[i]]]] IN
            /\ Outcome(f, other) = outcome[f]
            /\ outcome[f] = "found" =>
                  \A t \in Written(f, other) : Kept(f, other.seq, t).value = stored[f][t].value

\* The run changes a stored value only for a task of its batch that is found, and
\* then to what a page of that tier says of that very fact, with that page as its
\* source (runner.py:195-198, 249-267).
ChangesAreSourced ==
    [][\A f \in Specs, t \in Tiers : stored'[f][t] # stored[f][t] =>
        /\ f \in batch /\ outcome'[f] = "found"
        /\ \E i \in DOMAIN findings.seq :
              LET x == findings.seq[i] IN
              /\ x.fact = f /\ HasValue(f, x)
              /\ x.urls = {stored'[f][t].url}
              /\ SiteOf[stored'[f][t].url] = t
              /\ stored'[f][t].value = IF f \in Numbers THEN Converted(x) ELSE x.value]_vars

\* A run does to the contract what Research takes it to do: in one step it answers the
\* whole batch, each task that it calls found gets its value in that step, no other
\* value comes or goes, and a run that fails answers nothing (runner.py:97-104, 141-187).
SettlesAsContract == [][Contract!Settle(batch)]_(Contract!vars)

\* A task for a key or a topic that the registry still knows is memoized as missing,
\* for whatever reason, only if no finding gives a usable value from a verifiable
\* page: neither a release date nor a provider that calls the fact not applicable
\* hides one (runner.py:153-156, 281-284).  A retired topic is the exception: its
\* sourced summary is dropped and memoized as no_reliable_source (runner.py:298-301).
MissingMeansUnsourced ==
    \A f \in batch \ (Retired \cup RetiredTopics) :
        outcome[f] \in {"not_applicable", "not_released_yet", "no_reliable_source"} =>
            \A i \in DOMAIN findings.seq :
                LET x == findings.seq[i] IN
                x.fact # f \/ ~HasValue(f, x) \/ \A u \in x.urls : SiteOf[u] = "invalid"

\* An insight is one finding's own summary, with pages that can be verified and
\* no others, and it is called tested only on the word of a tested page
\* (runner.py:285-287, 306-316).
InsightsCited ==
    \A f \in Topics : outcome[f] = "found" =>
        /\ insight[f].urls # {}
        /\ \A u \in insight[f].urls : SiteOf[u] # "invalid"
        /\ insight[f].source = "tested" <=> \E u \in insight[f].urls : SiteOf[u] = "tested"
        /\ \E i \in DOMAIN findings.seq : /\ findings.seq[i].fact = f
                                          /\ findings.seq[i].value = insight[f].summary
                                          /\ insight[f].urls \subseteq findings.seq[i].urls

=============================================================================
