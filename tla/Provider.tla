------------------------------ MODULE Provider ------------------------------
(***************************************************************************)
(* The two phases of backend/app/research/provider.py before what          *)
(* Resolution has: a grounded search whose notes get citation markers and  *)
(* a list of the pages behind them, and an extraction that turns the notes *)
(* into the findings the run resolves.                                     *)
(*                                                                         *)
(* Both answers come from outside: any grounding out of a set, any items   *)
(* out of a set, or an error.  Notes are a sequence of the characters of   *)
(* the text and of those of the markers; prompts are left out.             *)
(*                                                                         *)
(* The API measures the end of a segment in bytes and the code takes it    *)
(* for a position in a str, so a grounding says how many bytes its         *)
(* characters are.                                                         *)
(***************************************************************************)
EXTENDS Resolution, SequencesExt

CONSTANTS
    Groundings,     \* answers of a search: [length, offset, supports, chunks]
    Malformed       \* items of an extraction that are no findings

VARIABLES
    phase,          \* what research() is doing
    notes,          \* the text with its markers
    sources,        \* "Sources consulted": an index and a page each
    grounding       \* the answer of the search

searchVars == <<phase, notes, sources, grounding>>

NoGrounding == [length |-> 0, offset |-> [c \in {0} |-> 0], supports |-> <<>>, chunks |-> <<>>]

NoFindings == [seq |-> <<>>, notApplicable |-> {}, release |-> FALSE]

SearchInit ==
    /\ Begun(NoFindings)
    /\ phase = "search"
    /\ notes = <<>>
    /\ sources = {}
    /\ grounding = NoGrounding

-----------------------------------------------------------------------------
(* Citation markers *)

Character(i) == [kind |-> "text", n |-> i, part |-> 0]

Digits(n) == Cardinality({d \in 0..9 : 10^d <= n})

\* "[n]", character by character.
Marker(n) == [k \in 1..(2 + Digits(n)) |-> [kind |-> "mark", n |-> n, part |-> k]]

\* A support whose segment has no end.
NoEnd == -1

\* offset[c] is the length in bytes (UTF-8) of the first c characters; a segment ends
\* behind some character.
ASSUME GroundingsAssumption ==
    \A g \in Groundings :
        /\ g.length \in Nat
        /\ g.offset \in [0..g.length -> Nat] /\ g.offset[0] = 0
        /\ \A c \in 1..g.length : g.offset[c] - g.offset[c - 1] \in 1..4
        /\ g.supports \in Seq([end : {NoEnd} \cup {g.offset[c] : c \in 0..g.length},
                               chunks : Seq(Nat)])

\* Supports without an end or without chunks are left out.
Anchored(g) ==
    {i \in DOMAIN g.supports : g.supports[i].end # NoEnd /\ g.supports[i].chunks # <<>>}

\* One [n] for each chunk, counted from 1.
MarkersOf(support) ==
    FlattenSeq([k \in DOMAIN support.chunks |-> Marker(support.chunks[k] + 1)])

\* Mutant of Behind: front to back, as the supports come in the text.
BehindForward(g, i, j) ==
    \/ g.supports[i].end < g.supports[j].end
    \/ g.supports[i].end = g.supports[j].end /\ i < j

\* The last end first, equal ends as they come.
Behind(g, i, j) ==
    \/ g.supports[i].end > g.supports[j].end
    \/ g.supports[i].end = g.supports[j].end /\ i < j

\* sorted(..., reverse=True), which is stable.
InsertionOrder(g) ==
    LET place(i) == 1 + Cardinality({j \in Anchored(g) : Behind(g, j, i)}) IN
    [p \in 1..Cardinality(Anchored(g)) |-> CHOOSE i \in Anchored(g) : place(i) = p]

\* text[:end] + markers + text[end:]; a slice stops where the text does.
Spliced(text, end, markers) ==
    LET at == IF end <= Len(text) THEN end ELSE Len(text) IN
    SubSeq(text, 1, at) \o markers \o SubSeq(text, at + 1, Len(text))

\* _insert_citation_markers
Annotated(g) ==
    FoldLeft(LAMBDA text, i : Spliced(text, g.supports[i].end, MarkersOf(g.supports[i])),
             [i \in 1..g.length |-> Character(i)],
             InsertionOrder(g))

-----------------------------------------------------------------------------
(* Sources *)

\* Chunks with a link of their own, or one Google still redirects (`reached`).
Usable(g, reached) ==
    {i \in DOMAIN g.chunks : \/ g.chunks[i].link = "direct"
                             \/ g.chunks[i].link = "redirect" /\ i \in reached}

\* Mutant of ResolvedSources: the sources left are numbered afresh.
ResolvedSourcesRenumbered(g, reached) ==
    LET usable == Usable(g, reached) IN
    {[index |-> Cardinality({j \in usable : j <= i}), page |-> g.chunks[i].page] : i \in usable}

\* _resolved_sources: a source keeps the number of its chunk.
ResolvedSources(g, reached) ==
    {[index |-> i, page |-> g.chunks[i].page] : i \in Usable(g, reached)}

\* There were sources, and none of them could be resolved.
Unreached(g, reached) == g.chunks # <<>> /\ Usable(g, reached) = {}

-----------------------------------------------------------------------------
(* The phases *)

\* ResearchExecutionError: an API error, a timeout, no notes, no JSON object.  The
\* run settles nothing (Research has the step as ExecutionError).
ExecutionError ==
    /\ phase \in {"search", "extract"}
    /\ phase' = "error"
    /\ UNCHANGED <<vars, notes, sources, grounding>>

\* _search
Search(g, reached) ==
    /\ phase = "search"
    /\ ~Unreached(g, reached)
    /\ phase' = "noted"
    /\ grounding' = g
    /\ notes' = Annotated(g)
    /\ sources' = ResolvedSources(g, reached)
    /\ UNCHANGED vars

\* The one case of an execution error that depends on the answer.
SourcesUnreached(g, reached) ==
    /\ phase = "search"
    /\ Unreached(g, reached)
    /\ phase' = "error"
    /\ UNCHANGED <<vars, notes, sources, grounding>>

\* The notes go into the prompt of the second call.  What the model makes of them is
\* not the program's, so they are forgotten here.
AskForFindings ==
    /\ phase = "noted"
    /\ phase' = "extract"
    /\ notes' = <<>>
    /\ sources' = {}
    /\ grounding' = NoGrounding
    /\ UNCHANGED vars

\* findings_from_payload: an item that is not well formed is dropped, the others keep
\* their order.
WellFormed(items) ==
    LET kept[i \in 0..Len(items)] ==
            IF i = 0 THEN <<>>
            ELSE IF items[i] \in Malformed THEN kept[i - 1]
            ELSE Append(kept[i - 1], items[i])
    IN  kept[Len(items)]

\* At most one fact is called not applicable, as in Init.
Extract ==
    /\ phase = "extract"
    /\ phase' = "found"
    /\ \E n \in 0..MaxFindings, na \in {{}} \cup {{f} : f \in Facts}, release \in BOOLEAN :
          \E items \in [1..n -> Claims \cup Malformed] :
             findings' = [seq |-> WellFormed(items), notApplicable |-> na,
                          release |-> release]
    /\ UNCHANGED <<batch, stored, insight, outcome, result, pc>>
    /\ UNCHANGED <<notes, sources, grounding>>

Settle ==
    /\ phase = "found"
    /\ Next
    /\ UNCHANGED searchVars

SearchNext ==
    \/ ExecutionError
    \/ \E g \in Groundings : \E reached \in SUBSET DOMAIN g.chunks :
          Search(g, reached) \/ SourcesUnreached(g, reached)
    \/ AskForFindings
    \/ Extract
    \/ Settle

SearchSpec == SearchInit /\ [][SearchNext]_<<vars, searchVars>>

-----------------------------------------------------------------------------
(* Properties *)

\* A reader finds [n] at place i of the notes, all of it.
Reads(i, n) ==
    /\ i + Len(Marker(n)) - 1 \in DOMAIN notes
    /\ \A k \in DOMAIN Marker(n) : notes[i + k - 1] = Marker(n)[k]

\* The markers to be read between a character of the text and the next (the
\* beginning is 0).
MarksAfter(p) ==
    {notes[i].n : i \in {j \in DOMAIN notes :
        /\ Reads(j, notes[j].n)
        /\ Cardinality({k \in 1..j : notes[k].kind = "text"}) = p}}

\* The numbers that belong behind a segment with the given end.
CitedAt(end) ==
    UNION {{grounding.supports[i].chunks[k] + 1 : k \in DOMAIN grounding.supports[i].chunks} :
           i \in {j \in Anchored(grounding) : grounding.supports[j].end = end}}

\* As far as the text has only characters of one byte, and whatever comes behind,
\* every marker stands whole behind the text its support cites and no support is
\* lost; and in all of the notes, the source listed under a number is the page of
\* the chunk with that number, whichever other sources could not be resolved
\* (provider.py:112-123, 189-199, 251-265).  Behind a character of several bytes it
\* promises nothing: the code puts those markers too far back, even into one another.
CitationsInPlace ==
    phase = "noted" =>
        /\ \A p \in 0..grounding.length :
              grounding.offset[p] = p => MarksAfter(p) = CitedAt(p)
        /\ \A s \in sources : s.page = grounding.chunks[s.index].page

=============================================================================
