---------------------------- MODULE MCResolution ----------------------------
(* A small instance of Provider, and so of Resolution, for TLC. *)
EXTENDS Provider

CONSTANTS power, fuel, gears, old, topic, dropped

\* Two official pages, so that sources of one tier can disagree.
MCUrls == {"maker", "importer", "magazine", "forum", "broken"}

MCSiteOf == [u \in MCUrls |->
    CASE u \in {"maker", "importer"} -> "official"
      [] u = "magazine" -> "tested"
      [] u = "forum" -> "community"
      [] u = "broken" -> "invalid"]

Number(f, v, unit, url) ==
    [fact |-> f, numeric |-> TRUE, value |-> v, unit |-> unit, urls |-> {url}]

Text(f, v, url) ==
    [fact |-> f, numeric |-> FALSE, value |-> v, unit |-> "canonical", urls |-> {url}]

Summary(f, v, urls) ==
    [fact |-> f, numeric |-> FALSE, value |-> v, unit |-> "canonical", urls |-> urls]

\* 100 and 110 agree, 100 and 130 do not, 110 and 128 lie at the tolerance's edge;
\* 50 linear units are 100 canonical ones; the mean of 100 and -100 is zero.
MCClaims ==
    {Number(power, 100, "canonical", "maker"), Number(power, 110, "canonical", "importer"),
     Number(power, 128, "canonical", "maker"), Number(power, 50, "linear", "magazine"),
     Number(power, 130, "canonical", "magazine"), Number(power, 100, "canonical", "broken"),
     Number(power, 100, "unknown", "maker"), Number(power, -100, "canonical", "importer"),
     Number(fuel, 60, "reciprocal", "maker"), Number(fuel, 0, "reciprocal", "forum"),
     Text(power, 1, "maker"), Text(gears, 1, "maker"), Text(gears, 2, "importer"),
     Summary(topic, 1, {"forum", "broken"}),
     Summary(topic, 2, {"magazine", "maker"}), Summary(topic, 3, {"broken"}),
     Summary(dropped, 1, {"forum"})}

MCMalformed == {[Text(gears, 3, "maker") EXCEPT !.urls = {}]}

Support(end, chunks) == [end |-> end, chunks |-> chunks]

Chunk(link, page) == [link |-> link, page |-> page]

MCChunks == {<<>>, <<Chunk("redirect", "maker"), Chunk("direct", "forum")>>,
             <<Chunk("redirect", "maker"), Chunk("none", "broken"), Chunk("redirect", "magazine")>>}

\* Three characters of one byte each, or the second one of three.
MCSupports == {<<>>, <<Support(1, <<0>>), Support(3, <<1, 0>>)>>,
               <<Support(2, <<1>>), Support(NoEnd, <<0>>), Support(2, <<0>>), Support(1, <<>>)>>}

MCWideSupports == {<<Support(1, <<1>>), Support(4, <<1>>), Support(5, <<0>>)>>}

Grounding(ends, supports, chunks) ==
    [length |-> 3, offset |-> [c \in 0..3 |-> IF c = 0 THEN 0 ELSE ends[c]],
     supports |-> supports, chunks |-> chunks]

MCGroundings ==
    {Grounding(<<1, 2, 3>>, s, c) : s \in MCSupports, c \in MCChunks}
    \cup {Grounding(<<1, 4, 5>>, s, c) : s \in MCWideSupports, c \in MCChunks}

MCBatches == {{power, gears, topic}, {fuel, power}, {old, dropped}}

MCCatalogs ==
    {[f \in Specs |-> [t \in Tiers |->
        IF f = power /\ t = "tested" THEN [value |-> 90, url |-> "magazine"] ELSE NoValue]]}

=============================================================================
