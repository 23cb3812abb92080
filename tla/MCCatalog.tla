----------------------------- MODULE MCCatalog ------------------------------
(* A small instance of Catalog for TLC. *)
EXTENDS Catalog, TLC

CONSTANTS power, usage, heat, noise

\* Two facts of the first bike count for coverage, one of the second does not, and an
\* insight of the second is from the days when its topic was in the registry.
MCFacts == {"f1", "f2", "f3", "f4"}

MCBikeOf == [f1 |-> 1, f2 |-> 1, f3 |-> 2, f4 |-> 2]

MCKeyOf == [f1 |-> power, f2 |-> heat, f3 |-> usage, f4 |-> noise]

MCKeyFilters == {{power, usage, heat, noise}, {usage}}

\* Two years of one model, its sister without a market, and a stranger.
MCTokensOf ==
    [v \in 1..4 |->
        CASE v = 1 -> {"yamaha", "r7", "2023"}
          [] v = 2 -> {"yamaha", "r7", "2024"}
          [] v = 3 -> {"yamaha", "r6", "2024"}
          [] v = 4 -> {"kawasaki", "6r", "2023"}]

MCYearOf == [v \in 1..4 |-> IF v \in {1, 4} THEN 2023 ELSE 2024]

MCMarketOf == [v \in 1..4 |-> CASE v = 1 -> "EU" [] v \in {2, 4} -> "US" [] v = 3 -> ""]

QueryTokens == {"r7", "yama", "2024", "6"}

Tokens == UNION {MCTokensOf[v] : v \in 1..4}

MCLikenessOf ==
    [q \in QueryTokens |-> [t \in Tokens |->
        CASE q = t -> [as |-> "equal", percent |-> 100]
          [] q = "yama" /\ t = "yamaha" -> [as |-> "contained", percent |-> 66]
          [] q = "6" /\ t \in {"6r", "r6"} -> [as |-> "contained", percent |-> 50]
          [] q = "r7" /\ t \in {"r6", "6r"} -> [as |-> "similar", percent |-> 50]
          [] q = "2024" /\ t = "2023" -> [as |-> "similar", percent |-> 75]
          [] OTHER -> [as |-> "similar", percent |-> 0]]]

MCQueries == {<<"r7">>, <<"yama", "r7">>, <<"yama", "2024">>, <<"r7", "2024">>, <<"6">>}

=============================================================================
