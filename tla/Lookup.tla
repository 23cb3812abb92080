------------------------------- MODULE Lookup -------------------------------
(***************************************************************************)
(* How backend/app/catalog/service.py matches a free-text reference with   *)
(* the variants of the catalog (resolve_bike), and when the chat's tool    *)
(* picks the first match for the user (chat/tools.py).                     *)
(*                                                                         *)
(* A token is a member of a set; what two tokens have to do with each      *)
(* other is a constant, with its share in percent.  Scores are sums of     *)
(* percents over the tokens of the query, exact where the code has the     *)
(* mean as a float, rounded to three digits.                               *)
(***************************************************************************)
EXTENDS Integers, Sequences, FiniteSetsExt, SequencesExt

CONSTANTS
    Variants,       \* ids of the catalog's bikes
    TokensOf,       \* the tokens of each variant's name, year, trim and market
    YearOf,         \* model year
    MarketOf,       \* market, "" where none is recorded
    LikenessOf,     \* how two tokens are alike: [as, percent]
    Queries,        \* token sequences users look bikes up with
    ListLimit       \* bound: entries of an answer

ASSUME VariantsAssumption ==
    /\ Variants \subseteq Nat
    /\ IsFiniteSet(Variants)
    /\ YearOf \in [Variants -> Int]

\* Every variant has at least its year for a token.
ASSUME TokensAssumption ==
    \A v \in Variants : IsFiniteSet(TokensOf[v]) /\ TokensOf[v] # {}

ASSUME QueriesAssumption ==
    \A query \in Queries :
        /\ query \in Seq({query[i] : i \in DOMAIN query})
        /\ \A i \in DOMAIN query, v \in Variants : \A t \in TokensOf[v] :
              LikenessOf[query[i]][t] \in
                 [as : {"equal", "contained", "similar"}, percent : 0..100]

\* The tool, which picks a bike, asks for five; the route, which may ask for one,
\* picks none.
ASSUME ListLimitAssumption == ListLimit \in Nat \ {0, 1}

\* The score of one token of the query against one of the variant: containment
\* counts from half the token on, similarity from difflib's cutoff on.
TokenScore(q, t) ==
    LET likeness == LikenessOf[q][t] IN
    CASE likeness.as = "equal"     -> 100
      [] likeness.as = "contained" -> IF likeness.percent >= 50 THEN likeness.percent ELSE 0
      [] likeness.as = "similar"   -> IF likeness.percent >= 60 THEN likeness.percent ELSE 0

\* What the best of a variant's tokens scores for the i-th token of the query.
BestScore(query, v, i) == Max({TokenScore(query[i], t) : t \in TokensOf[v]})

\* _match_confidence, times the number of tokens.
Confidence ==
    [query \in Queries |-> [v \in Variants |->
        MapThenSumSet(LAMBDA i : BestScore(query, v, i), DOMAIN query)]]

\* A share of 100 percent for every token.
Percent(query, n) == n * Len(query)

\* The WHERE clause and _MINIMUM_RESOLVE_CONFIDENCE; without a market all are eligible.
Candidates(query, market) ==
    {v \in Variants : /\ market # "" => MarketOf[v] \in {market, ""}
                      /\ Confidence[query][v] >= Percent(query, 35)}

\* Mutant of Precedes: nothing but the confidence counts.
PrecedesByConfidence(query, v, w) == Confidence[query][v] > Confidence[query][w]

\* The sort key: confidence, then the newer year, then the id.
Precedes(query, v, w) ==
    \/ Confidence[query][v] > Confidence[query][w]
    \/ /\ Confidence[query][v] = Confidence[query][w]
       /\ YearOf[v] > YearOf[w] \/ (YearOf[v] = YearOf[w] /\ v < w)

\* The place of an entry of the scan after the stable sort.
Place(query, scan, i) ==
    1 + Cardinality({j \in DOMAIN scan :
            \/ Precedes(query, scan[j], scan[i])
            \/ j < i /\ ~Precedes(query, scan[i], scan[j])})

\* resolve_bike, from the rows in the order the database returns them.
Listed(query, scan) ==
    LET sorted == [p \in DOMAIN scan |->
                     scan[CHOOSE i \in DOMAIN scan : Place(query, scan, i) = p]]
    IN  SubSeq(sorted, 1, Min({ListLimit, Len(scan)}))

\* Mutant of ClearWinner: the gap is taken to the last of the list.
ClearWinnerOfAll(query, list) ==
    Confidence[query][list[1]] - Confidence[query][Last(list)] >= Percent(query, 15)

\* AUTO_RESOLVE_CONFIDENCE_GAP
ClearWinner(query, list) ==
    \/ Len(list) = 1
    \/ Confidence[query][list[1]] - Confidence[query][list[2]] >= Percent(query, 15)

\* The bike the tool resolves to, if it does not ask the user.
Picked(query, list) == IF list # <<>> /\ ClearWinner(query, list) THEN {list[1]} ELSE {}

=============================================================================
