\* One reader beside the pipeline on four facts of two bikes, and lookups among four.
SPECIFICATION Spec
CONSTANTS
    power = power
    usage = usage
    heat = heat
    noise = noise
    Facts <- MCFacts
    Seeded = {"f4"}
    BikeOf <- MCBikeOf
    KeyOf <- MCKeyOf
    Topics = {heat, noise}
    RetiredTopics = {noise}
    Core = {power, heat}
    Reciprocal = {usage}
    Variants = {1, 2, 3, 4}
    TokensOf <- MCTokensOf
    YearOf <- MCYearOf
    MarketOf <- MCMarketOf
    LikenessOf <- MCLikenessOf
    ListLimit = 3
    KeyFilters <- MCKeyFilters
    Queries <- MCQueries
INVARIANTS TypeOK EveryFactPlaced LookupDecided
PROPERTIES GapsNotResearched
