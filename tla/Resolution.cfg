\* Every search, then up to three findings for every batch, and what is stored of them.
SPECIFICATION SearchSpec
CONSTANTS
    power = power
    fuel = fuel
    gears = gears
    old = old
    topic = topic
    dropped = dropped
    Numbers = {power, fuel}
    Texts = {gears}
    Retired = {old}
    Topics = {topic, dropped}
    RetiredTopics = {dropped}
    Urls <- MCUrls
    SiteOf <- MCSiteOf
    Factor = 2
    Reciprocal = 240
    TolNum = 3
    TolDen = 20
    Claims <- MCClaims
    MaxFindings = 3
    Batches <- MCBatches
    Catalogs <- MCCatalogs
    Groundings <- MCGroundings
    Malformed <- MCMalformed
INVARIANTS BestTierDecides OrderIrrelevant MissingMeansUnsourced InsightsCited CitationsInPlace
PROPERTIES ChangesAreSourced SettlesAsContract
CHECK_DEADLOCK FALSE
