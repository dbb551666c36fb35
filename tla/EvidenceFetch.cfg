SPECIFICATION FairSpec
CONSTANTS
    Fetchers = {f1, f2}
    f1 = f1
    f2 = f2
    leaf = leaf
    sub = sub
    ca = ca
    CrlUrls <- DistributionPoint
    PostUrls <- Service
    Presented <- MCPresented
    Needs <- MCNeeds
    Certs <- MCCerts
    CaIssuers <- MCCaIssuers
    Bundles <- MCBundles
    MaxDepth = 2
    MaxUrls = 3
    MaxAttempts = 2
    MaxRedirects = 1
    MaxOrphans = 1
    MaxTime = 1
INVARIANTS
    WholeAnswersOnly
    IssuersAreFound
PROPERTIES
    EveryFetchEnds
