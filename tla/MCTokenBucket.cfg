\* Two threads, two calls each, and a bucket of three.
CONSTANTS
    t1 = t1
    t2 = t2
    Thread = {t1, t2}
    Capacity = 3
    Calls = 2
    MaxWindow = 5
    Demands <- MCDemands
SPECIFICATION FairBucketSpec
INVARIANTS
    BucketTypeOK
    RateLimited
    SleepsLongEnough
PROPERTIES
    EveryCallReturns
