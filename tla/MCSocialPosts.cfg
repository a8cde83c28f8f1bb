CONSTANTS
    Posts = {1}
    Platforms = {"facebook", "youtube"}
    Lists <- Arrays
    WithId = {"facebook", "youtube"}
    ByButton = {"facebook"}
    Zernio = "zernio"
    Setups <- MCSetups
    Retries = 1
    Runs = {r1, r2}
    MaxMishaps = 1
    MaxCauses = 3
SPECIFICATION FairSpec
INVARIANTS RepeatsNeedACause StatusTellsOutcome IdsAreKept
 
