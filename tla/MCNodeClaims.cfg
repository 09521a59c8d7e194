SPECIFICATION Spec
CONSTANTS
    web = web  db = db  cache = cache  job = job  alien = alien  guest = guest
    Kind <- Kinds
    MaxPods = 5
    Owner = {web, db, cache, job, alien, guest}
    Labels <- Labelled
    AntiAffinity <- Apart
    Skews <- Spread
    Requires <- Required
    Tolerates <- Tolerating
    PoolLabels = {"ssd"}
    PoolTaints = {"dedicated"}
    Largest = 3
    MaxNodes = 5
    Usages = {0, 3}
INVARIANTS IndexesExact ClaimsSound Packed
