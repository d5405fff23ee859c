CONSTANTS
    Core <- CoreDef
    Details <- DetailsDef
    Charts = {"chart"}
    Meta = "meta"
    Repairs <- RepairsDef
    Root = ""
    DirOf <- DirOfDef
    Dirs <- DirsDef
    Last <- LastDef
    Concurrency = 2
    Retries = 1
    MaxSurprises = 2
    Calls = {1, 2}
    Fallback <- FallbackDef
    MaxFaults = 1
    Wants <- WantsDef
    None = None
SPECIFICATION MCSpec
INVARIANT RunPublishes
PROPERTY MirrorPromise
PROPERTY RefreshHolds
PROPERTY CallsEnd
PROPERTY MirrorCatchesUp
CHECK_DEADLOCK FALSE
