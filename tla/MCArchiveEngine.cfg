SPECIFICATION Spec
CONSTANTS
    GroupTarget = 3
    MaxGroup = 3
    MaxOriginal = 5
    MaxExpansion = 2
    Trees <- MCTrees
    Contents <- MCContents
    MaxChanges <- MCMaxChanges
    Units = {0, 1}
    MaxDamage = 2
INVARIANTS PackedIsSnapshot SpoolIsAccepted PublishedVerifies RestoredIsPacked
PROPERTY NothingReplaced
CHECK_DEADLOCK FALSE
