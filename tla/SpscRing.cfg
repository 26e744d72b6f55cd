SPECIFICATION FairSpec
CONSTANTS
    Capacity = 4
    Policies = {"DropNewest", "NeverDropBlock", "OverwriteOldest"}
    Threading = {TRUE, FALSE}
    MaxFrames = 6
    Moved = Moved
INVARIANTS NoSlotRace CountersAccount KeepsFreshest
PROPERTIES ImplementsFifo Progress
