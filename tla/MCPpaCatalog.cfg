CONSTANTS
    Targets <- MCTargets
    Builds <- MCBuilds
    Documented = {"cdc", "fifo"}
    Selections <- MCSelections
    Name <- MCName
    NoFile = NoFile
    Torn = Torn
    MaxFaults = 2
SPECIFICATION FairSpec
INVARIANTS TypeOK CatalogIsComplete
PROPERTIES FullRunIsFresh ResumeFinishes
