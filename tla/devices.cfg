SPECIFICATION DevSpec
CONSTANTS
    Seqnum = {1, 2, 3}
    Capacity = 2
    MaxUevents = 4
    MaxKills = 2
    Dir <- MCDir
    HasUevent <- MCHasUevent
    Link <- MCLink
    BusDev <- MCBusDev
    ClassDev <- MCClassDev
    Rank <- MCRank
    Late = {"dm-0"}
    Card = {"card0"}
    Control = {"controlC0"}
    SubPattern <- MCSubPattern
    NamePattern <- MCNamePattern
    ValuePattern <- MCSubPattern
    Prioritized = {"input", "net"}
    ParentDir <- MCParentDir
    MaxCalls = 2
    NoSub = NoSub
INVARIANTS
    AcksMeetTheirWorker
    OneWorkerPerJob
    EnumeratesSelected
    ParentsFirst
PROPERTIES
    JobsProcessed
CHECK_DEADLOCK FALSE
