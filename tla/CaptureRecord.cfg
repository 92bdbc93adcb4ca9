SPECIFICATION FairSpec
CONSTANTS
    forklift = forklift
    forks = forks
    remarks = remarks
    None = None
    Machines = {forklift}
    Items = {forks, remarks}
    Required = {forks}
    PhotoItems = {forks}
    TextItems = {remarks}
    MaxFlips = 2
    MaxWalks = 2
    MaxConfirms = 2
    MaxClips = 1
    MaxUploads = 2
    MaxFailures = 1
    MaxEvents = 2
    MaxFragments = 2
    MaxDay = 1
INVARIANTS
    OnePerWalk
    ShownIsRecorded
    NoteSourceHonest
    EvidenceMatchesAnswer
    RecordIsComplete
PROPERTIES
    EveryConfirmEnds
CHECK_DEADLOCK FALSE
