SPECIFICATION Spec
CONSTANTS
    forklift = forklift
    forks = forks
    remarks = remarks
    None = None
    Machines = {forklift}
    Items = {forks}
    Required = {forks}
    PhotoItems = {forks}
    TextItems = {}
    MaxFlips = 2
    MaxWalks = 2
    MaxConfirms = 2
    MaxClips = 1
    MaxUploads = 2
    MaxFailures = 1
    MaxEvents = 2
    MaxFragments = 2
    MaxDay = 1
INVARIANTS
    NothingSubmittedReopens
CHECK_DEADLOCK FALSE
