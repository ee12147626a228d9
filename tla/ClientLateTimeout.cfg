\* Three rounds over whole transfers.
CONSTANTS
    MaxJobs = 3
    Torn = FALSE
SPECIFICATION FairSpec
PROPERTIES
    TimeoutClosesItsOwn
