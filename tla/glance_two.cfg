\* Two APIs: one is added, removed or given the keystone endpoint, or the Glance is
\* deleted, at any time; inputs that come late; a cleanup that fails half-way; fair
\* scheduling.
SPECIFICATION FairSpec
CONSTANTS
    i1 = i1
    Names = {1, 2}
    Layouts = {"single"}
    Images = {i1}
    Quotas = {TRUE}
    Endpoints = {1, 2}
    MayMiss = {"badSecret", "keystone"}
    PatientUser = FALSE
    Failures = {"cleanup"}
    MaxEdits = 1
    MaxCrashes = 0
    MaxFaults = 1
INVARIANTS
    SettledReadyIsDeployed
    NoForeignAPI
    PassInv
PROPERTIES
    NoAPIAfterDeletion
    
CHECK_DEADLOCK FALSE
