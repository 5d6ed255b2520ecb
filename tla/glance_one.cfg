\* One split API: a change of the inherited fields once it is Ready, deletion at any
\* time, inputs that come late, one crash, and one failing call or one report of a
\* GlanceAPI that is late or of a failure.
SPECIFICATION Spec
CONSTANTS
    i1 = i1
    i2 = i2
    Names = {1}
    Layouts = {"split"}
    Images = {i1, i2}
    Quotas = {TRUE}
    Endpoints = {1}
    MayMiss = {"inputs", "service", "db", "dbsync", "keystone"}
    PatientUser = TRUE
    Failures = {"call", "patch", "report"}
    MaxEdits = 1
    MaxCrashes = 1
    MaxFaults = 1
INVARIANTS
    TypeOK
    SettledReadyIsDeployed
    ReadyIsWhole
    DeletionReleasesClaims
    DeletionRemovesLimits
    
    

    
CHECK_DEADLOCK FALSE
