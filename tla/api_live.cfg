\* Progress under fair scheduling: inputs come late, one fault, one edit (which may
\* be the deletion).
SPECIFICATION FairSpec
CONSTANTS
    s1 = s1
    s2 = s2
    Creds = {}
    Storages = {s1, s2}
    Topologies = {}
    Endpoints = {TRUE, FALSE}
    Replicas = 1
    MayMiss = {"cinder", "tls"}
    PatientUser = FALSE
    MaxEdits = 1
    MaxCrashes = 0
    MaxFaults = 1
    None = None
INVARIANT
    SettledReadyIsDeployed
PROPERTIES
    Converges
    DeletionCompletes
CHECK_DEADLOCK FALSE
