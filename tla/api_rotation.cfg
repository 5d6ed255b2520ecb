\* Rotation of the application credential by a user who waits for Ready, with a
\* crash and a failing call anywhere in the passes.
SPECIFICATION Spec
CONSTANTS
    c1 = c1
    c2 = c2
    s1 = s1
    Creds = {c1, c2}
    Storages = {s1}
    Topologies = {}
    Endpoints = {TRUE}
    Replicas = 1
    MayMiss = {}
    PatientUser = TRUE
    MaxEdits = 2
    MaxCrashes = 1
    MaxFaults = 1
    None = None
SYMMETRY Symmetry
INVARIANTS
    TypeOK
    TemplateCredentialProtected
    ProtectionInv
    
    TrackingInv
    FinalizersTracked
    DeletionReleasesSecrets
    DeletionReleasesEndpoint

    
CHECK_DEADLOCK FALSE
