\* Changes of the storage configuration, of the referenced Topology and of the
\* keystoneEndpoint annotation by a user who waits for Ready, with a crash anywhere
\* and a Topology that comes late.
SPECIFICATION Spec
CONSTANTS
    s1 = s1
    s2 = s2
    t1 = t1
    t2 = t2
    Creds = {}
    Storages = {s1, s2}
    Topologies = {t1, t2}
    Endpoints = {TRUE, FALSE}
    Replicas = 1
    MayMiss = {"topology"}
    PatientUser = TRUE
    MaxEdits = 2
    MaxCrashes = 1
    MaxFaults = 0
    None = None
SYMMETRY Symmetry
INVARIANTS
    ReadyHasVolumes
    TopologyTracked
CHECK_DEADLOCK FALSE
