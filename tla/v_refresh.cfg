\* One change of the storage configuration and one failing call.
SPECIFICATION Spec
CONSTANTS
    s1 = s1
    s2 = s2
    Creds = {}
    Storages = {s1, s2}
    Topologies = {}
    Endpoints = {FALSE}
    Replicas = 1
    MayMiss = {}
    PatientUser = TRUE
    MaxEdits = 1
    MaxCrashes = 0
    MaxFaults = 1
    None = None
INVARIANTS
    HashUpdateRecreates
CHECK_DEADLOCK FALSE
