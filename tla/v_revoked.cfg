\* The smallest rotation: one edit, no failure.
SPECIFICATION Spec
CONSTANTS
    c1 = c1
    c2 = c2
    s1 = s1
    Creds = {c1, c2}
    Storages = {s1}
    Topologies = {}
    Endpoints = {FALSE}
    Replicas = 1
    MayMiss = {}
    PatientUser = TRUE
    MaxEdits = 1
    MaxCrashes = 0
    MaxFaults = 0
    None = None
INVARIANTS
    NoPodOnRevokedCredential
CHECK_DEADLOCK FALSE
