\* Two APIs, no edit, one of them fails.
SPECIFICATION Spec
CONSTANTS
    i1 = i1
    Names = {1, 2}
    Layouts = {"single"}
    Images = {i1}
    Quotas = {FALSE}
    Endpoints = {2}
    MayMiss = {}
    PatientUser = TRUE
    Failures = {"report"}
    MaxEdits = 0
    MaxCrashes = 0
    MaxFaults = 1
INVARIANTS
    ReadyIsWhole
CHECK_DEADLOCK FALSE
