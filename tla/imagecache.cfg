\* Up to two replicas, an edit that overtakes the passes, one failure.
SPECIFICATION FairSpec
CONSTANTS
    MaxReplicas = 2
    MaxEdits = 1
    MaxFaults = 1
INVARIANTS
    TypeOK
    
PROPERTIES
    PodsKeepJobs
    UnneededJobsGo
    LocalClaimsLabelled
