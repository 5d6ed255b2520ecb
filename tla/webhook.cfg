\* Three edits of a Glance and of the annotations of its Route; every configuration
\* that is not empty names its backends; one name is at the limit, one beyond it.
SPECIFICATION Spec
CONSTANTS
    Names = {"default", "fits", "long"}
    KeyLen <- Lengths
    NameLen = 6
    Configs <- Declared
    Timeouts = {0, 20}
    Defects = {"topology"}
    MaxEdits = 3
INVARIANTS
    TypeOK
    SplitNotOnFile
    StoredIsAdmissible
    RevisionLabelFits
    ProbesBeforeTimeout
    ManualTimeoutKept
