\* One configuration sets an option and names no backend.
SPECIFICATION Spec
CONSTANTS
    Names = {"default"}
    KeyLen <- OneLength
    NameLen = 6
    Configs <- Undeclared
    Timeouts = {0}
    Defects = {}
    MaxEdits = 1
INVARIANTS
    SplitNotOnFile
