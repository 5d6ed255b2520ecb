\* An API is added whose service override names no endpoint.
SPECIFICATION Spec
CONSTANTS
    Names = {"default", "fits"}
    KeyLen <- TwoLengths
    NameLen = 6
    Configs <- Declared
    Timeouts = {0}
    Defects = {"override"}
    MaxEdits = 1
INVARIANTS
    StoredIsAdmissible
