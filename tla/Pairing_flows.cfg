CONSTANTS
    MaxTokens = 3
    Reserved = 1
    MaxLate = 1
    Flows = {f1, f2}
    Races = {}

SPECIFICATION FairSpec
INVARIANTS
    SilenceSignalled
PROPERTIES
    StoredIsAdopted

CHECK_DEADLOCK FALSE
