\* One row with strings of up to two characters.
SPECIFICATION Spec
CONSTANTS
    None = None
    Ids = {1}
    MaxLen = 2
INVARIANTS
    SidesAgree
