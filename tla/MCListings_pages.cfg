\* Emails, three messages, two dates.
SPECIFICATION Spec
CONSTANTS
    Kinds = {"emails"}
    Times = {1, 2}
    Asked = {1}
    DefaultLimit = 1
    MaxLimit = 1
    MaxRows = 3
INVARIANT
    PagesMissNothing
