\* At most three temporary files at once, those left behind included.
SPECIFICATION Spec
CONSTANTS
    w1 = w1
    w2 = w2
    mail = mail
    copy = copy
    a = a
    b = b
    t1 = t1
    t2 = t2
    t3 = t3
    None = None
    Workers <- MCWorkers
    Messages <- MCMessages
    Contents <- MCContents
    Parts <- MCParts
    NoHeaderId <- MCNoHeaderId
    Temps <- MCTemps
SYMMETRY Symmetry
INVARIANTS
    TypeOK
    FilesAreWhole
    RowsHaveTheirFiles
    NoStrayTemps
PROPERTIES
    FilesStay
