SPECIFICATION Spec
CONSTANTS
    r1 = r1
    r2 = r2
    v1 = v1
    v2 = v2
    v3 = v3
    w1 = w1
    w2 = w2
    Readers = {a, b}
    Writers = {w1, w2}
    Rows = {r1, r2}
    Vals = {v1, v2}
    Table = Table
    Queries <- MixedQuery
    FirstKeys <- FirstRow
    Where <- WhereMixed
    ScanLimit = 2
    MaxWrites = 2
    Methods = {"create", "updateBy", "destroy", "flip"}
    Transactional = FALSE
    Serialised = TRUE
    Absent = Absent
    Nothing = Nothing
    Same = Same
SYMMETRY Symmetry
INVARIANTS
    TypeOK
    AnswersRegular
    SettledFresh
CHECK_DEADLOCK FALSE
