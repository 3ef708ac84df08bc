SPECIFICATION Spec
CONSTANTS
    r1 = r1
    r2 = r2
    v1 = v1
    v2 = v2
    v3 = v3
    w1 = w1
    w2 = w2
    Readers = {a}
    Writers = {w1, w2}
    Rows = {r1, r2}
    Vals = {v1, v2, v3}
    Table = Table
    Queries <- ListQuery
    FirstKeys <- FirstRow
    Where <- WhereSame
    ScanLimit = 2
    MaxWrites = 2
    Methods = {"updateBy"}
    Transactional = TRUE
    Serialised = FALSE
    Absent = Absent
    Nothing = Nothing
    Same = Same
INVARIANTS
    AnswersRegular
CHECK_DEADLOCK FALSE
