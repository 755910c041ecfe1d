SPECIFICATION Spec
CONSTANTS
    r1 = r1  r2 = r2
    Request = {r1, r2}
    Student = {s1}
    None = None
    Draft <- MCDraft
    Name <- MCName
    WeekLen = 2
    MonthLen = 2
    MaxItem = 3
    MaxResp = 2
    MaxDay = 3
    MaxOp = 3
SYMMETRY Symmetry
INVARIANTS BoardIsSound NotAskedAgain
PROPERTIES  AnswersKept LateForItsDay NoSecondCopy
