\* Two concurrent requests, every disturbance, two students.
SPECIFICATION Spec
CONSTANTS
    ann = ann  bob = bob  nAnn = nAnn  nBob = nBob  sAnn = sAnn  sBob = sBob
    r1 = r1  r2 = r2
    Request = {r1, r2}
    Name = {nAnn, nBob}
    Student = {sAnn, sBob}
    Person = {ann, bob}
    Nobody = Nobody
    NoOne = NoOne
    NameOf <- TwoNames
    StudentOf <- TwoStudents
    Item = {"read"}
    Faults = {"busy", "crash", "midnight"}
    LateDays = {}
    MaxRows = 2
    MaxDay = 1
    MaxSec = 0
SYMMETRY RequestSymmetry
INVARIANTS AnswersFollowCheckout AuditOwnRow
PROPERTIES LedgerImplemented
