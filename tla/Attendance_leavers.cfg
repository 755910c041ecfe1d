\* Two requests about one student in one day, todos that come and go; the
\* student keeps trying to leave.
SPECIFICATION LiveSpec
CONSTANTS
    ann = ann  bob = bob  nAnn = nAnn  nBob = nBob  sAnn = sAnn  sBob = sBob
    r1 = r1  r2 = r2
    Request = {r1, r2}
    Name = {nAnn}
    Student = {sAnn}
    Person = {ann}
    Nobody = Nobody
    NoOne = NoOne
    NameOf <- OneName
    StudentOf <- OneStudent
    Item = {"read"}
    Faults = {"reassign"}
    LateDays = {0}
    MaxRows = 3
    MaxDay = 0
    MaxSec = 1
PROPERTIES LimitedLedgerImplemented LeaversGetOut
