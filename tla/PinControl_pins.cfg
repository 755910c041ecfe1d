\* Two requests, one student, two days.
SPECIFICATION Spec
CONSTANTS
    r1 = r1  r2 = r2
    Request = {r1, r2}
    Student = {ann}
    None = None
    MaxDay = 1
    MaxPin = 2
SYMMETRY Symmetry
INVARIANTS ModeIsKept ShownPinWorks StudentPinsWork
