\* Two requests beside a teacher's form; statements may fail.
SPECIFICATION Spec
CONSTANTS
    r1 = r1  r2 = r2  ann = ann  bob = bob  lab = lab
    Request = {r1, r2}
    Teacher = {t1}
    Student = {ann, bob}
    Room = {lab}
    Capacity <- OneSeat
    None = None
    MaxClass = 2
SYMMETRY Symmetry
PROPERTIES EnrollmentFits OneStudentAtATime IdsAreNew
