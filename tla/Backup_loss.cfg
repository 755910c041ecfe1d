\* Two check-ins, two backups, crashes and lost databases.
SPECIFICATION Spec
CONSTANTS
    ann = ann  bob = bob
    Student = {ann, bob}
    Saved = {"all"}
    MaxSession = 2
    MaxFile = 2
SYMMETRY Symmetry
INVARIANTS AuditIsSound BackedUpSessionsSurvive
PROPERTIES RestoreIsWhole
