\* One device, three students, two check-ins at a time, a day that ends.
SPECIFICATION Spec
CONSTANTS
    r1 = r1  r2 = r2  ann = ann  bob = bob  cat = cat  kiosk = kiosk
    Request = {r1, r2}
    Name = {ann, bob, cat}
    Device = {kiosk}
    None = None
    Cooldown <- OneTick
    Window = 1
    Keep = 2
    DayLen = 5
    MaxTime = 5
    MaxAudit = 3
SYMMETRY Symmetry
INVARIANTS FlagsAreSound Spaced SuspectsAreFlagged
