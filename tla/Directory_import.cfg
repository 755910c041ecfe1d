\* Two reimports, two requests, an upload at a time, a save of every sheet.
SPECIFICATION Spec
CONSTANTS
    r1 = r1  r2 = r2  w1 = w1  w2 = w2
    Order <- TwoTables
    Worker = {w1, w2}
    Request = {r1, r2}
    Upload = {u1}
    Main = Main
    None = None
    MaxVersion = 2
    MaxCopies = 2
SYMMETRY Symmetry
INVARIANTS TablesAgree LatestSheet NoDuplicates
