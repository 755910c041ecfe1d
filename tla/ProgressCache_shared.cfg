\* Two summaries of different ranges, a writer and item edits.
SPECIFICATION Spec
CONSTANTS
    m1 = m1  m2 = m2  ann = ann  bob = bob
    Summary = {m1, m2}
    Writer = {w1}
    Student = {ann, bob}
    Range = {week, month}
    NoRange = NoRange
    None = None
    MaxWrites = 1
SYMMETRY Symmetry
INVARIANTS CacheIsSound RangeHonoured RefreshWorks
