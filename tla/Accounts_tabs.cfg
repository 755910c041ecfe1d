\* Two tabs of a browser, a superadmin and two users, one session.
SPECIFICATION ASpec
CONSTANTS
    r1 = r1  r2 = r2  ann = ann  bob = bob
    Tab = {r1, r2}
    Account = {boss, ann, bob}
    Super = {boss}
    Token = {t1}
    Nothing = Nothing
    MaxArray = 3
SYMMETRY Symmetry
INVARIANTS SessionsAreSound ListsAreReal
PROPERTIES ActiveIsRight
