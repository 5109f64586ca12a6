SPECIFICATION MCSpec
CONSTANTS
    None = None
    c1 = c1
    c2 = c2
    boss1 = boss1
    boss2 = boss2
    ada = ada
    ADA = ADA
    Companies = {c1, c2}
    Emails = {boss1, boss2, ada, ADA}
    Lower <- MCLower
    Names = {n1}
    Slots = {r1, r2}
    MaxUsers = 5
    MaxInvitations = 3
    MaxUnits = 3
    MaxRequests = 3
SYMMETRY Interchangeable
INVARIANTS
    TypeOK
    
    OneTokenPerAddress
    
PROPERTIES
    SettledOnce
CHECK_DEADLOCK FALSE
