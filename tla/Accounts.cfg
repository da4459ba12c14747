SPECIFICATION Spec
CONSTANTS
    c1 = c1
    c2 = c2
    n1 = n1
    n2 = n2
    e1 = e1
    e2 = e2
    w1 = w1
    w2 = w2
    p1 = p1
    p2 = p2
    s1 = s1
    s2 = s2
    Clients = {c1, c2}
    Names = {n1, n2}
    Emails = {e1, e2}
    Passwords = {w1, w2}
    Providers = {p1}
    Suffixes = {s1, s2}
    NoForm = NoForm
    NoKey = NoKey
    NoCall = NoCall
    NoReply = NoReply
    MaxUsers = 2
SYMMETRY Symmetry
INVARIANTS
    TypeOK
    UniqueAccounts
    AcknowledgedExists
    OwnKey
PROPERTIES
    KeepsRegister
