CONSTANTS
    Conns = {c1, c2}
    MaxConnections = 2
    Clients = {"alice", "bob"}
    t1 = t1
    t2 = t2
    Tokens = {t1, t2}
    UserOf <- OneLoginEach
    MaxAttempts = 2
    None = None
SPECIFICATION Spec
INVARIANTS
    TypeOK
    AccountsUsable
PROPERTIES
    LogoutIsFinal
    StartUpDecides
    VanishedFreed
