SPECIFICATION Spec
CONSTANTS
    Users = {u1}
    Requests = {r1, r2}
    Secrets = {p1}
    None = None
    MaxVersion = 1
    MaxTokens = 3
    Handlers = {"login", "refresh", "logoutAll", "changePassword", "remove", "restore", "adminReset"}
SYMMETRY RequestSymmetry
INVARIANTS TypeOK LineageKeepsVersion
PROPERTIES DeadStaysDead RevocationSpec
