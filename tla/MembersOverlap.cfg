SPECIFICATION Spec
CONSTANTS
    Journalists = {j1}
    Editorials = {e1}
    Requests = {r1, r2}
    None = None
    MaxRows = 1
    MaxCards = 1
    Handlers = {"attach", "superAttach", "respond", "detach", "restoreMembership", "grantEditorial", "signIn", "adminRead", "issueCard", "renewCard", "updateCard", "blockCard", "removeCard", "removeAccount", "restoreAccount", "removeEditorial", "purge", "failures"}
SYMMETRY RequestSymmetry
INVARIANTS TypeOK OnlyJoined
