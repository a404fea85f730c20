SPECIFICATION Spec
CONSTANTS
    Users = {u1}
    Requests = {r1}
    Secrets = {p1, p2}
    None = None
    MaxVersion = 2
    MaxTokens = 3
    Handlers = {"login", "google", "refresh", "logout", "logoutAll", "changePassword", "changePassphrase", "unlock", "deviceUnlock", "enroll", "lock", "remove", "restore", "recoverUser"}
INVARIANTS SignedOutEverywhere DeletedHoldsNothing SingleUse KeysFollowVersion
