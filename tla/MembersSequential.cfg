SPECIFICATION PurgeSpec
CONSTANTS
    Journalists = {j1}
    Editorials = {e1}
    Requests = {r1}
    None = None
    MaxRows = 2
    MaxCards = 1
    Handlers = {"attach", "superAttach", "respond", "detach", "restoreMembership", "grantEditorial", "signIn", "adminRead", "issueCard", "renewCard", "updateCard", "blockCard", "removeCard", "removeAccount", "restoreAccount", "removeEditorial", "purge"}
INVARIANTS GrantHasMembership
PROPERTIES OnlyExpiredPurged ExpiredEnds
