SPECIFICATION Spec
CONSTANTS
    Journalists = {j1}
    Editorials = {e1}
    Requests = {r1}
    None = None
    MaxRows = 1
    MaxCards = 1
    Handlers = {"superAttach", "detach", "issueCard", "blockCard", "renewCard"}
INVARIANT CredentialHasMembership
