SPECIFICATION VSpec
CONSTANTS
    Turns = {"turn"}
    Backfills = {"backfill"}
    Clients = {"c1", "c2"}
    Question <- OneQuestion
    Reply <- OneReply
    Past = {"older"}
    IndexBatch = 2
    MaxRevisions = 3
    MaxRequests = 3
    MaxCited = 1
    MaxFaults = 1
    ExportSessions = {"c1"}
    ExportRequests = 2
    MaxEdits = 1
INVARIANT VaultInvariant
INVARIANT MessageImportedOnce
INVARIANT TombstoneIsLast
PROPERTY EditsSurvive
PROPERTY IndexCatchesUp
PROPERTY RevokedLeavesVault
CHECK_DEADLOCK FALSE
