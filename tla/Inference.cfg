\* Two Conversations ask one question; three providers, one of them the
\* Creator's ChatGPT plan, whose failure the operator lets move on.
CONSTANTS
    Requests = {"r1", "r2"}
    Chain <- ReserveChain
    Configured = {"freellmapi", "chatgpt", "openai"}
    Background = FALSE
    Opted = TRUE
    Ungoverned = {}
    Threshold = 2
    Earlier <- SomeFailures
    MaxLapses = 1
    Meta <- TwoConversations
    Near <- Itself
    Close <- Itself
    Mode = "semantic"
    MaxChanges = 1
SPECIFICATION Spec
INVARIANTS RouterInvariant InvalidationReaches FallbackNamed
PROPERTY LockFreedByOwner
CHECK_DEADLOCK FALSE
