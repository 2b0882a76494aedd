SPECIFICATION Spec
CONSTANTS
    Docs = {"d1", "d2"}
    Requests = {1, 2}
    Chats = {1, 2}
    Tasks = {"task"}
    Classifier = "knowledge-tree-classifier"
    RouteList <- ConfiguredRoutes
    Tier <- RouteTier
    Model <- RouteModel
    DefaultTier = "high"
    MaxCrashes = 1
INVARIANTS LibraryIsSound ListedIsWhole OnlyApprovedTiers AskedWhenExhausted
PROPERTY BuildIsConsistent
CHECK_DEADLOCK FALSE
