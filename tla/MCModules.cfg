CONSTANTS
    Listings <- MCListings
    Requests = 1
SPECIFICATION ModulesSpec
INVARIANTS
    NamesakesHide
    PointersGoToTheFirst
    RequestsIgnoreOrder
CHECK_DEADLOCK FALSE
