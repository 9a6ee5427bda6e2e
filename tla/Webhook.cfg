SPECIFICATION Spec
CONSTANTS
    Conns = {c1, c2}
    Ids = {i1}
    None = None
    Capacity = 2
    MaxRetries = 2
    MaxEvents = 4
INVARIANTS WebhookTypeOK CopiesAreBounded LastEventTellsState
PROPERTY ImplementsFeed
