SPECIFICATION FairSpec
CONSTANTS
    Request = {r1, r2}
    None = None
PROPERTIES
    EveryCallReturns
    QueueDrains
