\* One photo, two tabs without locks, one failure or closed tab, one retry.
CONSTANTS
    r1 = r1
    t1 = t1
    t2 = t2
    Upload = {1}
    Receipt <- MCReceipt
    ReceiptOf <- MCReceiptOf
    Tab <- MCTwoTabs
    Locks = FALSE
    MaxFailures = 1
    MaxTickets = 2
SPECIFICATION FairSpec
INVARIANTS
    NoPhotoIsLost
    StoredOnce
PROPERTIES
    UploadsSettle
