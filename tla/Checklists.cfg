SPECIFICATION Spec
CONSTANTS
    t1 = t1
    t2 = t2
    p1 = p1
    p2 = p2
    n1 = n1
    n2 = n2
    r1 = r1
    r2 = r2
    r3 = r3
    r4 = r4
    r5 = r5
    r6 = r6
    Null = Null
    None = None
    NoTrip = NoTrip
    Trip = {t1, t2}
    Product = {p1, p2}
    ItemName = {n1, n2}
    NamedBy <- Names
    Instant <- Dated
    Amount = {2, 3}
    TransactionLimit = 3
    CumulativeLimit = 4
    Readable <- Analysed
    Req = {r1, r2, r3, r4, r5, r6}
    Before <- Follows
    CallsOf <- Calls
INVARIANTS
    TypeOK
    ChecklistSeesEarlierPurchases
    RefundOnlyIfDue
    DeadlineWarned
    RecordingDoesNotMoveEligibility
