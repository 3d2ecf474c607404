SPECIFICATION Spec
CONSTANTS
    p1 = p1
    p2 = p2
    s1 = s1
    s2 = s2
    r1 = r1
    r2 = r2
    r3 = r3
    r4 = r4
    r5 = r5
    r6 = r6
    Null = Null
    None = None
    Product = {p1, p2}
    Session = {s1, s2}
    Scale = 10000
    Amount = {0, 4, 7, 50, 93, 100}
    Rate = {1, 7, 33}
    InitCatalogue <- Seeded
    InitRate = Null
    Req = {r1, r2, r3, r4, r5, r6}
    Before <- Follows
    CallsOf <- Calls
INVARIANTS
    PurchasesListedOnce
    QuotesAddUp
