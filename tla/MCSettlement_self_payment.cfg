SPECIFICATION SettlementSpec
CONSTANTS
    p1 = p1  p2 = p2  p3 = p3  p4 = p4  p5 = p5
    c1 = c1  c2 = c2  c3 = c3
    alice = alice  bob = bob  carol = carol  dave = dave  ghost = ghost
    NoPayment = NoPayment
    Payments = {p1, p2}
    Calls = {c1, c2}
    Sender <- SelfSender
    Receiver <- SelfReceiver
    Amount <- SelfAmount
    InitialBalance <- SelfBalance
    Vpas = {alice, bob}
    Accounts = {alice, bob}
    SupportsTransactions = TRUE
    Duplicates = FALSE
    Faults = {}
INVARIANT Reconciled
