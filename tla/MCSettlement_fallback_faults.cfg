SPECIFICATION SettlementSpec
CONSTANTS
    p1 = p1  p2 = p2  p3 = p3  p4 = p4  p5 = p5
    c1 = c1  c2 = c2  c3 = c3
    alice = alice  bob = bob  carol = carol  dave = dave  ghost = ghost
    NoPayment = NoPayment
    Payments = {p1, p2, p3, p4, p5}
    Calls = {c1, c2, c3}
    Sender <- CrossSender
    Receiver <- CrossReceiver
    Amount <- CrossAmount
    InitialBalance <- CrossBalance
    Vpas = {alice, bob, carol, ghost}
    Accounts = {alice, bob, carol}
    SupportsTransactions = FALSE
    Duplicates = TRUE
    Faults = {"database", "crash"}
SYMMETRY CallSymmetry
INVARIANTS
    EverySettlementHasItsDebit
    OneVerdict
    NoOverdraft
    DebitsHold
    UnrecordedDebitsFailed
