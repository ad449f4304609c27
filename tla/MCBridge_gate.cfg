SPECIFICATION BridgeSpec
CONSTANTS
    p1 = p1  p2 = p2  c1 = c1  c2 = c2  c3 = c3
    alice = alice  bob = bob
    NoPayment = NoPayment
    Payments = {p1, p2}
    Calls = {c1, c2, c3}
    Vpas = {alice, bob}
    Accounts = {alice, bob}
    Sender <- AllSender
    Receiver <- AllReceiver
    Amount <- AllAmount
    InitialBalance <- AllBalance
    SupportsTransactions = FALSE
    Duplicates = TRUE
    Faults = {"database"}
    Tampered = {}
    MaxAge = 1
    Ttl = 2
    Skew = 1
    ClockOffsets <- BehindToFarAhead
    MaxTime = 4
    MaxEpoch = 2
SYMMETRY CallSymmetry
INVARIANTS
    PassedOnce
    DropsOnlyCopies
PROPERTIES
    DeliversOnce
    RetriesAreDropped
