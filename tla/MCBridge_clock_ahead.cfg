SPECIFICATION BridgeSpec
CONSTANTS
    p1 = p1  p2 = p2  c1 = c1  c2 = c2  c3 = c3
    alice = alice  bob = bob
    NoPayment = NoPayment
    Payments = {p1}
    Calls = {c1, c2}
    Vpas = {alice, bob}
    Accounts = {alice, bob}
    Sender <- AllSender
    Receiver <- AllReceiver
    Amount <- AllAmount
    InitialBalance <- AllBalance
    SupportsTransactions = FALSE
    Duplicates = TRUE
    Faults = {}
    Tampered = {}
    MaxAge = 2
    Ttl = 2
    Skew = 1
    ClockOffsets <- Ahead
    MaxTime = 5
    MaxEpoch = 1
INVARIANT PassedOnce
