SPECIFICATION SimFairSpec
CONSTANTS
    p1 = p1  p2 = p2  c1 = c1  c2 = c2  c3 = c3  c4 = c4
    alice = alice  bob = bob
    phone = phone  bridge = bridge  bridge2 = bridge2
    NoPayment = NoPayment
    Payments = {p1, p2}
    Calls = {c1, c2, c3, c4}
    Vpas = {alice, bob}
    Accounts = {alice, bob}
    Sender <- AllSender
    Receiver <- AllReceiver
    Amount <- AllAmount
    InitialBalance <- AllBalance
    SupportsTransactions = FALSE
    Duplicates = TRUE
    Faults = {}
    Tampered = {}
    MaxAge = 0
    Ttl = 0
    Skew = 1
    ClockOffsets = {0}
    MaxTime = 2
    MaxEpoch = 2
    DeviceOrder <- ThreePhones
    HasInternet = {bridge, bridge2}
    InitialTtls <- Ttls
CHECK_DEADLOCK FALSE
INVARIANTS
    OwnPacketsAreAccepted
    DebitedOnce
PROPERTY DeliveredIsDecided
