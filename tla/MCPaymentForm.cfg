SPECIFICATION FormSpec
CONSTANTS
    p1 = p1  p2 = p2  c1 = c1  c2 = c2  c3 = c3  c4 = c4
    alice = alice  bob = bob  carol = carol  dave = dave
    phone = phone  bridge = bridge  bridge2 = bridge2
    NoPayment = NoPayment
    Payments = {p1, p2}
    Calls = {c1, c2, c3, c4}
    Vpas = {alice, bob, carol, dave}
    Accounts = {alice, bob, carol, dave}
    Sender <- PairSender
    Receiver <- PairReceiver
    Amount <- PairAmount
    InitialBalance <- PairBalance
    SupportsTransactions = FALSE
    Duplicates = TRUE
    Faults = {}
    Tampered = {}
    MaxAge = 0
    Ttl = 0
    Skew = 1
    ClockOffsets <- InStep
    MaxTime = 2
    MaxEpoch = 2
    DeviceOrder <- OnePhoneTwoBridges
    HasInternet = {bridge, bridge2}
    InitialTtls <- Ttls
    StartDevice = phone
    MaxSends = 1
    MaxUnderWay = 3
INVARIANTS
    FormTypeOK
    OnePacketPerClick
    ShownFlushIsTrue
PROPERTY
    UndisturbedResetClears
