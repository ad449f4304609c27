SPECIFICATION IngestFairSpec
CONSTANTS
    p1 = p1  p2 = p2  p3 = p3  alice = alice  bob = bob  c1 = c1  c2 = c2
    NoPayment = NoPayment
    Payments = {p1, p2, p3}
    Vpas = {alice, bob}
    Accounts = {alice, bob}
    Sender <- CrossSender
    Receiver <- CrossReceiver
    Amount <- CrossAmount
    InitialBalance <- CrossBalance
    SecondTicks = 2
    MaxAge = 0
    Ttl = 0
    Calls = {c1, c2}
    Exceptions = TRUE
    Tampered = {}
    Skew = 0
    ClockOffsets = {0}
    MaxTime = 3
CHECK_DEADLOCK FALSE
INVARIANTS
    JpaTypeOK
    VersionsCountTransfers
    StaleMeansProgress
    SecondPassIsHarmless
    DropsOnlyCopies
PROPERTIES
    
    EveryThreadReturns
