SPECIFICATION DemoFairSpec
CONSTANTS
    alice = alice  bob = bob
    s1 = s1  s2 = s2
    phone = phone  stranger = stranger  bridge = bridge
    p1 = p1  p2 = p2
    NoAccount = NoAccount
    Servers = {s1, s2}
    SeedOrder <- TwoAccounts
    SeedBalance <- Seeds
    SrvUri = TRUE
    MaxFaults = 2
    DeviceOrder <- ThreePhones
    HasInternet = {bridge}
    Packets = {p1, p2}
    InitialTtls <- SpentOrNot
    Sender <- FromAlice
    Receiver <- ToBob
    Amount <- TwoAmounts
INVARIANTS
    TtlPaysForHops
    ServedAccountsAreComplete
    BalancesAreBooked
    MoneyIsConserved
    NoBalanceBelowZero
PROPERTIES
    OneRoundReachesAll
    StartLeadsToService
