SPECIFICATION JavaMeshSpec
CONSTANTS
    alice = alice  stranger = stranger  bridge = bridge
    p1 = p1  p2 = p2  t1 = t1  t2 = t2  t3 = t3
    DeviceOrder <- ThreePhones
    HasInternet = {stranger, bridge}
    InitialTtls <- Ttls
    Packets = {p1}
    Threads = {t1, t2, t3}
SYMMETRY ThreadSymmetry
INVARIANTS
    JavaMeshTypeOK
    PassesOnce
PROPERTIES
    RoundReachesAll
    ResetClearsMesh
