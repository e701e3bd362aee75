\* Two ports, four drives, three calls of the owner, three troubles: failing
\* operations, drives that come, go and are reset, a killed process.
SPECIFICATION TransportSpec
CONSTANTS
    d1 = d1
    d2 = d2
    d3 = d3
    d4 = d4
    p1 = p1
    p2 = p2
    Units = {d1, d2, d3, d4}
    NoUnit = NoUnit
    Ports = {p1, p2}
    Out = Out
    Identities <- MCIdentities
    Scsi <- MCScsi
    UsbIds <- MCUsbIds
    Home <- MCHome
    ReopenAttempts = 2
    ReattachAttempts = 2
    TagLimit = 64
    MaxCommands = 3
    MaxTroubles = 3
    Serial <- MCSerial
    NoSerial = NoSerial
    Owners = {o1, o2}
    Nobody = Nobody
    Contexts = {k1, k2}
    OpenAttempts = 2
    GuardSlots = 2
    Generations <- MCGenerations
SYMMETRY MCSymmetry
INVARIANTS
    TakenIsGivenBack
    AnswersAreOwn
    OpenedIsKept
CHECK_DEADLOCK FALSE
