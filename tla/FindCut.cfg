SPECIFICATION PartsSpec
CONSTANTS
    Bssids = {ap1, ap2, ap3}
    Ssids = {home, hidden}
    Signals <- Strengths
    MinSignal <- Minimum
    MaxHeard = 4
    MacHeaders <- HeaderForms
    ElementIds <- IdForms
    Payloads <- ElementPayloads
    MaxElements = 2
    Names <- SsidLengths
    PacketNumbers <- Numbers
    ChannelLists <- Lists
    ScanNames <- SsidLengths
    Keys <- TemporalKeys
    Seqs <- Sequences16
    SHA1_BLOCK_SIZE = 8
    SHA1_LENGTH_SIZE = 3
    SHA1_DIGEST_SIZE = 2
    MaxTotal = 40
    MaxKey = 18
    PSK_SIZE = 3
    KEY_SIZE = 2
    Addresses = {1, 2}
    NonceValues = {1, 2}
    MaxIterations = 4
    MaxKeyLen = 6
    AES_BLOCK_SIZE = 3
    MIC_SIZE = 2
    CTR_MOD = 3
    Nonces = {n1, n2}
    MaxText = 4
    MaxAad = 2
    Types = {1, 300}
    Lengths = {0, 4, 257}
    MaxEntries = 2
    Slots = 2
    LastFunction = 2
    Ax201Ids = {both}
    Ax200Ids = {}
    Ax210Ids = {ax210}
    Ac9260Ids = {both}
    OtherIds = {ethernet}
    BarFlags = {4}
    BarHighs = {1}
    MaxPolls = 2
INVARIANT CorruptGivesNone
CHECK_DEADLOCK FALSE
