SPECIFICATION Spec
CONSTANTS
    TFD_QUEUE_SIZE = 12
    SEQ_MOD = 13
    Bssids = {ap1, ap2}
    Ssids = {home}
    Hidden = Hidden
    Anonces = {n1, n2}
    NvmMac = NvmMac
    DEFAULT_MAC = DEFAULT_MAC
    ZeroMac = ZeroMac
    OtherMac = OtherMac
    None = None
    MaxPolls = 2
    MaxPn = 2
INVARIANTS
    TypeOK
    StationMatchesLink
    ConnectedHasKey
    CommandSeqIsIndex
    FramesInProtocolOrder
PROPERTY
    ImplementsSecureLink
SYMMETRY Symmetry
