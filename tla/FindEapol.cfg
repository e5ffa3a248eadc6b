SPECIFICATION Spec
CONSTANTS
    TFD_QUEUE_SIZE = 7
    SEQ_MOD = 8
    Bssids = {ap1}
    Ssids = {home}
    Hidden = Hidden
    Anonces = {n1}
    NvmMac = NvmMac
    DEFAULT_MAC = DEFAULT_MAC
    ZeroMac = ZeroMac
    OtherMac = OtherMac
    None = None
    MaxPolls = 2
    MaxPn = 2
INVARIANT
    AwaitedEapolTaken
