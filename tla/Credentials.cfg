SPECIFICATION MCSpec
CONSTANTS
    None = None
    Absent = Absent
    SecondsPerDay = 4
    ShortLife = 2
    MandateLife = 1
    WalkedDays = 10
    Anchors <- MCAnchors
    MaxField = 6
    MinNonce = 2
    MaxNonce = 3
    MaxKeyId = 2
    Framing = 1
    MaxChanges = 3
INVARIANTS
    DatesReadExactly
    HeldPidTrue
    EncodersServe
    AcceptedWasSigned
    IssuedVerifies
    ContainersNotConfused
CHECK_DEADLOCK FALSE
