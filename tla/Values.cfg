SPECIFICATION Spec
CONSTANTS
    Base = 3
    ByteBase = 4
    ValBytes = 3
    ContainerMax = 30
    FloatDigits = 1
    WideBits = 4
    NarrowBits = 3
    BigPrecision = 4
    SizeBits = 8
    GroupBits = 3
    ShiftMax = 15
    MaxScale = 2
    DaySeconds = 4
    FractionDigits = 2
    Offset = 1
    Params <- MCParams
    Columns <- MCColumns
    Targets <- MCTargets
CHECK_DEADLOCK FALSE
INVARIANT TypeOK EchoIsFaithful ColumnIsShown TextBufferHonest
