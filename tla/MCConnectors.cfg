SPECIFICATION FairSpec
CONSTANTS
    s1 = s1
    s2 = s2
    r1 = r1
    r2 = r2
    TcpSenders <- MCSenders
    TcpReaders <- MCReaders
    TcpExpects <- MCExpects
    TcpBytes = 3
    FifoSenders <- MCSenders
    FifoReaders <- MCReader
    FifoSizes <- MCSizes
    FifoExpects <- MCExpects
    MAX_LINE_SIZE = 2
    PipeSize = 2
    FifoBytes = 2
    PopenPipe = 1
    MaxSends = 2
    MaxOutput = 2
    PopenReaders <- MCReader
    Settings <- MCSettings
INVARIANTS
    
    ReceiversRegistered
    ChildAccounted
PROPERTIES
    SendsReturn
    EndReported
CHECK_DEADLOCK FALSE
